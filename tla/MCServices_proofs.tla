-------------------------- MODULE MCServices_proofs --------------------------
(***************************************************************************)
(* Services that are checked side by side, for any values of the constants *)
(* that bound them: which keys the calls to the engines ask, the host of   *)
(* the dialogs, and the pool of helpers, whose answers come back in the    *)
(* places of their lines.  A part runs alone, so what is proved of it holds*)
(* beside the others.  (The translation cache has TranslationCache_proofs.)*)
(***************************************************************************)
EXTENDS MCServices, SequenceTheorems, WellFoundedInduction, TLAPS

-----------------------------------------------------------------------------
(* The calls to the engines: which keys an attempt asks.                   *)

\* The keys of an attempt, from the one it begins with and on past the last to the first.
LEMMA RemainderOfSum ==
    ASSUME NEW k \in Nat \ {0}, NEW a \in 0..(k - 1), NEW d \in 0..(k - 1)
    PROVE  (a + d) % k = IF a + d < k THEN a + d ELSE a + d - k
  OBVIOUS

\* The keys asked in an attempt: the one it began with and those that follow.
InTurn(tried, start, keys) ==
    /\ start < keys /\ tried \in Seq(Nat)
    /\ \A i \in 1..Len(tried) : tried[i] = (start + (i - 1)) % keys
AskedInTurn(k) == InTurn(k.asked, k.start, k.keys)

\* While it asks, and when it gives up.
CallInv(k) ==
    /\ DOMAIN k = DOMAIN Engine!Idle
    /\ k.keys \in Nat /\ k.start \in Nat /\ k.offset \in Nat
    /\ k.at \in {"attempt", "ask", "wait"} => k.keys > 0
    /\ k.at = "ask" => AskedInTurn(k) /\ Len(k.asked) = k.offset /\ k.offset < k.keys
    /\ k.at = "done" /\ k.service = "deepl" /\ k.result.kind # "ok" /\ Engine!FallsBack(k.result) =>
         AskedInTurn(k) /\ Len(k.asked) = k.keys

CallsInv == counter \in Nat /\ DOMAIN calls = Callers /\ \A c \in Callers : CallInv(calls[c])

\* So they are all the keys of the job.
LEMMA AllKeys ==
    ASSUME NEW k, k.keys \in Nat, k.start \in Nat, AskedInTurn(k), Len(k.asked) = k.keys
    PROVE  {k.asked[i] : i \in 1..Len(k.asked)} = 0..(k.keys - 1)
<1> DEFINE n == k.keys
           a == k.start
<1>1. n \in Nat \ {0} /\ a \in 0..(n - 1)
  BY DEF AskedInTurn, InTurn
<1>2. \A i \in 1..n : k.asked[i] = (a + (i - 1)) % n
  BY <1>1 DEF AskedInTurn, InTurn
<1>3. Len(k.asked) = n
  OBVIOUS
<1> HIDE DEF n, a
<1>4. \A i \in 1..n : k.asked[i] = IF a + (i - 1) < n THEN a + (i - 1) ELSE a + (i - 1) - n
  <2> TAKE i \in 1..n
  <2>1. i - 1 \in 0..(n - 1)
    BY <1>1
  <2> QED
    BY <1>1, <1>2, <2>1, RemainderOfSum
<1>5. \A v \in 0..(n - 1) : v >= a => v - a + 1 \in 1..n /\ k.asked[v - a + 1] = v
  <2> TAKE v \in 0..(n - 1)
  <2>1. v >= a => v - a + 1 \in 1..n /\ a + (v - a + 1 - 1) = v
    BY <1>1
  <2> QED
    BY <1>1, <1>4, <2>1
<1>6. \A v \in 0..(n - 1) : v < a => v - a + n + 1 \in 1..n /\ k.asked[v - a + n + 1] = v
  <2> TAKE v \in 0..(n - 1)
  <2>1. v < a => v - a + n + 1 \in 1..n /\ a + (v - a + n + 1 - 1) = v + n
    BY <1>1
  <2> QED
    BY <1>1, <1>4, <2>1
<1>7. \A i \in 1..n : k.asked[i] \in 0..(n - 1)
  BY <1>1, <1>4
<1>8. \A v \in 0..(n - 1) : \E i \in 1..n : k.asked[i] = v
  <2> TAKE v \in 0..(n - 1)
  <2> QED
    BY <1>1, <1>5, <1>6
<1> QED
  BY <1>3, <1>7, <1>8 DEF n

\* One more in turn.
LEMMA Appended ==
    ASSUME NEW keys \in Nat \ {0}, NEW start \in Nat, NEW tried, InTurn(tried, start, keys)
    PROVE  InTurn(Append(tried, (start + Len(tried)) % keys), start, keys)
<1> DEFINE v == (start + Len(tried)) % keys
<1>1. tried \in Seq(Nat) /\ Len(tried) \in Nat /\ v \in Nat
  BY DEF InTurn
<1>2. Append(tried, v) \in Seq(Nat) /\ Len(Append(tried, v)) = Len(tried) + 1
  BY <1>1
<1>3. \A i \in 1..Len(tried) : Append(tried, v)[i] = tried[i]
  BY <1>1
<1>4. Append(tried, v)[Len(tried) + 1] = v
  BY <1>1
<1>5. start + (Len(tried) + 1 - 1) = start + Len(tried)
  BY <1>1
<1>6. \A i \in 1..(Len(tried) + 1) : i \in 1..Len(tried) \/ i = Len(tried) + 1
  BY <1>1
<1>7. \A i \in 1..(Len(tried) + 1) : Append(tried, v)[i] = (start + (i - 1)) % keys
  <2> TAKE i \in 1..(Len(tried) + 1)
  <2>1. CASE i \in 1..Len(tried)
    BY <1>3, <2>1 DEF InTurn
  <2>2. CASE i = Len(tried) + 1
    BY <1>4, <1>5, <2>2
  <2> QED
    BY <1>6, <2>1, <2>2
<1> HIDE DEF v
<1>8. start < keys
  BY DEF InTurn
<1> QED
  BY <1>2, <1>7, <1>8 DEF InTurn, v

\* At the start no call runs.
LEMMA CallsStart == Engine!Init => CallsInv
  BY DEF Engine!Init, CallsInv, CallInv, Engine!Idle

\* Every action keeps it: only a request adds to the keys asked, and it asks the next one.
LEMMA CallsStep == CallsInv /\ [Engine!Next]_Engine!vars => CallsInv'
<1> SUFFICES ASSUME CallsInv, [Engine!Next]_Engine!vars PROVE CallsInv'
  OBVIOUS
<1>1. ASSUME NEW c \in Callers, NEW k, CallInv(k), calls' = [calls EXCEPT ![c] = k], counter' \in Nat
      PROVE  CallsInv'
  BY <1>1 DEF CallsInv
<1>2. ASSUME NEW c \in Callers, Engine!Begin(c) PROVE CallsInv'
  <2>1. PICK service \in {"deepl", "openai"}, keys \in 1..DeepLKeys, inTurn, tooLong \in BOOLEAN :
          calls' = [calls EXCEPT ![c] =
              IF tooLong THEN [Engine!Idle EXCEPT !.at = "done", !.result = Engine!Failed("input_too_long")]
              ELSE [Engine!Idle EXCEPT !.at = "attempt", !.service = service, !.keys = keys,
                                !.inTurn = inTurn]]
    BY <1>2 DEF Engine!Begin
  <2>2. CallInv([Engine!Idle EXCEPT !.at = "done", !.result = Engine!Failed("input_too_long")])
    BY DEF CallInv, Engine!Idle, Engine!Failed, Engine!FallsBack
  <2>3. CallInv([Engine!Idle EXCEPT !.at = "attempt", !.service = service, !.keys = keys,
                                !.inTurn = inTurn])
    BY DEF CallInv, Engine!Idle
  <2> QED
    BY <1>1, <1>2, <2>1, <2>2, <2>3 DEF Engine!Begin, CallsInv
<1>3. ASSUME NEW c \in Callers, Engine!Attempt(c) PROVE CallsInv'
  <2> DEFINE k == [calls[c] EXCEPT !.at = "ask", !.start = Engine!FirstKey(c), !.offset = 0, !.asked = << >>]
  <2>1. calls[c].at = "attempt" /\ CallInv(calls[c]) /\ counter \in Nat /\ DOMAIN calls = Callers
    BY <1>3 DEF Engine!Attempt, CallsInv
  <2>2. Engine!FirstKey(c) \in Nat /\ Engine!FirstKey(c) < calls[c].keys
    BY <2>1 DEF Engine!FirstKey, CallInv
  <2>3. CallInv(k)
    BY <2>1, <2>2 DEF CallInv, AskedInTurn, InTurn, Engine!Idle
  <2>4. calls' = [calls EXCEPT ![c] = k]
    BY <1>3, <2>1 DEF Engine!Attempt
  <2>5. counter' \in Nat
    BY <1>3, <2>1 DEF Engine!Attempt
  <2> HIDE DEF k
  <2> QED
    BY <1>1, <2>3, <2>4, <2>5
<1>4. ASSUME NEW c \in Callers, Engine!Ask(c) PROVE CallsInv'
  <2>1. PICK e \in Engine!Outcomes(calls[c].service) :
        LET k == [calls[c] EXCEPT !.asked = Append(@, Engine!KeyIndex(calls[c]))]
        IN calls' = [calls EXCEPT ![c] =
              IF k.service = "deepl" /\ e.kind # "ok" /\ Engine!FallsBack(e) /\ Engine!MoreKeys(k)
              THEN [k EXCEPT !.offset = @ + 1]
              ELSE Engine!Attempted(k, e)]
    BY <1>4 DEF Engine!Ask
  <2> DEFINE k == [calls[c] EXCEPT !.asked = Append(@, Engine!KeyIndex(calls[c]))]
  <2>2. calls[c].at = "ask" /\ CallInv(calls[c]) /\ counter \in Nat /\ DOMAIN calls = Callers
    BY <1>4 DEF Engine!Ask, CallsInv
  <2>3. /\ k.at = "ask" /\ k.service = calls[c].service /\ k.keys = calls[c].keys
        /\ k.start = calls[c].start /\ k.offset = calls[c].offset /\ DOMAIN k = DOMAIN Engine!Idle
        /\ k.asked = Append(calls[c].asked, (k.start + k.offset) % k.keys)
    BY <2>2 DEF CallInv, Engine!KeyIndex, Engine!Idle
  <2>4. k.keys \in Nat \ {0} /\ k.start \in Nat /\ k.offset \in Nat /\ k.offset < k.keys
    BY <2>2, <2>3 DEF CallInv
  <2>5. AskedInTurn(k) /\ Len(k.asked) = k.offset + 1
    <3>1. (k.start + k.offset) % k.keys \in Nat
      BY <2>4
    <3>2. /\ InTurn(calls[c].asked, k.start, k.keys)
          /\ Len(calls[c].asked) = k.offset
      BY <2>2, <2>3 DEF CallInv, AskedInTurn
    <3>3. InTurn(Append(calls[c].asked, (k.start + k.offset) % k.keys), k.start, k.keys)
      BY <2>4, <3>1, <3>2, Appended
    <3> QED
      BY <2>3, <3>1, <3>2, <3>3 DEF AskedInTurn, InTurn
  <2> HIDE DEF k
  <2>6. CASE k.service = "deepl" /\ e.kind # "ok" /\ Engine!FallsBack(e) /\ Engine!MoreKeys(k)
    <3>1. CallInv([k EXCEPT !.offset = @ + 1])
      <4> DEFINE r == [k EXCEPT !.offset = @ + 1]
      <4>1. /\ DOMAIN r = DOMAIN Engine!Idle /\ r.at = "ask" /\ r.keys = k.keys /\ r.start = k.start
            /\ r.asked = k.asked /\ r.offset = k.offset + 1
        BY <2>3 DEF Engine!Idle
      <4> HIDE DEF r
      <4>2. CallInv(r)
        BY <2>4, <2>5, <2>6, <4>1 DEF CallInv, AskedInTurn, Engine!MoreKeys
      <4> QED
        BY <4>2 DEF r
    <3> QED
      BY <1>1, <1>4, <2>1, <2>2, <2>6, <3>1 DEF Engine!Ask, k
  <2>7. CASE ~(k.service = "deepl" /\ e.kind # "ok" /\ Engine!FallsBack(e) /\ Engine!MoreKeys(k))
    <3>1. CallInv(Engine!Attempted(k, e))
      <4> DEFINE r == Engine!Attempted(k, e)
      <4>1. /\ DOMAIN r = DOMAIN Engine!Idle /\ r.keys = k.keys /\ r.start = k.start
            /\ r.offset = k.offset /\ r.service = k.service
            /\ r.at = "wait" \/ (r.at = "done" /\ r.asked = k.asked /\ r.result = e)
        BY <2>3 DEF Engine!Idle, Engine!Attempted
      <4> HIDE DEF r
      <4>2. r.at = "done" /\ r.service = "deepl" /\ r.result.kind # "ok" /\ Engine!FallsBack(r.result)
              => k.offset + 1 = k.keys
        BY <2>4, <2>7, <4>1 DEF Engine!MoreKeys
      <4>3. CallInv(r)
        BY <2>4, <2>5, <4>1, <4>2 DEF CallInv, AskedInTurn
      <4> QED
        BY <4>3 DEF r
    <3> QED
      BY <1>1, <1>4, <2>1, <2>2, <2>7, <3>1 DEF Engine!Ask, k
  <2> QED
    BY <2>6, <2>7
<1>5. ASSUME NEW c \in Callers, Engine!Sleep(c) PROVE CallsInv'
  <2>1. CallInv([calls[c] EXCEPT !.at = "attempt"])
    BY <1>5 DEF Engine!Sleep, CallsInv, CallInv, Engine!Idle
  <2> QED
    BY <1>1, <1>5, <2>1 DEF Engine!Sleep, CallsInv
<1>6. CASE UNCHANGED Engine!vars
  BY <1>6 DEF Engine!vars, CallsInv
<1> QED
  BY <1>2, <1>3, <1>4, <1>5, <1>6 DEF Engine!Next, Engine!Step

\* A call that ends because a key was refused or used up has asked every key of its job in its
\* last attempt, each once, wherever the attempt began and whatever other calls took from the
\* shared counter meanwhile.
THEOREM AsksEveryKey == ServicesSpec => []EveryKeyAsked
<1>1. CallsInv => EveryKeyAsked
  BY AllKeys DEF CallsInv, CallInv, EveryKeyAsked, Engine!EveryKeyAsked
<1>2. ServicesInit => CallsInv
  BY CallsStart DEF ServicesInit
<1>3. CallsInv /\ [ServicesNext]_allVars => CallsInv'
  <2>1. [ServicesNext]_allVars => [Engine!Next]_Engine!vars
    BY DEF ServicesNext, allVars, callVars, Engine!vars
  <2> QED
    BY <2>1, CallsStep
<1> QED
  BY <1>1, <1>2, <1>3, PTL DEF ServicesSpec

-----------------------------------------------------------------------------
(* The host of the dialogs.                                                *)

\* What holds of 0 and is handed on holds of every number.
LEMMA SetInduction ==
    ASSUME NEW S \in SUBSET Nat, 0 \in S, \A n \in S : n + 1 \in S
    PROVE  S = Nat
<1> SUFFICES ASSUME Nat \ S # {} PROVE FALSE
  OBVIOUS
<1> DEFINE less == OpToRel(<,Nat)
           T == Nat \ S
<1>1. \A x, y \in Nat : y < x => <<y, x>> \in less
  BY DEF OpToRel
<1>2. IsWellFoundedOn(less, Nat) /\ T \subseteq Nat /\ T # {}
  BY NatLessThanWellFounded
<1> HIDE DEF less, T
<1>3. PICK x \in T : \A y \in T : ~ (<<y, x>> \in less)
  BY <1>2, WFMin
<1>4. x # 0 /\ x \in Nat /\ x - 1 \in Nat /\ x - 1 < x
  BY <1>2, <1>3 DEF T
<1>5. x - 1 \in S
  BY <1>1, <1>2, <1>3, <1>4 DEF T
<1>6. x - 1 + 1 = x
  BY <1>4
<1> QED
  BY <1>3, <1>5, <1>6 DEF T


\* f keeps of the first n + 1 messages what it kept of the first n, and the next if it is for ds.
KeptNext(ds, s, f, n) ==
    IF n = 0 THEN << >>
    ELSE IF s[n].to \in ds THEN Append(f[n - 1], s[n]) ELSE f[n - 1]

\* The function that For defines by recursion exists.
LEMMA KeptExists ==
    ASSUME NEW M, NEW ds, NEW s \in Seq(M)
    PROVE  \E f : f = [n \in 0..Len(s) |-> KeptNext(ds, s, f, n)]
<1> DEFINE Good(n) == \E f : f = [i \in 0..n |-> KeptNext(ds, s, f, i)]
           S == {n \in Nat : n <= Len(s) => Good(n)}
<1>0. Len(s) \in Nat
  OBVIOUS
<1>1. 0 \in S
  <2> DEFINE f == [i \in 0..0 |-> << >>]
  <2>1. f = [i \in 0..0 |-> KeptNext(ds, s, f, i)]
    BY DEF KeptNext
  <2> QED
    BY <2>1
<1>2. ASSUME NEW n \in S PROVE n + 1 \in S
  <2> SUFFICES ASSUME n + 1 <= Len(s) PROVE Good(n + 1)
    OBVIOUS
  <2>1. PICK f : f = [i \in 0..n |-> KeptNext(ds, s, f, i)]
    BY <1>0
  <2>4. \A i \in 0..n : f[i] = KeptNext(ds, s, f, i)
    BY <2>1, Zenon
  <2> DEFINE g == [i \in 0..(n + 1) |-> IF i = n + 1 THEN KeptNext(ds, s, f, i) ELSE f[i]]
  <2>2. ASSUME NEW i \in 0..(n + 1) PROVE g[i] = KeptNext(ds, s, g, i)
    <3>1. CASE i = n + 1
      BY <3>1 DEF KeptNext
    <3>2. CASE i = 0
      BY <2>1, <3>2 DEF KeptNext
    <3>3. CASE i \in 1..n
      <4>1. g[i] = f[i] /\ g[i - 1] = f[i - 1]
        BY <3>3
      <4>2. f[i] = KeptNext(ds, s, f, i)
        BY <2>4, <3>3
      <4> HIDE DEF g
      <4> QED
        BY <4>1, <4>2, <3>3 DEF KeptNext
    <3> QED
      BY <3>1, <3>2, <3>3
  <2>3. g = [i \in 0..(n + 1) |-> KeptNext(ds, s, g, i)]
    BY <2>2
  <2> QED
    BY <2>3
<1> HIDE DEF Good
<1>3. S = Nat
  BY <1>1, <1>2, SetInduction
<1>4. Good(Len(s))
  BY <1>0, <1>3
<1> QED
  BY <1>4 DEF Good

\* What For keeps: the messages of s for the dialogs of ds.
LEMMA ForKeeps ==
    ASSUME NEW M, NEW ds, NEW s \in Seq(M)
    PROVE  /\ Host!For(ds, s) \in Seq(M)
           /\ \A m : Host!Contains(Host!For(ds, s), m) <=> m.to \in ds /\ Host!Contains(s, m)
<1> DEFINE f == CHOOSE kept : kept = [n \in 0..Len(s) |-> KeptNext(ds, s, kept, n)]
<1>1. f = [n \in 0..Len(s) |-> KeptNext(ds, s, f, n)]
  BY KeptExists
<1>2. Host!For(ds, s) = f[Len(s)]
  BY DEF Host!For, KeptNext
<1> HIDE DEF f
<1>7. \A n \in 0..Len(s) : f[n] = KeptNext(ds, s, f, n)
  BY <1>1, Zenon
<1> DEFINE Good(n) == /\ f[n] \in Seq(M)
                      /\ \A m : Host!Contains(f[n], m) <=> m.to \in ds /\ \E i \in 1..n : s[i] = m
           S == {n \in Nat : n <= Len(s) => Good(n)}
<1>3. 0 \in S
  BY <1>1 DEF KeptNext, Host!Contains
<1>4. ASSUME NEW n \in S PROVE n + 1 \in S
  <2> SUFFICES ASSUME n + 1 <= Len(s) PROVE Good(n + 1)
    OBVIOUS
  <2>1. Good(n) /\ s[n + 1] \in M
    OBVIOUS
  <2>2. \A m : (\E i \in 1..(n + 1) : s[i] = m) <=> (\E i \in 1..n : s[i] = m) \/ s[n + 1] = m
    <3>1. \A i \in 1..(n + 1) : i \in 1..n \/ i = n + 1
      OBVIOUS
    <3>2. n + 1 \in 1..(n + 1) /\ \A i \in 1..n : i \in 1..(n + 1)
      OBVIOUS
    <3> QED
      BY <3>1, <3>2
  <2>3. n + 1 \in 0..Len(s) /\ n + 1 # 0 /\ n + 1 - 1 = n
    OBVIOUS
  <2>4. f[n + 1] = IF s[n + 1].to \in ds THEN Append(f[n], s[n + 1]) ELSE f[n]
    <3>1. f[n + 1] = KeptNext(ds, s, f, n + 1)
      BY <1>7, <2>3
    <3> QED
      BY <2>3, <3>1 DEF KeptNext
  <2>5. CASE s[n + 1].to \in ds
    <3>1. f[n + 1] = Append(f[n], s[n + 1])
      BY <2>4, <2>5
    <3>2. \A m : Host!Contains(f[n + 1], m) <=> Host!Contains(f[n], m) \/ m = s[n + 1]
      BY <2>1, <3>1 DEF Host!Contains
    <3> QED
      BY <2>1, <2>2, <2>5, <3>1, <3>2
  <2>6. CASE s[n + 1].to \notin ds
    BY <2>1, <2>2, <2>4, <2>6
  <2> QED
    BY <2>5, <2>6
<1> HIDE DEF Good
<1>5. S = Nat
  BY <1>3, <1>4, SetInduction
<1>6. Good(Len(s))
  BY <1>5
<1> QED
  BY <1>2, <1>6 DEF Good, Host!Contains

Resolution == HostDpis \cup {0}
Message ==
    {m \in [kind : {"close", "posted", "dpi", "finish"}, to : Host!Dialog, dpi : Resolution] :
        m.kind = "dpi" => m.dpi \in HostDpis}

\* Types of the host.
HostTypes ==
    /\ dialogs \in [Host!Dialog -> [open : BOOLEAN, dpi : HostDpis, applied : HostDpis, enabled : BOOLEAN]]
    /\ stack \in Seq(Host!Dialog)
    /\ dialogQueue \in Seq(Message) /\ putAside \in Seq(Message)
    /\ disabled \in BOOLEAN

Distinct(s) == \A i, k \in 1..Len(s) : s[i] = s[k] => i = k

\* A handler runs for a dialog that is open, until the application ends, and for each one at most.
HandlersInv == Distinct(stack) /\ (main => \A d \in Host!Dialog : Host!Lent(d) => dialogs[d].open)

\* Messages are for dialogs that are open, those put aside for one whose handler runs; only the
\* settings and the progress ask themselves to close.
MessagesInv ==
    /\ \A m \in Message : Host!Contains(dialogQueue, m) => dialogs[m.to].open
    /\ \A m \in Message : Host!Contains(putAside, m) => dialogs[m.to].open /\ Host!Lent(m.to)
    /\ \A m \in Message : Host!Contains(dialogQueue, m) \/ Host!Contains(putAside, m) =>
         (m.kind \in {"close", "finish"} => m.to # "list")

\* The progress is open only over its list, which it alone disables.
EnabledInv ==
    /\ disabled <=> dialogs["progress"].open
    /\ dialogs["progress"].open => dialogs["list"].open
    /\ \A d \in Host!Dialog : dialogs[d].enabled <=> ~(d = "list" /\ dialogs["progress"].open)

\* A message is queued or put aside.
InPlay(m) == Host!Contains(dialogQueue, m) \/ Host!Contains(putAside, m)

\* A dialog that is not laid out for its resolution has a message that says so, and no message
\* says anything else, unless the resolution changed while a message waited.
LayoutInv ==
    \A d \in Host!Dialog \ crossed : dialogs[d].open =>
        /\ dialogs[d].applied = dialogs[d].dpi \/ InPlay(Host!DpiMsg(dialogs[d].dpi, d))
        /\ \A m \in Message : InPlay(m) /\ m.kind = "dpi" /\ m.to = d => m.dpi = dialogs[d].dpi

HostInv ==
    HostTypes /\ HandlersInv /\ MessagesInv /\ EnabledInv /\ LayoutInv /\ Host!StateOutlivesHandlers

\* What sequences contain.
LEMMA ContainsAppend ==
    \A S : \A s \in Seq(S), e \in S :
        /\ Append(s, e) \in Seq(S)
        /\ \A m : Host!Contains(Append(s, e), m) <=> Host!Contains(s, m) \/ m = e
<1> SUFFICES ASSUME NEW S, NEW s \in Seq(S), NEW e \in S
             PROVE  /\ Append(s, e) \in Seq(S)
                    /\ \A m : Host!Contains(Append(s, e), m) <=> Host!Contains(s, m) \/ m = e
  OBVIOUS
<1>1. /\ Append(s, e) \in Seq(S) /\ Len(Append(s, e)) = Len(s) + 1 /\ Len(s) \in Nat
      /\ Append(s, e)[Len(s) + 1] = e /\ \A i \in 1..Len(s) : Append(s, e)[i] = s[i]
  OBVIOUS
<1>2. /\ \A i \in 1..(Len(s) + 1) : i \in 1..Len(s) \/ i = Len(s) + 1
      /\ Len(s) + 1 \in 1..(Len(s) + 1) /\ \A i \in 1..Len(s) : i \in 1..(Len(s) + 1)
  BY <1>1
<1> QED
  BY <1>1, <1>2 DEF Host!Contains
\* A sequence has its head and what its tail has.
LEMMA ContainsTail ==
    \A S : \A s \in Seq(S) : s # << >> =>
        /\ Tail(s) \in Seq(S) /\ Head(s) \in S /\ Host!Contains(s, Head(s))
        /\ \A m : Host!Contains(s, m) => m = Head(s) \/ Host!Contains(Tail(s), m)
        /\ \A m : Host!Contains(Tail(s), m) => Host!Contains(s, m)
<1> SUFFICES ASSUME NEW S, NEW s \in Seq(S), s # << >>
             PROVE  /\ Tail(s) \in Seq(S) /\ Head(s) \in S /\ Host!Contains(s, Head(s))
                    /\ \A m : Host!Contains(s, m) => m = Head(s) \/ Host!Contains(Tail(s), m)
                    /\ \A m : Host!Contains(Tail(s), m) => Host!Contains(s, m)
  OBVIOUS
<1>1. /\ Tail(s) \in Seq(S) /\ Head(s) \in S /\ Head(s) = s[1] /\ Len(s) \in Nat /\ Len(s) >= 1
      /\ Len(Tail(s)) = Len(s) - 1
      /\ \A i \in 1..(Len(s) - 1) : Tail(s)[i] = s[i + 1]
  OBVIOUS
<1>2. \A i \in 1..Len(s) : i = 1 \/ (i - 1 \in 1..(Len(s) - 1) /\ i - 1 + 1 = i)
  BY <1>1
<1>3. \A i \in 1..(Len(s) - 1) : i + 1 \in 1..Len(s)
  BY <1>1
<1> QED
  BY <1>1, <1>2, <1>3 DEF Host!Contains
\* Two sequences in a row have what either has.
LEMMA ContainsBoth ==
    \A S : \A s, t \in Seq(S) :
        /\ s \o t \in Seq(S)
        /\ \A m : Host!Contains(s \o t, m) <=> Host!Contains(s, m) \/ Host!Contains(t, m)
<1> SUFFICES ASSUME NEW S, NEW s \in Seq(S), NEW t \in Seq(S)
             PROVE  /\ s \o t \in Seq(S)
                    /\ \A m : Host!Contains(s \o t, m) <=> Host!Contains(s, m) \/ Host!Contains(t, m)
  OBVIOUS
<1>1. /\ s \o t \in Seq(S) /\ Len(s \o t) = Len(s) + Len(t) /\ Len(s) \in Nat /\ Len(t) \in Nat
      /\ \A i \in 1..Len(s) : (s \o t)[i] = s[i]
      /\ \A i \in 1..Len(t) : (s \o t)[Len(s) + i] = t[i]
  OBVIOUS
<1>2. \A i \in 1..(Len(s) + Len(t)) :
        i \in 1..Len(s) \/ (i - Len(s) \in 1..Len(t) /\ Len(s) + (i - Len(s)) = i)
  BY <1>1
<1>3. /\ \A i \in 1..Len(s) : i \in 1..(Len(s) + Len(t))
      /\ \A i \in 1..Len(t) : Len(s) + i \in 1..(Len(s) + Len(t))
  BY <1>1
<1> DEFINE b == s \o t
<1> HIDE DEF b
<1>4. ASSUME NEW m, Host!Contains(b, m) PROVE Host!Contains(s, m) \/ Host!Contains(t, m)
  <2>1. PICK i \in 1..(Len(s) + Len(t)) : b[i] = m
    BY <1>1, <1>4 DEF Host!Contains, b
  <2> QED
    BY <1>1, <1>2, <2>1 DEF Host!Contains, b
<1>5. ASSUME NEW m, Host!Contains(s, m) PROVE Host!Contains(b, m)
  BY <1>1, <1>3, <1>5 DEF Host!Contains, b
<1>6. ASSUME NEW m, Host!Contains(t, m) PROVE Host!Contains(b, m)
  BY <1>1, <1>3, <1>6 DEF Host!Contains, b
<1> QED
  BY <1>1, <1>4, <1>5, <1>6 DEF b

\* The handler that ends is no longer among those that run.
LEMMA FrontKeeps ==
    ASSUME NEW S, NEW s \in Seq(S), s # << >>, Distinct(s)
    PROVE  /\ Host!Front(s) \in Seq(S) /\ Distinct(Host!Front(s)) /\ Host!Last(s) \in S
           /\ Host!Contains(s, Host!Last(s)) /\ ~Host!Contains(Host!Front(s), Host!Last(s))
           /\ \A d : Host!Contains(s, d) => d = Host!Last(s) \/ Host!Contains(Host!Front(s), d)
           /\ \A d : Host!Contains(Host!Front(s), d) => Host!Contains(s, d)
<1>1. /\ Len(s) \in Nat /\ Len(s) >= 1 /\ Host!Last(s) = s[Len(s)] /\ Len(Host!Front(s)) = Len(s) - 1
      /\ Host!Front(s) \in Seq(S) /\ \A i \in 1..(Len(s) - 1) : Host!Front(s)[i] = s[i]
  <2>1. Len(s) \in Nat /\ Len(s) >= 1 /\ Host!Last(s) = s[Len(s)]
    BY DEF Host!Last
  <2>2. Len(s) - 1 \in 0..Len(s)
    BY <2>1
  <2>3. \A i \in 1..(Len(s) - 1) : s[i] \in S
    BY <2>1
  <2>4. Host!Front(s) = [i \in 1..(Len(s) - 1) |-> s[i]]
    BY <2>1, <2>2 DEF Host!Front
  <2>5. Host!Front(s) \in Seq(S) /\ Len(Host!Front(s)) = Len(s) - 1
    <3>1. Len(s) - 1 \in Nat
      BY <2>1
    <3> DEFINE n == Len(s) - 1
    <3> HIDE DEF n
    <3>2. \A f \in [1..n -> S] : n \in Nat => f \in Seq(S) /\ Len(f) = n
      OBVIOUS
    <3> QED
      BY <2>3, <2>4, <3>1, <3>2 DEF n
  <2> QED
    BY <2>1, <2>4, <2>5
<1>2. \A i \in 1..(Len(s) - 1) : i \in 1..Len(s) /\ i # Len(s)
  BY <1>1
<1>3. Len(s) \in 1..Len(s) /\ \A i \in 1..Len(s) : i = Len(s) \/ i \in 1..(Len(s) - 1)
  BY <1>1
<1>4. Host!Last(s) \in S
  BY <1>1
<1> QED
  BY <1>1, <1>2, <1>3, <1>4 DEF Host!Contains, Distinct

\* A message is of the messages, for the dialog it names.
LEMMA MsgIsMessage ==
    \A kind \in {"close", "posted", "finish"}, d \in Host!Dialog :
        Host!Msg(kind, d) \in Message /\ Host!Msg(kind, d).kind = kind /\ Host!Msg(kind, d).to = d
  BY DEF Host!Msg, Message, Resolution

\* So is a resolution, and a message that has one is no more than that.
LEMMA DpiIsMessage ==
    /\ \A dpi \in HostDpis, d \in Host!Dialog :
         /\ Host!DpiMsg(dpi, d) \in Message /\ Host!DpiMsg(dpi, d).kind = "dpi"
         /\ Host!DpiMsg(dpi, d).to = d /\ Host!DpiMsg(dpi, d).dpi = dpi
    /\ \A m \in Message : m.to \in Host!Dialog /\ m.kind \in {"close", "posted", "dpi", "finish"}
    /\ \A m \in Message : m.kind = "dpi" => m.dpi \in HostDpis /\ m = Host!DpiMsg(m.dpi, m.to)
  BY DEF Host!DpiMsg, Message, Resolution

\* The layouts stay as they are if the resolutions, laid out and on their way, stay as they are.
LEMMA LayoutKeeps ==
    ASSUME HostTypes, LayoutInv, crossed' = crossed,
           \A d \in Host!Dialog : /\ dialogs'[d].open => dialogs[d].open
                                  /\ dialogs'[d].dpi = dialogs[d].dpi
                                  /\ dialogs'[d].applied = dialogs[d].applied,
           \A m \in Message : m.kind = "dpi" /\ dialogs'[m.to].open => (InPlay(m)' <=> InPlay(m))
    PROVE  LayoutInv'
<1> SUFFICES ASSUME NEW d \in Host!Dialog \ crossed, dialogs'[d].open
             PROVE  /\ dialogs'[d].applied = dialogs'[d].dpi \/ InPlay(Host!DpiMsg(dialogs[d].dpi, d))'
                    /\ \A m \in Message : InPlay(m)' /\ m.kind = "dpi" /\ m.to = d => m.dpi = dialogs'[d].dpi
  BY DEF LayoutInv
<1>1. dialogs[d].dpi \in HostDpis
  BY DEF HostTypes
<1>2. /\ Host!DpiMsg(dialogs[d].dpi, d) \in Message /\ Host!DpiMsg(dialogs[d].dpi, d).kind = "dpi"
      /\ Host!DpiMsg(dialogs[d].dpi, d).to = d
  BY <1>1, DpiIsMessage
<1>3. /\ dialogs[d].applied = dialogs[d].dpi \/ InPlay(Host!DpiMsg(dialogs[d].dpi, d))
      /\ \A m \in Message : InPlay(m) /\ m.kind = "dpi" /\ m.to = d => m.dpi = dialogs[d].dpi
  BY DEF LayoutInv
<1> QED
  BY <1>2, <1>3

\* The two filters split a queue by whom the messages are for.
LEMMA NotForKeeps ==
    \A ds, s : s \in Seq(Message) =>
        /\ Host!NotFor(ds, s) \in Seq(Message) /\ Host!For(ds, s) \in Seq(Message)
        /\ \A m \in Message : Host!Contains(Host!NotFor(ds, s), m) <=> m.to \notin ds /\ Host!Contains(s, m)
        /\ \A m \in Message : Host!Contains(Host!For(ds, s), m) <=> m.to \in ds /\ Host!Contains(s, m)
<1> SUFFICES ASSUME NEW ds, NEW s \in Seq(Message)
             PROVE  /\ Host!NotFor(ds, s) \in Seq(Message) /\ Host!For(ds, s) \in Seq(Message)
                    /\ \A m \in Message : Host!Contains(Host!NotFor(ds, s), m) <=> m.to \notin ds /\ Host!Contains(s, m)
                    /\ \A m \in Message : Host!Contains(Host!For(ds, s), m) <=> m.to \in ds /\ Host!Contains(s, m)
  OBVIOUS
<1>1. \A m \in Message : m.to \in Host!Dialog
  BY DEF Message
<1> QED
  BY <1>1, ForKeeps DEF Host!NotFor

\* A dialog that goes takes its messages along, and leaves the others as they were.
LEMMA DestroyKeeps ==
    ASSUME HostInv, NEW ds \in SUBSET Host!Dialog, NEW lent \in Seq(Host!Dialog), Distinct(lent),
           Host!Destroy(ds, lent), stack' = lent,
           main,
           main' => \A d \in ds : dialogs[d].open => ~Host!Contains(lent, d),
           \A d \in Host!Dialog : Host!Contains(lent, d) => Host!Contains(stack, d),
           \A d \in Host!Dialog : Host!Contains(stack, d) => Host!Contains(lent, d) \/ d \in ds,
           "list" \in ds => "progress" \in ds
    PROVE  HostInv'
<1> DEFINE gone == {d \in ds : dialogs[d].open}
           enables == disabled /\ "progress" \in gone
<1>1. /\ dialogs' = [d \in Host!Dialog |-> [dialogs[d] EXCEPT
                        !.open = @ /\ d \notin gone, !.enabled = @ \/ d \in gone \/ enables]]
      /\ disabled' = (disabled /\ ~enables)
      /\ freed' = freed \cup {d \in gone : Host!Contains(lent, d)}
      /\ putAside' = Host!NotFor(gone, putAside)
      /\ dialogQueue' = Host!NotFor(gone, dialogQueue)
      /\ crossed' = crossed \ gone
  BY DEF Host!Destroy
<1>2. HostTypes /\ HandlersInv /\ MessagesInv /\ EnabledInv /\ LayoutInv /\ freed = {}
  BY DEF HostInv, Host!StateOutlivesHandlers
<1>3. /\ \A d \in Host!Dialog : /\ dialogs'[d].open = (dialogs[d].open /\ d \notin gone)
                                /\ dialogs'[d].enabled = (dialogs[d].enabled \/ d \in gone \/ enables)
                                /\ dialogs'[d].dpi = dialogs[d].dpi
                                /\ dialogs'[d].applied = dialogs[d].applied
      /\ dialogs' \in [Host!Dialog -> [open : BOOLEAN, dpi : HostDpis, applied : HostDpis, enabled : BOOLEAN]]
  BY <1>1, <1>2 DEF HostTypes
<1>4. /\ dialogQueue' \in Seq(Message) /\ putAside' \in Seq(Message)
      /\ \A m \in Message : Host!Contains(dialogQueue', m) <=> m.to \notin gone /\ Host!Contains(dialogQueue, m)
      /\ \A m \in Message : Host!Contains(putAside', m) <=> m.to \notin gone /\ Host!Contains(putAside, m)
  BY <1>1, <1>2, NotForKeeps DEF HostTypes
<1>5. \A m \in Message : m.to \in Host!Dialog
  BY DEF Message
<1>6. {"list", "progress"} \subseteq Host!Dialog
  BY DEF Host!Dialog
<1>7. HostTypes'
  BY <1>1, <1>2, <1>3, <1>4 DEF HostTypes
<1>8. HandlersInv'
  BY <1>2, <1>3 DEF HandlersInv, Host!Lent
<1>9. MessagesInv'
  BY <1>2, <1>3, <1>4, <1>5 DEF MessagesInv, Host!Lent
<1>10. EnabledInv'
  <2>1. dialogs["progress"].open => ("list" \in gone => "progress" \in gone)
    OBVIOUS
  <2>2. disabled' <=> dialogs'["progress"].open
    BY <1>1, <1>2, <1>3, <1>6 DEF EnabledInv
  <2>3. dialogs'["progress"].open => dialogs'["list"].open
    BY <1>2, <1>3, <1>6, <2>1 DEF EnabledInv
  <2>4. ASSUME NEW d \in Host!Dialog
        PROVE  dialogs'[d].enabled <=> ~(d = "list" /\ dialogs'["progress"].open)
    BY <1>2, <1>3, <1>6, <2>1 DEF EnabledInv
  <2> QED
    BY <2>2, <2>3, <2>4 DEF EnabledInv
<1>11. LayoutInv'
  <2>1. \A d \in Host!Dialog \ crossed' : dialogs'[d].open => d \in Host!Dialog \ crossed /\ d \notin gone
    BY <1>1, <1>3
  <2>2. \A m \in Message : m.to \notin gone => (InPlay(m)' <=> InPlay(m))
    BY <1>4 DEF InPlay
  <2> SUFFICES ASSUME NEW d \in Host!Dialog \ crossed, d \notin gone, dialogs'[d].open
               PROVE  /\ dialogs'[d].applied = dialogs'[d].dpi \/ InPlay(Host!DpiMsg(dialogs[d].dpi, d))'
                      /\ \A m \in Message : InPlay(m)' /\ m.kind = "dpi" /\ m.to = d => m.dpi = dialogs'[d].dpi
    BY <2>1 DEF LayoutInv
  <2> HIDE DEF gone
  <2>3. Host!DpiMsg(dialogs[d].dpi, d) \in Message /\ Host!DpiMsg(dialogs[d].dpi, d).to = d
    BY <1>2, DpiIsMessage DEF HostTypes
  <2>4. /\ dialogs[d].applied = dialogs[d].dpi \/ InPlay(Host!DpiMsg(dialogs[d].dpi, d))
        /\ \A m \in Message : InPlay(m) /\ m.kind = "dpi" /\ m.to = d => m.dpi = dialogs[d].dpi
    BY <1>2, <1>3 DEF LayoutInv
  <2> QED
    BY <1>3, <2>2, <2>3, <2>4
<1>12. main' => freed' = {}
  BY <1>1, <1>2
<1> QED
  BY <1>7, <1>8, <1>9, <1>10, <1>11, <1>12 DEF HostInv, Host!StateOutlivesHandlers

\* A dialog is shown over its owner, which it disables.
LEMMA ShowKeeps ==
    ASSUME HostInv, NEW d \in Host!Dialog, ~dialogs[d].open, Host!Show(d),
           d = "progress" => dialogs["list"].open,
           UNCHANGED <<main, stack, dialogQueue, putAside, freed, crossed>>
    PROVE  HostInv'
<1>1. HostTypes /\ HandlersInv /\ MessagesInv /\ EnabledInv /\ LayoutInv
  BY DEF HostInv
<1>2. CASE UNCHANGED <<dialogs, disabled>>
  BY <1>2 DEF HostInv, HostTypes, HandlersInv, MessagesInv, EnabledInv, LayoutInv, InPlay, Host!Lent,
              Host!StateOutlivesHandlers
<1>3. CASE /\ dialogs' = [e \in Host!Dialog |->
                IF e = d THEN [dialogs[d] EXCEPT !.open = TRUE, !.applied = dialogs[d].dpi]
                ELSE IF d \in Host!Owned(e) THEN [dialogs[e] EXCEPT !.enabled = FALSE] ELSE dialogs[e]]
           /\ disabled' = (disabled \/ d = "progress")
  <2>1. d \in Host!Owned("list") <=> d = "progress"
    BY DEF Host!Owned
  <2>2. \A e \in Host!Dialog \ {"list"} : d \notin Host!Owned(e)
    BY DEF Host!Owned
  <2>3. /\ \A e \in Host!Dialog :
             /\ dialogs'[e].open = (dialogs[e].open \/ e = d)
             /\ dialogs'[e].enabled = (dialogs[e].enabled /\ ~(e = "list" /\ d = "progress"))
             /\ dialogs'[e].dpi = dialogs[e].dpi
             /\ dialogs'[e].applied = IF e = d THEN dialogs[e].dpi ELSE dialogs[e].applied
        /\ dialogs' \in [Host!Dialog -> [open : BOOLEAN, dpi : HostDpis, applied : HostDpis, enabled : BOOLEAN]]
    BY <1>1, <1>3, <2>1, <2>2 DEF HostTypes
  <2>4. {"list", "progress"} \subseteq Host!Dialog
    BY DEF Host!Dialog
  <2>5. HostTypes'
    BY <1>1, <1>3, <2>3 DEF HostTypes
  <2>6. HandlersInv'
    BY <1>1, <2>3 DEF HandlersInv, Host!Lent
  <2>7. MessagesInv'
    <3>1. \A m \in Message : m.to \in Host!Dialog
      BY DEF Message
    <3> QED
      BY <1>1, <2>3, <3>1 DEF MessagesInv, Host!Lent
  <2>8. EnabledInv'
    <3>1. disabled' <=> dialogs'["progress"].open
      <4>1. disabled <=> dialogs["progress"].open
        BY <1>1 DEF EnabledInv
      <4>2. dialogs'["progress"].open = (dialogs["progress"].open \/ "progress" = d)
        BY <2>3, <2>4
      <4>3. disabled' = (disabled \/ d = "progress")
        BY <1>3
      <4> QED
        BY <4>1, <4>2, <4>3
    <3>2. dialogs'["progress"].open => dialogs'["list"].open
      <4>1. /\ dialogs["progress"].open => dialogs["list"].open
            /\ d = "progress" => dialogs["list"].open
        BY <1>1 DEF EnabledInv
      <4>2. /\ dialogs'["progress"].open = (dialogs["progress"].open \/ "progress" = d)
            /\ dialogs'["list"].open = (dialogs["list"].open \/ "list" = d)
        BY <2>3, <2>4
      <4> QED
        BY <4>1, <4>2
    <3>3. ASSUME NEW e \in Host!Dialog
          PROVE  dialogs'[e].enabled <=> ~(e = "list" /\ dialogs'["progress"].open)
      BY <1>1, <2>3, <2>4 DEF EnabledInv
    <3> QED
      BY <3>1, <3>2, <3>3 DEF EnabledInv
  <2>9. LayoutInv'
    <3>1. \A m \in Message : InPlay(m) => dialogs[m.to].open
      BY <1>1 DEF MessagesInv, InPlay
    <3>2. UNCHANGED <<dialogQueue, putAside, crossed>>
      OBVIOUS
    <3> SUFFICES ASSUME NEW e \in Host!Dialog \ crossed, dialogs'[e].open
                 PROVE  /\ dialogs'[e].applied = dialogs'[e].dpi \/ InPlay(Host!DpiMsg(dialogs'[e].dpi, e))
                        /\ \A m \in Message : InPlay(m) /\ m.kind = "dpi" /\ m.to = e => m.dpi = dialogs'[e].dpi
      BY <3>2 DEF LayoutInv, InPlay
    <3>3. CASE e = d
      BY <2>3, <3>1, <3>3
    <3>4. CASE e # d
      <4>1. dialogs[e].open
        BY <2>3, <3>4
      <4> QED
        BY <1>1, <2>3, <3>4, <4>1 DEF LayoutInv
    <3> QED
      BY <3>3, <3>4
  <2> QED
    BY <2>5, <2>6, <2>7, <2>8, <2>9 DEF HostInv, Host!StateOutlivesHandlers
<1> QED
  BY <1>2, <1>3 DEF Host!Show

\* A step that sends or moves messages only.
LEMMA MessagesMove ==
    ASSUME HostInv, UNCHANGED <<main, disabled, freed>>, HostTypes', HandlersInv', LayoutInv',
           \A d \in Host!Dialog : /\ dialogs'[d].open = dialogs[d].open
                                  /\ dialogs'[d].enabled = dialogs[d].enabled,
           \A m \in Message : Host!Contains(dialogQueue', m) =>
             \/ Host!Contains(dialogQueue, m) \/ Host!Contains(putAside, m)
             \/ dialogs[m.to].open /\ (m.kind \in {"close", "finish"} => m.to # "list"),
           \A m \in Message : Host!Contains(putAside', m) =>
             /\ \/ Host!Contains(dialogQueue, m) \/ Host!Contains(putAside, m)
                \/ dialogs[m.to].open /\ (m.kind \in {"close", "finish"} => m.to # "list")
             /\ Host!Contains(stack', m.to)
    PROVE  HostInv'
<1>1. MessagesInv'
  <2>1. \A m \in Message : m.to \in Host!Dialog
    BY DEF Message
  <2> QED
    BY <2>1 DEF HostInv, MessagesInv, Host!Lent
<1>2. EnabledInv'
  <2>1. {"list", "progress"} \subseteq Host!Dialog
    BY DEF Host!Dialog
  <2> QED
    BY <2>1 DEF HostInv, EnabledInv
<1> QED
  BY <1>1, <1>2 DEF HostInv, Host!StateOutlivesHandlers

\* One more handler runs.
LEMMA DistinctAppend ==
    ASSUME NEW s \in Seq(Host!Dialog), NEW d \in Host!Dialog, Distinct(s), ~Host!Contains(s, d)
    PROVE  Distinct(Append(s, d))
<1>1. /\ Len(Append(s, d)) = Len(s) + 1 /\ Len(s) \in Nat
      /\ Append(s, d)[Len(s) + 1] = d /\ \A i \in 1..Len(s) : Append(s, d)[i] = s[i]
  OBVIOUS
<1>2. \A i \in 1..(Len(s) + 1) : i \in 1..Len(s) \/ i = Len(s) + 1
  BY <1>1
<1> QED
  BY <1>1, <1>2 DEF Distinct, Host!Contains

\* A handler that begins borrows its dialog and leaves the messages where they are.
LEMMA HandlerBegins ==
    ASSUME HostInv, NEW d \in Host!Dialog, dialogs[d].open, ~Host!Lent(d), stack' = Append(stack, d),
           UNCHANGED <<main, dialogs, dialogQueue, putAside, disabled, freed, crossed>>
    PROVE  HostInv'
<1>1. HostTypes /\ HandlersInv /\ MessagesInv /\ EnabledInv /\ LayoutInv
  BY DEF HostInv
<1>2. /\ stack' \in Seq(Host!Dialog) /\ Distinct(stack')
      /\ \A e : Host!Contains(stack', e) <=> Host!Contains(stack, e) \/ e = d
  BY <1>1, ContainsAppend, DistinctAppend DEF HostTypes, HandlersInv, Host!Lent
<1>3. HostTypes' /\ LayoutInv'
  BY <1>1, <1>2 DEF HostTypes, LayoutInv, InPlay
<1>4. HandlersInv'
  BY <1>1, <1>2 DEF HandlersInv, Host!Lent
<1>5. \A m \in Message : Host!Contains(putAside', m) => Host!Contains(putAside, m) /\ Host!Contains(stack', m.to)
  BY <1>1, <1>2 DEF MessagesInv, Host!Lent
<1> QED
  BY <1>3, <1>4, <1>5, MessagesMove

\* At the start no dialog is open.
LEMMA HostStart == Host!Init => HostInv
<1> SUFFICES ASSUME Host!Init PROVE HostInv
  OBVIOUS
<1>1. PICK dpi \in HostDpis :
        /\ dialogs = [d \in Host!Dialog |-> [open |-> FALSE, dpi |-> dpi, applied |-> dpi, enabled |-> TRUE]]
        /\ stack = << >> /\ dialogQueue = << >> /\ putAside = << >>
        /\ disabled = FALSE /\ freed = {}
  BY DEF Host!Init
<1>2. \A m : ~Host!Contains(<< >>, m)
  BY DEF Host!Contains
<1>3. HostTypes
  <2>1. dialogs \in [Host!Dialog -> [open : BOOLEAN, dpi : HostDpis, applied : HostDpis, enabled : BOOLEAN]]
    BY <1>1
  <2>2. \A S : << >> \in Seq(S)
    OBVIOUS
  <2> QED
    BY <1>1, <2>1, <2>2 DEF HostTypes
<1>4. HandlersInv /\ MessagesInv
  BY <1>1, <1>2 DEF HandlersInv, MessagesInv, Distinct, Host!Lent
<1>5. EnabledInv
  BY <1>1 DEF EnabledInv, Host!Dialog
<1> QED
  BY <1>1, <1>3, <1>4, <1>5 DEF HostInv, LayoutInv, Host!StateOutlivesHandlers

\* A new resolution is laid out, or put aside for the handler that runs.
LEMMA NewDpiKeeps ==
    ASSUME HostInv, NEW d \in Host!Dialog, NEW dpi \in HostDpis, Host!NewDpi(d, dpi)
    PROVE  HostInv'
<1>1. HostTypes /\ HandlersInv /\ MessagesInv /\ EnabledInv /\ LayoutInv
  BY DEF HostInv
<1> DEFINE new == Host!DpiMsg(dpi, d)
<1>2. /\ UNCHANGED <<main, stack, disabled, freed>> /\ dialogs[d].open
      /\ dialogs' = [dialogs EXCEPT ![d] =
            [dialogs[d] EXCEPT !.dpi = dpi, !.applied = IF Host!Lent(d) THEN dialogs[d].applied ELSE dpi]]
      /\ putAside' = IF Host!Lent(d) THEN Append(putAside, new) ELSE Host!NotFor({d}, putAside)
      /\ dialogQueue' = IF Host!Lent(d) THEN dialogQueue ELSE dialogQueue \o Host!For({d}, putAside)
      /\ crossed' = IF Host!Waits(d) THEN crossed \cup {d} ELSE crossed \ {d}
  BY DEF Host!NewDpi, Host!Outside
<1>3. new \in Message /\ new.kind = "dpi" /\ new.to = d /\ new.dpi = dpi
  BY DpiIsMessage
<1>4. /\ \A e \in Host!Dialog : /\ dialogs'[e].open = dialogs[e].open
                                /\ dialogs'[e].enabled = dialogs[e].enabled
                                /\ dialogs'[e].dpi = IF e = d THEN dpi ELSE dialogs[e].dpi
                                /\ dialogs'[e].applied =
                                     IF e = d /\ ~Host!Lent(d) THEN dpi ELSE dialogs[e].applied
      /\ dialogs' \in [Host!Dialog -> [open : BOOLEAN, dpi : HostDpis, applied : HostDpis, enabled : BOOLEAN]]
  <2> DEFINE seen == [dialogs[d] EXCEPT !.dpi = dpi,
                                    !.applied = IF Host!Lent(d) THEN dialogs[d].applied ELSE dpi]
  <2>1. /\ seen \in [open : BOOLEAN, dpi : HostDpis, applied : HostDpis, enabled : BOOLEAN]
        /\ seen.open = dialogs[d].open /\ seen.enabled = dialogs[d].enabled /\ seen.dpi = dpi
        /\ seen.applied = IF Host!Lent(d) THEN dialogs[d].applied ELSE dpi
    BY <1>1 DEF HostTypes
  <2>2. dialogs' = [dialogs EXCEPT ![d] = seen]
    BY <1>2
  <2> HIDE DEF seen
  <2> QED
    BY <1>1, <2>1, <2>2 DEF HostTypes
<1> HIDE DEF new
<1>5. /\ putAside' \in Seq(Message) /\ dialogQueue' \in Seq(Message)
      /\ \A m \in Message : InPlay(m)' <=> InPlay(m) \/ (Host!Lent(d) /\ m = new)
      /\ \A m \in Message : Host!Contains(dialogQueue', m) => InPlay(m)
      /\ \A m \in Message : Host!Contains(putAside', m) =>
           (Host!Contains(putAside, m) \/ m = new) /\ Host!Contains(stack', m.to)
  <2>1. CASE Host!Lent(d)
    <3>1. putAside' \in Seq(Message) /\ \A m : Host!Contains(putAside', m) <=> Host!Contains(putAside, m) \/ m = new
      BY <1>1, <1>2, <1>3, <2>1, ContainsAppend DEF HostTypes
    <3>2. dialogQueue' = dialogQueue
      BY <1>2, <2>1
    <3>3. \A m \in Message : Host!Contains(putAside', m) => Host!Contains(stack', m.to)
      BY <1>1, <1>2, <1>3, <2>1, <3>1 DEF MessagesInv, Host!Lent
    <3> QED
      BY <1>1, <2>1, <3>1, <3>2, <3>3 DEF HostTypes, InPlay
  <2>2. CASE ~Host!Lent(d)
    <3> DEFINE kept == Host!For({d}, putAside)
    <3>1. /\ putAside' \in Seq(Message) /\ kept \in Seq(Message)
          /\ \A m \in Message : Host!Contains(putAside', m) <=> m.to \notin {d} /\ Host!Contains(putAside, m)
          /\ \A m \in Message : Host!Contains(kept, m) <=> m.to \in {d} /\ Host!Contains(putAside, m)
      BY <1>1, <1>2, <2>2, NotForKeeps DEF HostTypes
    <3>2. dialogQueue' = dialogQueue \o kept /\ dialogQueue \in Seq(Message)
      BY <1>1, <1>2, <2>2 DEF HostTypes
    <3> HIDE DEF kept
    <3>3. /\ dialogQueue' \in Seq(Message)
          /\ \A m : Host!Contains(dialogQueue', m) <=> Host!Contains(dialogQueue, m) \/ Host!Contains(kept, m)
      BY <3>1, <3>2, ContainsBoth
    <3>4. \A m \in Message : Host!Contains(putAside', m) => Host!Contains(stack', m.to)
      BY <1>1, <1>2, <3>1 DEF MessagesInv, Host!Lent
    <3> QED
      BY <2>2, <3>1, <3>3, <3>4 DEF InPlay
  <2> QED
    BY <2>1, <2>2
<1>6. HostTypes'
  BY <1>1, <1>2, <1>4, <1>5 DEF HostTypes
<1>7. HandlersInv'
  BY <1>1, <1>2, <1>4 DEF HandlersInv, Host!Lent
<1>8. LayoutInv'
  <2> SUFFICES ASSUME NEW e \in Host!Dialog \ crossed', dialogs'[e].open
               PROVE  /\ dialogs'[e].applied = dialogs'[e].dpi \/ InPlay(Host!DpiMsg(dialogs[e].dpi, e))'
                      /\ \A m \in Message : InPlay(m)' /\ m.kind = "dpi" /\ m.to = e => m.dpi = dialogs'[e].dpi
    BY DEF LayoutInv
  <2>1. CASE e = d
    <3>1. ~Host!Waits(d)
      BY <1>2, <2>1
    <3>2. \A m \in Message : m.kind = "dpi" /\ m.to = d => ~InPlay(m)
      BY <3>1, DpiIsMessage DEF Host!Waits, InPlay
    <3>3. dialogs'[d].applied = dpi \/ InPlay(new)'
      BY <1>3, <1>4, <1>5
    <3> QED
      BY <1>3, <1>4, <1>5, <2>1, <3>2, <3>3 DEF new
  <2>2. CASE e # d
    <3>1. e \in Host!Dialog \ crossed /\ dialogs[e].open /\ dialogs[e].dpi \in HostDpis
      BY <1>1, <1>2, <1>4, <2>2 DEF HostTypes
    <3>2. /\ dialogs[e].applied = dialogs[e].dpi \/ InPlay(Host!DpiMsg(dialogs[e].dpi, e))
          /\ \A m \in Message : InPlay(m) /\ m.kind = "dpi" /\ m.to = e => m.dpi = dialogs[e].dpi
      BY <1>1, <3>1 DEF LayoutInv
    <3>3. Host!DpiMsg(dialogs[e].dpi, e) \in Message
      BY <3>1, DpiIsMessage
    <3>4. \A m \in Message : m.to = e => (InPlay(m)' <=> InPlay(m))
      BY <1>3, <1>5, <2>2
    <3>5. Host!DpiMsg(dialogs[e].dpi, e).to = e
      BY <3>1, DpiIsMessage
    <3> QED
      BY <1>4, <2>2, <3>2, <3>3, <3>4, <3>5
  <2> QED
    BY <2>1, <2>2
<1>9. \A m \in Message : Host!Contains(dialogQueue', m) =>
             \/ Host!Contains(dialogQueue, m) \/ Host!Contains(putAside, m)
             \/ dialogs[m.to].open /\ (m.kind \in {"close", "finish"} => m.to # "list")
  BY <1>5 DEF InPlay
<1>10. \A m \in Message : Host!Contains(putAside', m) =>
          /\ \/ Host!Contains(dialogQueue, m) \/ Host!Contains(putAside, m)
             \/ dialogs[m.to].open /\ (m.kind \in {"close", "finish"} => m.to # "list")
          /\ Host!Contains(stack', m.to)
  BY <1>2, <1>3, <1>5
<1> QED
  BY <1>2, <1>4, <1>6, <1>7, <1>8, <1>9, <1>10, MessagesMove

\* What comes from outside.
LEMMA OutsideKeeps ==
    ASSUME HostInv, NEW d \in Host!Dialog,
           \/ Host!Open(d) \/ Host!Send(d) \/ Host!BeginCommand(d)
           \/ \E dpi \in HostDpis : Host!NewDpi(d, dpi)
    PROVE  HostInv'
<1>1. HostTypes /\ HandlersInv /\ MessagesInv /\ EnabledInv /\ LayoutInv
  BY DEF HostInv
<1>2. CASE Host!Open(d)
  BY <1>2, ShowKeeps DEF Host!Open, Host!Outside
<1>3. CASE Host!Send(d)
  <2>1. /\ UNCHANGED <<main, dialogs, stack, putAside, disabled, freed, crossed>> /\ dialogs[d].open
        /\ dialogQueue' = Append(dialogQueue, Host!Msg("posted", d))
    BY <1>3 DEF Host!Send, Host!Outside
  <2>2. /\ Host!Msg("posted", d) \in Message /\ Host!Msg("posted", d).kind = "posted"
        /\ Host!Msg("posted", d).to = d
    BY MsgIsMessage
  <2>3. /\ dialogQueue' \in Seq(Message)
        /\ \A m : Host!Contains(dialogQueue', m) <=> Host!Contains(dialogQueue, m) \/ m = Host!Msg("posted", d)
    BY <1>1, <2>1, <2>2, ContainsAppend DEF HostTypes
  <2>4. HostTypes' /\ HandlersInv'
    BY <1>1, <2>1, <2>3 DEF HostTypes, HandlersInv, Host!Lent
  <2>5. LayoutInv'
    <3>1. \A m \in Message : m.kind = "dpi" => (InPlay(m)' <=> InPlay(m))
      BY <2>1, <2>2, <2>3 DEF InPlay
    <3> QED
      BY <1>1, <2>1, <3>1, LayoutKeeps
  <2>6. \A m \in Message : Host!Contains(putAside', m) => Host!Contains(putAside, m) /\ Host!Contains(stack', m.to)
    BY <1>1, <2>1 DEF MessagesInv, Host!Lent
  <2> QED
    BY <2>1, <2>2, <2>3, <2>4, <2>5, <2>6, MessagesMove
<1>4. CASE Host!BeginCommand(d)
  <2>1. /\ UNCHANGED <<main, dialogs, dialogQueue, putAside, disabled, freed, crossed>> /\ ~Host!Lent(d)
        /\ dialogs[d].open /\ stack' = Append(stack, d)
    BY <1>4 DEF Host!BeginCommand, Host!Outside
  <2> QED
    BY <2>1, HandlerBegins
<1>5. ASSUME NEW dpi \in HostDpis, Host!NewDpi(d, dpi) PROVE HostInv'
  BY <1>5, NewDpiKeeps
<1> QED
  BY <1>2, <1>3, <1>4, <1>5

\* A message is handled, or put aside for the handler that runs.
LEMMA MessagesKeep ==
    ASSUME HostInv, NEW d \in Host!Dialog,
           \/ \E kind \in {"close", "posted", "dpi", "finish"} : Host!DispatchLent(kind, d)
           \/ Host!Dispatch(d) \/ Host!DispatchClose(d) \/ Host!DispatchDpi(d)
    PROVE  HostInv'
<1>1. HostTypes /\ HandlersInv /\ MessagesInv /\ EnabledInv /\ LayoutInv
  BY DEF HostInv
<1> DEFINE first == Head(dialogQueue)
<1>2. ASSUME NEW kind \in {"close", "posted", "dpi", "finish"}, Host!Takes(kind, d)
      PROVE  /\ first \in Message /\ first.kind = kind /\ first.to = d /\ main /\ UNCHANGED main
             /\ Host!Contains(dialogQueue, first) /\ dialogs[d].open
             /\ Tail(dialogQueue) \in Seq(Message)
             /\ \A m : Host!Contains(dialogQueue, m) => m = first \/ Host!Contains(Tail(dialogQueue), m)
             /\ \A m : Host!Contains(Tail(dialogQueue), m) => Host!Contains(dialogQueue, m)
  <2>1. /\ dialogQueue # << >> /\ first.kind = kind /\ first.to = d /\ dialogQueue \in Seq(Message)
        /\ main /\ UNCHANGED main
    BY <1>1, <1>2 DEF Host!Takes, HostTypes
  <2>2. /\ Tail(dialogQueue) \in Seq(Message) /\ first \in Message /\ Host!Contains(dialogQueue, first)
        /\ \A m : Host!Contains(dialogQueue, m) => m = first \/ Host!Contains(Tail(dialogQueue), m)
        /\ \A m : Host!Contains(Tail(dialogQueue), m) => Host!Contains(dialogQueue, m)
    BY <2>1, ContainsTail
  <2> HIDE DEF first
  <2> QED
    BY <1>1, <2>1, <2>2 DEF MessagesInv
<1> HIDE DEF first
<1>3. ASSUME NEW kind \in {"close", "posted", "dpi", "finish"}, Host!DispatchLent(kind, d)
      PROVE  HostInv'
  <2>1. /\ dialogQueue' = Tail(dialogQueue) /\ UNCHANGED <<dialogs, stack, disabled, freed, crossed>>
        /\ Host!Lent(d) /\ Host!Takes(kind, d)
        /\ putAside' = IF Host!CanDefer(kind) THEN Append(putAside, first) ELSE putAside
    BY <1>3 DEF Host!DispatchLent, Host!Takes, first
  <2>2. /\ putAside' \in Seq(Message)
        /\ \A m : Host!Contains(putAside, m) => Host!Contains(putAside', m)
        /\ \A m : Host!Contains(putAside', m) => Host!Contains(putAside, m) \/ m = first
        /\ kind = "dpi" => Host!Contains(putAside', first)
    BY <1>1, <1>2, <2>1, ContainsAppend DEF HostTypes, Host!CanDefer
  <2>3. HostTypes' /\ HandlersInv'
    BY <1>1, <1>2, <2>1, <2>2 DEF HostTypes, HandlersInv, Host!Lent
  <2>4. LayoutInv'
    <3>1. ASSUME NEW m \in Message, m.kind = "dpi" PROVE InPlay(m)' <=> InPlay(m)
      BY <1>2, <2>1, <2>2, <3>1 DEF InPlay
    <3> QED
      BY <1>1, <2>1, <3>1, LayoutKeeps
  <2>5. \A m \in Message : Host!Contains(putAside', m) =>
             (Host!Contains(dialogQueue, m) \/ Host!Contains(putAside, m)) /\ Host!Contains(stack', m.to)
    BY <1>1, <1>2, <2>1, <2>2 DEF MessagesInv, Host!Lent
  <2> QED
    BY <1>2, <2>1, <2>3, <2>4, <2>5, MessagesMove
<1>4. CASE Host!Dispatch(d)
  <2>1. /\ dialogQueue' = Tail(dialogQueue) /\ UNCHANGED <<dialogs, putAside, disabled, freed, crossed>>
        /\ ~Host!Lent(d) /\ Host!Takes("posted", d) /\ stack' = Append(stack, d)
    BY <1>4 DEF Host!Dispatch
  <2>2. /\ stack' \in Seq(Host!Dialog) /\ Distinct(stack')
        /\ \A e : Host!Contains(stack', e) <=> Host!Contains(stack, e) \/ e = d
    BY <1>1, <2>1, ContainsAppend, DistinctAppend DEF HostTypes, HandlersInv, Host!Lent
  <2>3. HostTypes' /\ HandlersInv'
    BY <1>1, <1>2, <2>1, <2>2 DEF HostTypes, HandlersInv, Host!Lent
  <2>4. LayoutInv'
    <3>1. ASSUME NEW m \in Message, m.kind = "dpi" PROVE InPlay(m)' <=> InPlay(m)
      BY <1>2, <2>1, <3>1 DEF InPlay
    <3> QED
      BY <1>1, <2>1, <3>1, LayoutKeeps
  <2>5. \A m \in Message : Host!Contains(putAside', m) =>
             (Host!Contains(dialogQueue, m) \/ Host!Contains(putAside, m)) /\ Host!Contains(stack', m.to)
    BY <1>1, <2>1, <2>2 DEF MessagesInv, Host!Lent
  <2> QED
    BY <1>2, <2>1, <2>3, <2>4, <2>5, MessagesMove
<1>5. CASE Host!DispatchClose(d)
  <2>1. /\ Host!Destroy({d} \cup Host!Owned(d), stack) /\ ~Host!Lent(d) /\ stack' = stack
        /\ \E kind \in {"close", "finish"} : Host!Takes(kind, d)
    BY <1>5 DEF Host!DispatchClose, Host!Close
  <2>2. d # "list" /\ main
    BY <1>1, <1>2, <2>1 DEF MessagesInv
  <2>3. Host!Destroy({d}, stack)
    <3>1. {d} \cup Host!Owned(d) = {d}
      BY <2>2 DEF Host!Owned
    <3> QED
      BY <2>1, <3>1
  <2>4. /\ stack \in Seq(Host!Dialog) /\ Distinct(stack) /\ {d} \in SUBSET Host!Dialog
        /\ ~Host!Contains(stack, d) /\ "list" \notin {d}
    BY <1>1, <2>1, <2>2 DEF HostTypes, HandlersInv, Host!Lent
  <2> HIDE DEF HostInv
  <2> QED
    BY <1>1, <2>1, <2>2, <2>3, <2>4, DestroyKeeps
<1>6. CASE Host!DispatchDpi(d)
  <2>1. /\ Host!Takes("dpi", d) /\ ~Host!Lent(d) /\ UNCHANGED <<stack, disabled, freed, crossed>>
        /\ dialogs' = [dialogs EXCEPT ![d].applied = first.dpi]
        /\ dialogQueue' = Tail(dialogQueue) \o Host!For({d}, putAside)
        /\ putAside' = Host!NotFor({d}, putAside)
    BY <1>6 DEF Host!DispatchDpi, first
  <2>2. /\ putAside' \in Seq(Message) /\ Host!For({d}, putAside) \in Seq(Message)
        /\ \A m \in Message : Host!Contains(putAside', m) <=> m.to \notin {d} /\ Host!Contains(putAside, m)
        /\ \A m \in Message : Host!Contains(Host!For({d}, putAside), m) <=> m.to \in {d} /\ Host!Contains(putAside, m)
    BY <1>1, <2>1, NotForKeeps DEF HostTypes
  <2>3. /\ dialogQueue' \in Seq(Message)
        /\ \A m : Host!Contains(dialogQueue', m) <=>
             Host!Contains(Tail(dialogQueue), m) \/ Host!Contains(Host!For({d}, putAside), m)
    <3> DEFINE rest == Tail(dialogQueue)
               waits == Host!For({d}, putAside)
    <3>1. rest \in Seq(Message) /\ waits \in Seq(Message)
      BY <1>2, <2>1, <2>2
    <3>2. rest \o waits \in Seq(Message)
          /\ \A m : Host!Contains(rest \o waits, m) <=> Host!Contains(rest, m) \/ Host!Contains(waits, m)
      BY <3>1, ContainsBoth, Zenon
    <3> QED
      BY <2>1, <3>2, Zenon
  <2>8. first \in Message /\ first.kind = "dpi" /\ first.to = d /\ first.dpi \in HostDpis /\ InPlay(first)
    BY <1>2, <2>1, DpiIsMessage DEF InPlay
  <2>4. /\ \A e \in Host!Dialog : /\ dialogs'[e].open = dialogs[e].open
                                  /\ dialogs'[e].enabled = dialogs[e].enabled
                                  /\ dialogs'[e].dpi = dialogs[e].dpi
                                  /\ dialogs'[e].applied = IF e = d THEN first.dpi ELSE dialogs[e].applied
        /\ dialogs' \in [Host!Dialog -> [open : BOOLEAN, dpi : HostDpis, applied : HostDpis, enabled : BOOLEAN]]
    BY <1>1, <2>1, <2>8 DEF HostTypes
  <2>5. HostTypes' /\ HandlersInv'
    BY <1>1, <1>2, <2>1, <2>2, <2>3, <2>4 DEF HostTypes, HandlersInv, Host!Lent
  <2>9. \A m \in Message : (InPlay(m)' => InPlay(m)) /\ (m # first => (InPlay(m)' <=> InPlay(m)))
    BY <1>2, <2>1, <2>2, <2>3 DEF InPlay
  <2>6. LayoutInv'
    <3> SUFFICES ASSUME NEW e \in Host!Dialog \ crossed, dialogs[e].open
                 PROVE  /\ dialogs'[e].applied = dialogs[e].dpi \/ InPlay(Host!DpiMsg(dialogs[e].dpi, e))'
                        /\ \A m \in Message : InPlay(m)' /\ m.kind = "dpi" /\ m.to = e => m.dpi = dialogs[e].dpi
      BY <2>1, <2>4 DEF LayoutInv
    <3>1. /\ dialogs[e].applied = dialogs[e].dpi \/ InPlay(Host!DpiMsg(dialogs[e].dpi, e))
          /\ \A m \in Message : InPlay(m) /\ m.kind = "dpi" /\ m.to = e => m.dpi = dialogs[e].dpi
      BY <1>1 DEF LayoutInv
    <3>2. /\ Host!DpiMsg(dialogs[e].dpi, e) \in Message /\ Host!DpiMsg(dialogs[e].dpi, e).to = e
      BY <1>1, DpiIsMessage DEF HostTypes
    <3>3. CASE e = d
      BY <2>4, <2>8, <2>9, <3>1, <3>3
    <3>4. CASE e # d
      BY <2>4, <2>8, <2>9, <3>1, <3>2, <3>4
    <3> QED
      BY <3>3, <3>4
  <2>7. /\ \A m \in Message : Host!Contains(dialogQueue', m) => Host!Contains(dialogQueue, m) \/ Host!Contains(putAside, m)
        /\ \A m \in Message : Host!Contains(putAside', m) =>
             (Host!Contains(dialogQueue, m) \/ Host!Contains(putAside, m)) /\ Host!Contains(stack', m.to)
    BY <1>1, <1>2, <2>1, <2>2, <2>3 DEF MessagesInv, Host!Lent
  <2> QED
    BY <1>2, <2>1, <2>4, <2>5, <2>6, <2>7, MessagesMove
<1> QED
  BY <1>3, <1>4, <1>5, <1>6

\* A handler ends, or closes its dialog.
LEMMA HandlersKeep == ASSUME HostInv, Host!Handlers PROVE HostInv'
<1> DEFINE d == Host!Last(stack)
<1>1. HostTypes /\ HandlersInv /\ MessagesInv /\ EnabledInv /\ LayoutInv
  BY DEF HostInv
<1>2. main /\ main' = main /\ stack # << >> /\ stack' = Host!Front(stack)
  BY DEF Host!Handlers, Host!HandlerEnds, Host!HandlerCloses
<1>3. /\ stack' \in Seq(Host!Dialog) /\ Distinct(stack') /\ d \in Host!Dialog
      /\ Host!Contains(stack, d) /\ ~Host!Contains(stack', d) /\ dialogs[d].open
      /\ \A e : Host!Contains(stack, e) => e = d \/ Host!Contains(stack', e)
      /\ \A e : Host!Contains(stack', e) => Host!Contains(stack, e)
  BY <1>1, <1>2, FrontKeeps DEF HostTypes, HandlersInv, Host!Lent
<1> HIDE DEF d
<1>4. CASE Host!HandlerCloses
  <2>1. /\ d = "list" /\ dialogs["list"].enabled /\ Host!Destroy({"list", "progress"}, stack')
    BY <1>4 DEF Host!HandlerCloses, d
  <2>2. ~dialogs["progress"].open /\ {"list", "progress"} \subseteq Host!Dialog
    BY <1>1, <2>1 DEF EnabledInv, Host!Dialog
  <2> QED
    BY <1>2, <1>3, <2>1, <2>2, DestroyKeeps
<1>5. CASE Host!HandlerEnds
  <2>1. UNCHANGED <<dialogs, disabled, freed, crossed>> /\ putAside' = Host!NotFor({d}, putAside)
    BY <1>5 DEF Host!HandlerEnds, d
  <2>2. PICK kind \in {"close", "finish"} :
          \/ dialogQueue' = dialogQueue \o Host!For({d}, putAside)
          \/ d # "list" /\ dialogQueue' = Append(dialogQueue, Host!Msg(kind, d)) \o Host!For({d}, putAside)
    BY <1>5 DEF Host!HandlerEnds, d
  <2>3. Host!Msg(kind, d) \in Message /\ Host!Msg(kind, d).kind = kind /\ Host!Msg(kind, d).to = d
    BY <1>3, MsgIsMessage
  <2>4. /\ putAside' \in Seq(Message) /\ Host!For({d}, putAside) \in Seq(Message)
        /\ \A m \in Message : Host!Contains(putAside', m) <=> m.to \notin {d} /\ Host!Contains(putAside, m)
        /\ \A m \in Message : Host!Contains(Host!For({d}, putAside), m) <=> m.to \in {d} /\ Host!Contains(putAside, m)
    BY <1>1, <2>1, NotForKeeps DEF HostTypes
  <2>5. /\ dialogQueue' \in Seq(Message)
        /\ \A m : Host!Contains(dialogQueue', m) =>
             Host!Contains(dialogQueue, m) \/ Host!Contains(Host!For({d}, putAside), m) \/ (m = Host!Msg(kind, d) /\ d # "list")
        /\ \A m : Host!Contains(dialogQueue, m) \/ Host!Contains(Host!For({d}, putAside), m) => Host!Contains(dialogQueue', m)
    <3>1. /\ Append(dialogQueue, Host!Msg(kind, d)) \in Seq(Message)
          /\ \A m : Host!Contains(Append(dialogQueue, Host!Msg(kind, d)), m) <=>
               Host!Contains(dialogQueue, m) \/ m = Host!Msg(kind, d)
      BY <1>1, <2>3, ContainsAppend DEF HostTypes
    <3>2. CASE dialogQueue' = dialogQueue \o Host!For({d}, putAside)
      <4>1. dialogQueue \in Seq(Message)
        BY <1>1 DEF HostTypes
      <4> DEFINE kept == Host!For({d}, putAside)
      <4>2. kept \in Seq(Message) /\ dialogQueue' = dialogQueue \o kept
        BY <2>4, <3>2
      <4> HIDE DEF kept
      <4>3. /\ dialogQueue' \in Seq(Message)
            /\ \A m : Host!Contains(dialogQueue', m) <=> Host!Contains(dialogQueue, m) \/ Host!Contains(kept, m)
        BY <4>1, <4>2, ContainsBoth
      <4> QED
        BY <4>3 DEF kept
    <3>3. CASE d # "list" /\ dialogQueue' = Append(dialogQueue, Host!Msg(kind, d)) \o Host!For({d}, putAside)
      <4> DEFINE ahead == Append(dialogQueue, Host!Msg(kind, d))
                 waits == Host!For({d}, putAside)
      <4>1. ahead \in Seq(Message) /\ waits \in Seq(Message)
        BY <2>4, <3>1
      <4>2. ahead \o waits \in Seq(Message)
            /\ \A m : Host!Contains(ahead \o waits, m) <=> Host!Contains(ahead, m) \/ Host!Contains(waits, m)
        BY <4>1, ContainsBoth, Zenon
      <4> QED
        BY <3>1, <3>3, <4>2, Zenon
    <3> QED
      BY <2>2, <3>2, <3>3
  <2>6. HostTypes' /\ HandlersInv'
    BY <1>1, <1>2, <1>3, <2>1, <2>4, <2>5 DEF HostTypes, HandlersInv, Host!Lent
  <2>7. LayoutInv'
    <3>1. ASSUME NEW m \in Message, m.kind = "dpi" PROVE InPlay(m)' <=> InPlay(m)
      <4>1. m # Host!Msg(kind, d)
        BY <2>3, <3>1
      <4>2. Host!Contains(dialogQueue', m) <=>
              Host!Contains(dialogQueue, m) \/ (m.to = d /\ Host!Contains(putAside, m))
        BY <2>4, <2>5, <4>1
      <4>3. Host!Contains(putAside', m) <=> m.to # d /\ Host!Contains(putAside, m)
        BY <2>4
      <4> QED
        BY <4>2, <4>3 DEF InPlay
    <3> QED
      BY <1>1, <2>1, <3>1, LayoutKeeps
  <2>8. /\ \A m \in Message : Host!Contains(dialogQueue', m) =>
             \/ Host!Contains(dialogQueue, m) \/ Host!Contains(putAside, m)
             \/ dialogs[m.to].open /\ (m.kind \in {"close", "finish"} => m.to # "list")
        /\ \A m \in Message : Host!Contains(putAside', m) =>
             (Host!Contains(dialogQueue, m) \/ Host!Contains(putAside, m)) /\ Host!Contains(stack', m.to)
    BY <1>1, <1>3, <2>3, <2>4, <2>5 DEF MessagesInv, Host!Lent
  <2> QED
    BY <1>2, <2>1, <2>6, <2>7, <2>8, MessagesMove
<1> QED
  BY <1>4, <1>5 DEF Host!Handlers

\* Every step keeps it.
LEMMA HostStep == HostInv /\ [Host!Next]_Host!vars => HostInv'
<1> SUFFICES ASSUME HostInv, [Host!Next]_Host!vars PROVE HostInv'
  OBVIOUS
<1>1. CASE Host!Messages
  BY <1>1, MessagesKeep DEF Host!Messages
<1>2. CASE Host!Handlers
  BY <1>2, HandlersKeep
<1>3. CASE Host!StartTranslation
  <2>1. dialogs["list"].open /\ ~dialogs["progress"].open /\ {"list", "progress"} \subseteq Host!Dialog
    <3>1. main /\ stack # << >> /\ Host!Last(stack) = "list" /\ dialogs["list"].enabled
      BY <1>3 DEF Host!StartTranslation
    <3>2. Host!Contains(stack, "list")
      BY <3>1, FrontKeeps DEF HostInv, HostTypes, HandlersInv
    <3> QED
      BY <3>1, <3>2 DEF HostInv, HandlersInv, EnabledInv, Host!Lent, Host!Dialog
  <2> QED
    BY <1>3, <2>1, ShowKeeps DEF Host!StartTranslation
<1>4. CASE Host!Exit
  <2>1. main /\ main' = FALSE /\ Host!Destroy(Host!Dialog, stack) /\ stack' = stack
    BY <1>4 DEF Host!Exit
  <2> QED
    BY <2>1, DestroyKeeps DEF HostInv, HostTypes, HandlersInv, Host!Dialog
<1>5. ASSUME NEW d \in Host!Dialog,
             \/ Host!Open(d) \/ Host!Send(d) \/ Host!BeginCommand(d)
             \/ \E dpi \in HostDpis : Host!NewDpi(d, dpi)
      PROVE  HostInv'
  BY <1>5, OutsideKeeps
<1>6. CASE UNCHANGED Host!vars
  BY <1>6 DEF Host!vars, HostInv, HostTypes, HandlersInv, MessagesInv, EnabledInv, LayoutInv, InPlay,
              Host!Lent, Host!StateOutlivesHandlers
<1> QED
  BY <1>1, <1>2, <1>3, <1>4, <1>5, <1>6 DEF Host!Next

\* It gives what is asked of the host.
LEMMA HostImplies == HostInv => Host!StateOutlivesHandlers /\ Host!ListUsable /\ Host!NothingStranded
<1> SUFFICES ASSUME HostInv PROVE Host!ListUsable /\ Host!NothingStranded
  BY DEF HostInv
<1>1. HostTypes /\ HandlersInv /\ MessagesInv /\ EnabledInv /\ LayoutInv
  BY DEF HostInv
<1>2. Host!ListUsable
  BY <1>1 DEF EnabledInv, Host!ListUsable, Host!Dialog
<1>3. ASSUME NEW i \in 1..Len(putAside) PROVE dialogs[putAside[i].to].open /\ Host!Lent(putAside[i].to)
  <2>1. putAside[i] \in Message /\ Host!Contains(putAside, putAside[i])
    BY <1>1 DEF HostTypes, Host!Contains
  <2> QED
    BY <1>1, <2>1 DEF MessagesInv
<1>4. ASSUME NEW d \in Host!Dialog \ crossed, dialogs[d].open, ~Host!Lent(d),
             Host!For({d}, dialogQueue) = << >>
      PROVE  dialogs[d].applied = dialogs[d].dpi
  <2> DEFINE m == Host!DpiMsg(dialogs[d].dpi, d)
  <2>1. m \in Message /\ m.to = d
    BY <1>1, DpiIsMessage DEF HostTypes
  <2>5. dialogs[d].applied = dialogs[d].dpi \/ InPlay(m)
    BY <1>1, <1>4 DEF LayoutInv
  <2> HIDE DEF m
  <2>2. ~Host!Contains(putAside, m)
    BY <1>1, <1>4, <2>1 DEF MessagesInv
  <2>3. ~Host!Contains(dialogQueue, m)
    <3>1. ~Host!Contains(Host!For({d}, dialogQueue), m)
      BY <1>4 DEF Host!Contains
    <3> QED
      BY <1>1, <2>1, <3>1, NotForKeeps DEF HostTypes
  <2> QED
    BY <2>2, <2>3, <2>5 DEF InPlay
<1> QED
  BY <1>2, <1>3, <1>4 DEF Host!NothingStranded

\* While the application runs no dialog's state is freed under a handler that has borrowed it; the
\* list is disabled exactly while the progress of its translation is open; what was put aside for
\* a handler is not lost, and a dialog at rest is laid out for the resolution of its monitor,
\* except where resolutions crossed; for any resolutions, messages and failures.
THEOREM DialogsAreHeld == ServicesSpec => []DialogsHold
<1>1. HostInv => DialogsHold
  BY HostImplies DEF DialogsHold
<1>2. ServicesInit => HostInv
  BY HostStart DEF ServicesInit, DialogsRest
<1>3. HostInv /\ [ServicesNext]_allVars => HostInv'
  <2>1. [ServicesNext]_allVars => [Host!Next]_Host!vars
    BY DEF ServicesNext, allVars, dialogVars, Host!vars, Host!bounds
  <2> QED
    BY <2>1, HostStep
<1> QED
  BY <1>1, <1>2, <1>3, PTL DEF ServicesSpec

-----------------------------------------------------------------------------
(* The pool of helper processes: every line of a batch gets its own answer.*)
(* A thread that halves a batch keeps segments that follow what is done    *)
(* and each other up to the end of the batch, and a pool is closed only    *)
(* when neither the registry nor a job holds it.                           *)

LEMMA PoolJoined ==
    ASSUME NEW S, NEW a \in Seq(S), NEW b \in Seq(S)
    PROVE  /\ a \o b \in Seq(S) /\ Len(a \o b) = Len(a) + Len(b)
           /\ \A k \in 1..Len(a) : (a \o b)[k] = a[k]
           /\ \A k \in 1..Len(b) : (a \o b)[Len(a) + k] = b[k]
<1>0. Len(a) \in Nat /\ Len(b) \in Nat
  OBVIOUS
<1>1. a \o b \in Seq(S) /\ Len(a \o b) = Len(a) + Len(b)
  BY ConcatProperties
<1>2. \A i \in 1..(Len(a) + Len(b)) : (a \o b)[i] = IF i <= Len(a) THEN a[i] ELSE b[i - Len(a)]
  BY ConcatProperties
<1>3. \A k \in 1..Len(a) : k \in 1..(Len(a) + Len(b)) /\ k <= Len(a)
  BY <1>0
<1>4. \A k \in 1..Len(b) : /\ Len(a) + k \in 1..(Len(a) + Len(b)) /\ ~(Len(a) + k <= Len(a))
                            /\ Len(a) + k - Len(a) = k
  BY <1>0
<1>5. \A k \in 1..Len(a) : (a \o b)[k] = a[k]
  BY <1>2, <1>3
<1>6. \A k \in 1..Len(b) : (a \o b)[Len(a) + k] = b[k]
  BY <1>2, <1>4
<1> QED
  BY <1>1, <1>5, <1>6


PoolSegments == Seq(Int)

\* A segment of what is to do.
PoolPart(todo, i) == todo[i]

\* The segments follow what is done and each other, up to the end of the batch.
PoolCovers(todo, done, base, n) ==
    /\ \A i \in 1..Len(todo) :
         /\ Len(PoolPart(todo, i)) >= 1
         /\ \A k \in 1..Len(PoolPart(todo, i)) : PoolPart(todo, i)[k] = PoolPart(todo, i)[1] + k - 1
    /\ PoolPart(todo, 1)[1] = base + Len(done) + 1
    /\ \A i \in 1..(Len(todo) - 1) :
         PoolPart(todo, i + 1)[1] = PoolPart(todo, i)[1] + Len(PoolPart(todo, i))
    /\ PoolPart(todo, Len(todo))[1] + Len(PoolPart(todo, Len(todo))) = base + n + 1

PoolMarked(lines, base) ==
    \A k \in 1..Len(lines) : lines[k] = base + k \/ lines[k] = 0 - (base + k)

LEMMA PoolParts ==
    ASSUME NEW todo \in Seq(PoolSegments), todo # << >>
    PROVE  /\ Len(todo) \in Nat /\ Len(todo) >= 1 /\ Head(todo) = PoolPart(todo, 1)
           /\ Tail(todo) \in Seq(PoolSegments) /\ Len(Tail(todo)) = Len(todo) - 1
           /\ Tail(todo) = << >> <=> Len(todo) = 1
           /\ \A i \in 1..(Len(todo) - 1) : PoolPart(Tail(todo), i) = PoolPart(todo, i + 1)
<1> DEFINE rest == Tail(todo)
<1>1. Len(todo) \in Nat /\ Len(todo) >= 1 /\ Head(todo) = todo[1]
  OBVIOUS
<1>2. rest \in Seq(PoolSegments) /\ Len(rest) = Len(todo) - 1 /\ \A i \in 1..Len(rest) : rest[i] = todo[i + 1]
  BY HeadTailProperties
<1> HIDE DEF rest
<1>3. rest = << >> <=> Len(rest) = 0
  BY <1>2
<1> QED
  BY <1>1, <1>2, <1>3 DEF PoolPart, rest

LEMMA PoolPartsAre ==
    ASSUME NEW todo \in Seq(PoolSegments), NEW i \in 1..Len(todo)
    PROVE  PoolPart(todo, i) \in Seq(Int) /\ Len(PoolPart(todo, i)) \in Nat
<1>1. PoolPart(todo, i) \in Seq(Int)
  BY DEF PoolPart, PoolSegments
<1> QED
  BY <1>1

LEMMA PoolJoinedParts ==
    ASSUME NEW a \in Seq(PoolSegments), NEW b \in Seq(PoolSegments)
    PROVE  /\ a \o b \in Seq(PoolSegments) /\ Len(a \o b) = Len(a) + Len(b)
           /\ \A k \in 1..Len(a) : PoolPart(a \o b, k) = PoolPart(a, k)
           /\ \A k \in 1..Len(b) : PoolPart(a \o b, Len(a) + k) = PoolPart(b, k)
<1>1. /\ a \o b \in Seq(PoolSegments) /\ Len(a \o b) = Len(a) + Len(b)
      /\ \A k \in 1..Len(a) : (a \o b)[k] = a[k]
      /\ \A k \in 1..Len(b) : (a \o b)[Len(a) + k] = b[k]
  BY PoolJoined
<1>2. \A c, k : PoolPart(c, k) = c[k]
  BY DEF PoolPart
<1> QED
  BY <1>1, <1>2, Zenon

\* Its lines, translated or marked.
PoolTurned(lines, s) == Len(lines) = Len(s) /\ \A k \in 1..Len(s) : lines[k] = s[k] \/ lines[k] = 0 - s[k]

LEMMA PoolDoneGrows ==
    ASSUME NEW todo \in Seq(PoolSegments), NEW done \in Seq(Int), NEW base \in Int, NEW n \in Int,
           NEW lines \in Seq(Int), todo # << >>, PoolCovers(todo, done, base, n), PoolMarked(done, base),
           PoolTurned(lines, PoolPart(todo, 1))
    PROVE  /\ done \o lines \in Seq(Int) /\ PoolMarked(done \o lines, base)
           /\ Len(done \o lines) = Len(done) + Len(PoolPart(todo, 1))
<1> DEFINE all == done \o lines
           s == PoolPart(todo, 1)
           d == Len(done)
<1>1. 1 \in 1..Len(todo)
  BY PoolParts
<1>2. s \in Seq(Int) /\ Len(s) \in Nat /\ d \in Nat /\ Len(lines) = Len(s)
  BY <1>1, PoolPartsAre DEF PoolTurned
<1>3. /\ all \in Seq(Int) /\ Len(all) = d + Len(s)
      /\ \A k \in 1..d : all[k] = done[k]
      /\ \A k \in 1..Len(s) : all[d + k] = lines[k]
  <2>1. /\ done \o lines \in Seq(Int) /\ Len(done \o lines) = Len(done) + Len(lines)
        /\ \A k \in 1..Len(done) : (done \o lines)[k] = done[k]
        /\ \A k \in 1..Len(lines) : (done \o lines)[Len(done) + k] = lines[k]
    BY PoolJoined
  <2> QED
    BY <1>2, <2>1, Zenon
<1>4. \A k \in 1..Len(s) : s[k] = s[1] + k - 1
  BY <1>1 DEF PoolCovers
<1>5. s[1] = base + d + 1
  BY DEF PoolCovers
<1>6. \A k \in 1..Len(s) : lines[k] = s[k] \/ lines[k] = 0 - s[k]
  BY DEF PoolTurned
<1> HIDE DEF all, s
<1>7. \A k \in 1..Len(s) : s[k] = base + d + k
  BY <1>2, <1>4, <1>5
<1> HIDE DEF d
<1>8. ASSUME NEW k \in 1..Len(all) PROVE all[k] = base + k \/ all[k] = 0 - (base + k)
  <2>1. CASE k \in 1..d
    <3>1. all[k] = done[k]
      BY <1>3, <2>1
    <3>2. done[k] = base + k \/ done[k] = 0 - (base + k)
      BY <2>1 DEF PoolMarked, d
    <3> QED
      BY <3>1, <3>2
  <2>2. CASE k \notin 1..d
    <3> DEFINE i == k - d
    <3>1. i \in 1..Len(s) /\ d + i = k
      <4>1. d \in Nat /\ Len(s) \in Nat /\ Len(all) = d + Len(s)
        BY <1>2, <1>3
      <4> QED
        BY <2>2, <4>1
    <3> HIDE DEF i
    <3>2. all[d + i] = lines[i]
      <4>1. \A j \in 1..Len(s) : all[d + j] = lines[j]
        BY <1>3
      <4> QED
        BY <3>1, <4>1, Zenon
    <3>3. s[i] = base + d + i
      BY <1>7, <3>1
    <3>4. lines[i] = s[i] \/ lines[i] = 0 - s[i]
      BY <1>6, <3>1
    <3>5. base + d + i = base + k
      <4>1. base + d + i = base + (d + i)
        BY <1>2, <3>1
      <4> QED
        BY <3>1, <4>1
    <3> QED
      BY <3>1, <3>2, <3>3, <3>4, <3>5
  <2> QED
    BY <2>1, <2>2
<1> QED
  BY <1>2, <1>3, <1>8 DEF PoolMarked, all, s, d

\* The last segment completes the batch.
LEMMA PoolLastSegment ==
    ASSUME NEW todo \in Seq(PoolSegments), NEW done \in Seq(Int), NEW base \in Int, NEW n \in Int,
           todo # << >>, Tail(todo) = << >>, PoolCovers(todo, done, base, n)
    PROVE  Len(done) + Len(PoolPart(todo, 1)) = n
<1> DEFINE s == PoolPart(todo, 1)
           d == Len(done)
<1>1. Len(todo) = 1 /\ 1 \in 1..Len(todo)
  BY PoolParts
<1>2. s \in Seq(Int) /\ Len(s) \in Nat /\ d \in Nat /\ Len(s) >= 1
  BY <1>1, PoolPartsAre DEF PoolCovers
<1>3. s[1] = base + d + 1 /\ s[1] + Len(s) = base + n + 1
  BY <1>1 DEF PoolCovers
<1> DEFINE e == Len(s)
<1>4. base + d + 1 + e = base + n + 1 /\ e \in Nat
  BY <1>2, <1>3
<1> HIDE DEF s, d, e
<1>5. d + e = n
  BY <1>2, <1>4
<1> QED
  BY <1>5 DEF s, d, e

\* The segments that are left follow what is done.
LEMMA PoolNextSegments ==
    ASSUME NEW todo \in Seq(PoolSegments), NEW done \in Seq(Int), NEW base \in Int, NEW n \in Int,
           NEW more \in Seq(Int), todo # << >>, Tail(todo) # << >>, PoolCovers(todo, done, base, n),
           Len(more) = Len(done) + Len(PoolPart(todo, 1))
    PROVE  PoolCovers(Tail(todo), more, base, n)
<1> DEFINE rest == Tail(todo)
           s == PoolPart(todo, 1)
           d == Len(done)
           l == Len(rest)
<1>1. /\ rest \in Seq(PoolSegments) /\ Len(todo) = l + 1 /\ l \in Nat /\ l >= 1
      /\ \A i \in 1..l : PoolPart(rest, i) = PoolPart(todo, i + 1)
  BY PoolParts
<1>2. s \in Seq(Int) /\ Len(s) \in Nat /\ d \in Nat
  BY <1>1, PoolPartsAre
<1>3. Len(more) = d + Len(s)
  OBVIOUS
<1>4. ASSUME NEW i \in 1..l
      PROVE  /\ Len(PoolPart(rest, i)) >= 1
             /\ \A k \in 1..Len(PoolPart(rest, i)) : PoolPart(rest, i)[k] = PoolPart(rest, i)[1] + k - 1
  <2>1. i + 1 \in 1..Len(todo) /\ PoolPart(rest, i) = PoolPart(todo, i + 1)
    BY <1>1
  <2> QED
    BY <2>1 DEF PoolCovers
<1>5. PoolPart(rest, 1)[1] = base + Len(more) + 1
  <2>1. 1 \in 1..(Len(todo) - 1) /\ 1 \in 1..l /\ 1 + 1 = 2
    BY <1>1
  <2>2. PoolPart(rest, 1) = PoolPart(todo, 2)
    BY <1>1, <2>1
  <2>3. PoolPart(todo, 2)[1] = s[1] + Len(s) /\ s[1] = base + d + 1
    BY <2>1 DEF PoolCovers
  <2> HIDE DEF s, d
  <2>4. base + d + 1 + Len(s) = base + (d + Len(s)) + 1
    BY <1>2
  <2> QED
    BY <1>3, <2>2, <2>3, <2>4
<1>6. ASSUME NEW i \in 1..(l - 1)
      PROVE  PoolPart(rest, i + 1)[1] = PoolPart(rest, i)[1] + Len(PoolPart(rest, i))
  <2>1. i + 1 \in 1..(Len(todo) - 1) /\ i \in 1..l /\ i + 1 \in 1..l
    BY <1>1
  <2>2. PoolPart(rest, i) = PoolPart(todo, i + 1) /\ PoolPart(rest, i + 1) = PoolPart(todo, (i + 1) + 1)
    BY <1>1, <2>1
  <2> QED
    BY <2>1, <2>2 DEF PoolCovers
<1>7. PoolPart(rest, l)[1] + Len(PoolPart(rest, l)) = base + n + 1
  <2>1. l \in 1..l /\ PoolPart(rest, l) = PoolPart(todo, Len(todo))
    BY <1>1
  <2> QED
    BY <2>1 DEF PoolCovers
<1> QED
  BY <1>4, <1>5, <1>6, <1>7 DEF PoolCovers

\* A batch that is halved has two lines or more in its segment.
LEMMA PoolHalvesAre ==
    ASSUME NEW todo \in Seq(PoolSegments), NEW done, NEW base, NEW n, todo # << >>,
           PoolCovers(todo, done, base, n), Len(PoolPart(todo, 1)) # 1
    PROVE  LET mid == Len(PoolPart(todo, 1)) \div 2
           IN  mid \in Nat /\ 1 <= mid /\ mid < Len(PoolPart(todo, 1))
<1> DEFINE s == PoolPart(todo, 1)
           l == Len(s)
<1>1. 1 \in 1..Len(todo)
  BY PoolParts
<1>2. l \in Nat /\ l >= 1 /\ l # 1
  BY <1>1, PoolPartsAre DEF PoolCovers
<1> HIDE DEF l
<1>3. l \div 2 \in Nat /\ 1 <= l \div 2 /\ l \div 2 < l
  BY <1>2
<1> QED
  BY <1>3 DEF l

\* The two halves stand for the segment.
LEMMA PoolHalvesCover ==
    ASSUME NEW todo \in Seq(PoolSegments), NEW done \in Seq(Int), NEW base \in Int, NEW n \in Int,
           todo # << >>, PoolCovers(todo, done, base, n), NEW s, s = PoolPart(todo, 1),
           NEW mid \in Nat, 1 <= mid, mid < Len(s)
    PROVE  LET halves == <<SubSeq(s, 1, mid), SubSeq(s, mid + 1, Len(s))>> \o Tail(todo)
           IN  halves \in Seq(PoolSegments) /\ halves # << >> /\ PoolCovers(halves, done, base, n)
<1> DEFINE l == SubSeq(s, 1, mid)
           r == SubSeq(s, mid + 1, Len(s))
           two == <<l, r>>
           rest == Tail(todo)
           halves == two \o rest
           m == Len(todo)
           e == Len(s) - mid
           v == s[1]
<1>1. /\ rest \in Seq(PoolSegments) /\ m \in Nat /\ m >= 1 /\ Len(rest) = m - 1
      /\ \A i \in 1..(m - 1) : PoolPart(rest, i) = PoolPart(todo, i + 1)
  BY PoolParts
<1>2. s \in Seq(Int) /\ Len(s) \in Nat
  BY <1>1, PoolPartsAre
<1>3. 1 \in 1..m /\ \A k \in 1..Len(s) : s[k] = v + k - 1
  BY <1>1 DEF PoolCovers
<1>4. v \in Int /\ e \in Nat /\ e >= 1 /\ Len(s) = mid + e
  BY <1>2
<1>5. l \in Seq(Int) /\ Len(l) = mid /\ \A k \in 1..mid : l[k] = s[k]
  BY <1>2
<1>6. r \in Seq(Int) /\ Len(r) = e /\ \A k \in 1..e : r[k] = s[mid + k]
  <2>1. mid + 1 \in 1..(Len(s) + 1) /\ Len(s) - (mid + 1) + 1 = e
    BY <1>2
  <2>2. r \in Seq(Int)
    BY <1>2, <2>1
  <2>3. Len(r) = Len(s) - (mid + 1) + 1 /\ \A k \in 1..e : r[k] = s[(mid + 1) + k - 1]
    BY <1>2, <2>1
  <2>4. \A k \in 1..e : (mid + 1) + k - 1 = mid + k
    BY <1>2
  <2> QED
    BY <2>1, <2>2, <2>3, <2>4
<1> HIDE DEF l, r, e, v, rest
<1>7. \A k \in 1..mid : l[k] = v + k - 1
  <2>1. \A k \in 1..mid : k \in 1..Len(s)
    BY <1>4
  <2> QED
    BY <1>3, <1>5, <2>1
<1>8. \A k \in 1..e : r[k] = v + mid + k - 1
  <2>1. \A k \in 1..e : mid + k \in 1..Len(s) /\ v + (mid + k) - 1 = v + mid + k - 1
    BY <1>4
  <2> QED
    BY <1>3, <1>6, <2>1
<1>9. l[1] = v /\ r[1] = v + mid
  <2>1. 1 \in 1..mid /\ 1 \in 1..e /\ v + 1 - 1 = v /\ v + mid + 1 - 1 = v + mid
    BY <1>4
  <2>2. l[1] = v + 1 - 1 /\ r[1] = v + mid + 1 - 1
    BY <1>7, <1>8, <2>1
  <2> QED
    BY <2>1, <2>2
<1>10. two \in Seq(PoolSegments) /\ Len(two) = 2 /\ PoolPart(two, 1) = l /\ PoolPart(two, 2) = r
  <2>1. l \in PoolSegments /\ r \in PoolSegments
    BY <1>5, <1>6 DEF PoolSegments
  <2> QED
    BY <2>1 DEF PoolPart
<1> HIDE DEF two
<1>11. /\ halves \in Seq(PoolSegments) /\ Len(halves) = 2 + (m - 1)
       /\ \A i \in 1..2 : PoolPart(halves, i) = PoolPart(two, i)
       /\ \A i \in 1..(m - 1) : PoolPart(halves, 2 + i) = PoolPart(rest, i)
  <2>1. /\ two \o rest \in Seq(PoolSegments) /\ Len(two \o rest) = Len(two) + Len(rest)
        /\ \A k \in 1..Len(two) : PoolPart(two \o rest, k) = PoolPart(two, k)
        /\ \A k \in 1..Len(rest) : PoolPart(two \o rest, Len(two) + k) = PoolPart(rest, k)
    BY <1>1, <1>10, PoolJoinedParts
  <2> QED
    BY <1>1, <1>10, <2>1, Zenon
<1> HIDE DEF halves
<1>12. Len(halves) = m + 1 /\ PoolPart(halves, 1) = l /\ PoolPart(halves, 2) = r
  BY <1>1, <1>10, <1>11
<1>13. \A i \in 1..(m - 1) : PoolPart(halves, i + 2) = PoolPart(todo, i + 1)
  <2>1. \A i \in 1..(m - 1) : 2 + i = i + 2
    OBVIOUS
  <2> QED
    BY <1>1, <1>11, <2>1
<1> HIDE DEF m
<1>14. ASSUME NEW i \in 1..(m + 1)
       PROVE  /\ Len(PoolPart(halves, i)) >= 1
              /\ \A k \in 1..Len(PoolPart(halves, i)) :
                    PoolPart(halves, i)[k] = PoolPart(halves, i)[1] + k - 1
  <2>1. CASE i = 1
    BY <1>5, <1>7, <1>9, <1>12, <2>1
  <2>2. CASE i = 2
    BY <1>4, <1>6, <1>8, <1>9, <1>12, <2>2
  <2>3. CASE i \in 3..(m + 1)
    <3> DEFINE j == i - 2
    <3>1. j \in 1..(m - 1) /\ i = j + 2 /\ j + 1 \in 1..m
      BY <1>1, <2>3
    <3>2. PoolPart(halves, i) = PoolPart(todo, j + 1)
      BY <1>13, <3>1
    <3> HIDE DEF j
    <3> QED
      BY <3>1, <3>2 DEF PoolCovers, m
  <2> QED
    BY <1>1, <2>1, <2>2, <2>3
<1>15. PoolPart(halves, 1)[1] = base + Len(done) + 1
  BY <1>9, <1>12 DEF PoolCovers, v
<1>16. ASSUME NEW i \in 1..m
       PROVE  PoolPart(halves, i + 1)[1] = PoolPart(halves, i)[1] + Len(PoolPart(halves, i))
  <2>1. CASE i = 1
    <3>1. i + 1 = 2
      BY <2>1
    <3> QED
      BY <1>5, <1>9, <1>12, <2>1, <3>1
  <2>2. CASE i = 2
    <3>1. 1 \in 1..(m - 1) /\ 1 + 2 = 3 /\ 1 + 1 = 2 /\ i + 1 = 3
      BY <1>1, <2>2
    <3>2. PoolPart(halves, 3) = PoolPart(todo, 2)
      BY <1>13, <3>1
    <3>3. PoolPart(todo, 2)[1] = s[1] + Len(s)
      BY <3>1 DEF PoolCovers, m
    <3>4. v + mid + e = v + (mid + e)
      BY <1>4
    <3> QED
      BY <1>4, <1>6, <1>9, <1>12, <2>2, <3>1, <3>2, <3>3, <3>4 DEF v
  <2>3. CASE i \in 3..m
    <3> DEFINE j == i - 2
    <3>1. j \in 1..(m - 1) /\ j + 1 \in 1..(m - 1) /\ i = j + 2 /\ i + 1 = (j + 1) + 2
      BY <1>1, <2>3
    <3>2. PoolPart(halves, i) = PoolPart(todo, j + 1) /\ PoolPart(halves, i + 1) = PoolPart(todo, (j + 1) + 1)
      BY <1>13, <3>1
    <3> HIDE DEF j
    <3>3. PoolPart(todo, (j + 1) + 1)[1] = PoolPart(todo, j + 1)[1] + Len(PoolPart(todo, j + 1))
      BY <3>1 DEF PoolCovers, m
    <3> QED
      BY <3>2, <3>3
  <2> QED
    BY <1>1, <2>1, <2>2, <2>3
<1>17. PoolPart(halves, m + 1)[1] + Len(PoolPart(halves, m + 1)) = base + n + 1
  <2>1. CASE m = 1
    <3>1. s[1] + Len(s) = base + n + 1
      BY <2>1 DEF PoolCovers, m
    <3>2. m + 1 = 2
      BY <2>1
    <3>3. v + mid + e = v + (mid + e)
      BY <1>4
    <3>4. v + mid + e = v + Len(s)
      BY <1>4, <3>3
    <3> QED
      BY <1>6, <1>9, <1>12, <3>1, <3>2, <3>4 DEF v
  <2>2. CASE m # 1
    <3> DEFINE j == m - 1
    <3>1. j \in 1..(m - 1) /\ m + 1 = j + 2 /\ j + 1 = m
      BY <1>1, <2>2
    <3>2. PoolPart(halves, m + 1) = PoolPart(todo, m)
      BY <1>13, <3>1
    <3> QED
      BY <3>2 DEF PoolCovers, m
  <2> QED
    BY <2>1, <2>2
<1>18. PoolCovers(halves, done, base, n)
  <2>1. (m + 1) - 1 = m
    BY <1>1
  <2> QED
    BY <1>12, <1>14, <1>15, <1>16, <1>17, <2>1 DEF PoolCovers
<1>19. halves # << >>
  <2>1. Len(halves) # 0
    BY <1>1, <1>12
  <2> QED
    BY <1>11, <2>1
<1> QED
  BY <1>11, <1>18, <1>19 DEF halves, two, l, r, rest
-----------------------------------------------------------------------------
(* The invariant                                                           *)

PoolCommand == {Pool!Shutdown} \cup
           {c \in [job : PoolJobs, batch : Nat] : c.batch \in 1..Len(call[c.job])}

\* The lines of batch b with their marks: the batch as a call may return it.
PoolWhole(n, b, lines) == Len(lines) = n /\ PoolMarked(lines, 10 * b)
PoolResult(lens, a) == a.batch \in 1..Len(lens) /\ (a.lines = << >> \/ PoolWhole(lens[a.batch], a.batch, a.lines))
PoolResults == [batch : Nat, lines : PoolSegments]

PoolPiece == [job : PoolJobs \cup {Pool!NoJob}, batch : Nat, todo : Seq(PoolSegments), done : Seq(Int),
          mode : {"batch", "batch_again", "single", "single_again"}]

\* What is done and what is to do make up the batch.
PoolInHand(w, lens) ==
    /\ w.job \in PoolJobs /\ w.batch \in 1..Len(lens[w.job]) /\ w.todo # << >>
    /\ PoolCovers(w.todo, w.done, 10 * w.batch, lens[w.job][w.batch])
    /\ PoolMarked(w.done, 10 * w.batch)

PoolPlaces == {"new", "starting", "replacing", "abandoning", "ready", "waiting", "ok", "error",
           "leaving", "gone"}
PoolThreads == {"none", "gate", "loading", "failed", "idle", "busy", "respawning", "hung", "ended"}
PoolStates == {"none", "starting", "live", "closing", "gone"}

PoolTypedJobs ==
    /\ call \in [PoolJobs -> Seq(Nat \ {0})]
    /\ job \in [PoolJobs -> PoolPlaces]
    /\ poolOf \in [PoolJobs -> Pool!Pools \cup {Pool!NoPool}]
    /\ slot \in Pool!Pools \cup {Pool!NoPool}
    /\ pool \in [Pool!Pools -> [config : PoolConfigs \cup {CHOOSE c \in PoolConfigs : TRUE}, state : PoolStates]]
    /\ config \in [PoolJobs -> PoolConfigs]
    /\ next \in [Pool!Pools -> Nat]
PoolTypedWork ==
    /\ helper \in [Pool!Pools -> [Pool!HelperIds -> PoolThreads]]
    /\ handed \in [Pool!Pools -> [Pool!HelperIds -> Seq(PoolCommand)]]
    /\ work \in [Pool!Pools -> [Pool!HelperIds -> PoolPiece]]
PoolTypedAnswers ==
    /\ completed \in [PoolJobs -> Seq(PoolSegments)]
    /\ \A j \in PoolJobs : Len(completed[j]) = Len(call[j])
    /\ answers \in [PoolJobs -> Seq(PoolResults)]
PoolTyped == PoolTypedJobs /\ PoolTypedWork /\ PoolTypedAnswers

\* A pool is used, or about to be, only while it lives.
PoolLives ==
    /\ slot # Pool!NoPool => pool[slot].state = "live"
    /\ \A j \in PoolJobs :
         /\ job[j] \in {"ready", "waiting", "replacing"} =>
              poolOf[j] \in Pool!Pools /\ pool[poolOf[j]].state = "live"
         /\ job[j] = "starting" => poolOf[j] \in Pool!Pools /\ pool[poolOf[j]].state = "starting"
    /\ \A j, k \in PoolJobs :
         job[j] = "starting" /\ job[k] = "starting" /\ poolOf[j] = poolOf[k] => j = k

PoolLastingWork ==
    /\ \A p \in Pool!Pools, h \in Pool!HelperIds :
         helper[p][h] \in {"busy", "respawning"} => PoolInHand(work[p][h], call)
PoolLastingAnswers ==
    /\ \A j \in PoolJobs : \A b \in 1..Len(call[j]) :
         completed[j][b] = << >> \/ PoolWhole(call[j][b], b, completed[j][b])
    /\ \A j \in PoolJobs : \A i \in 1..Len(answers[j]) : PoolResult(call[j], answers[j][i])

PoolInv == PoolTyped /\ PoolLives /\ PoolLastingWork /\ PoolLastingAnswers


\* The helper of a thread is given something else to do.
LEMMA PoolWorkKept ==
    ASSUME PoolInv, NEW p \in Pool!Pools, NEW h \in Pool!HelperIds, NEW w \in PoolPiece,
           NEW s \in PoolThreads, s \in {"busy", "respawning"} => PoolInHand(w, call),
           work' = [work EXCEPT ![p][h] = w], helper' = [helper EXCEPT ![p][h] = s]
    PROVE  /\ work' \in [Pool!Pools -> [Pool!HelperIds -> PoolPiece]]
           /\ helper' \in [Pool!Pools -> [Pool!HelperIds -> PoolThreads]]
           /\ \A q \in Pool!Pools, i \in Pool!HelperIds :
                helper'[q][i] \in {"busy", "respawning"} => PoolInHand(work'[q][i], call)
<1>1. /\ work \in [Pool!Pools -> [Pool!HelperIds -> PoolPiece]] /\ helper \in [Pool!Pools -> [Pool!HelperIds -> PoolThreads]]
  BY DEF PoolInv, PoolTyped, PoolTypedJobs, PoolTypedWork, PoolTypedAnswers
<1>2. work' \in [Pool!Pools -> [Pool!HelperIds -> PoolPiece]] /\ helper' \in [Pool!Pools -> [Pool!HelperIds -> PoolThreads]]
  BY <1>1
<1>3. ASSUME NEW q \in Pool!Pools, NEW i \in Pool!HelperIds
      PROVE  /\ work'[q][i] = IF q = p /\ i = h THEN w ELSE work[q][i]
             /\ helper'[q][i] = IF q = p /\ i = h THEN s ELSE helper[q][i]
  BY <1>1
<1>4. \A q \in Pool!Pools, i \in Pool!HelperIds :
        helper[q][i] \in {"busy", "respawning"} => PoolInHand(work[q][i], call)
  BY DEF PoolInv, PoolLastingWork, PoolLastingAnswers
<1>5. ASSUME NEW q \in Pool!Pools, NEW i \in Pool!HelperIds, helper'[q][i] \in {"busy", "respawning"}
      PROVE  PoolInHand(work'[q][i], call)
  <2>1. CASE q = p /\ i = h
    <3>1. work'[q][i] = w /\ helper'[q][i] = s
      BY <1>3, <2>1
    <3> QED
      BY <1>5, <3>1
  <2>2. CASE ~(q = p /\ i = h)
    <3>1. work'[q][i] = work[q][i] /\ helper'[q][i] = helper[q][i]
      BY <1>3, <2>2
    <3> QED
      BY <1>4, <1>5, <3>1
  <2> QED
    BY <2>1, <2>2
<1> QED
  BY <1>2, <1>5

\* An answer is sent, or nobody waits for it any more.
LEMMA PoolAnswerKept ==
    ASSUME PoolInv, NEW j \in PoolJobs, NEW b \in 1..Len(call[j]), NEW lines \in PoolSegments,
           lines = << >> \/ PoolWhole(call[j][b], b, lines), Pool!Answer(j, b, lines)
    PROVE  /\ answers' \in [PoolJobs -> Seq(PoolResults)]
           /\ \A k \in PoolJobs : \A i \in 1..Len(answers'[k]) : PoolResult(call[k], answers'[k][i])
<1> DEFINE a == [batch |-> b, lines |-> lines]
<1>1. answers \in [PoolJobs -> Seq(PoolResults)] /\ call[j] \in Seq(Nat \ {0})
  BY DEF PoolInv, PoolTyped, PoolTypedJobs, PoolTypedWork, PoolTypedAnswers
<1>2. \A k \in PoolJobs : \A i \in 1..Len(answers[k]) : PoolResult(call[k], answers[k][i])
  BY DEF PoolInv, PoolLastingWork, PoolLastingAnswers
<1>3. a \in PoolResults /\ PoolResult(call[j], a)
  BY <1>1 DEF PoolResults, PoolResult
<1>4. CASE answers' = answers
  BY <1>1, <1>2, <1>4
<1>5. CASE answers' = [answers EXCEPT ![j] = Append(@, a)]
  <2>1. answers' \in [PoolJobs -> Seq(PoolResults)]
    BY <1>1, <1>3, <1>5
  <2>2. ASSUME NEW k \in PoolJobs, NEW i \in 1..Len(answers'[k]) PROVE PoolResult(call[k], answers'[k][i])
    <3>1. CASE k # j
      <4>1. answers'[k] = answers[k]
        BY <1>1, <1>5, <3>1
      <4> QED
        BY <1>2, <2>2, <4>1
    <3>2. CASE k = j
      <4> DEFINE came == answers[j]
      <4>1. came \in Seq(PoolResults) /\ answers'[k] = Append(came, a)
        BY <1>1, <1>5, <3>2
      <4>2. \A n \in 1..Len(came) : PoolResult(call[j], came[n])
        BY <1>2
      <4> HIDE DEF came, a
      <4>3. i \in 1..(Len(came) + 1) /\ Append(came, a)[i] = IF i = Len(came) + 1 THEN a ELSE came[i]
        BY <1>3, <2>2, <4>1
      <4>4. CASE i = Len(came) + 1
        BY <1>3, <3>2, <4>1, <4>3, <4>4
      <4>5. CASE i # Len(came) + 1
        <5>1. i \in 1..Len(came)
          BY <4>1, <4>3, <4>5
        <5> QED
          BY <3>2, <4>1, <4>2, <4>3, <4>5, <5>1
      <4> QED
        BY <4>4, <4>5
    <3> QED
      BY <3>1, <3>2
  <2> QED
    BY <2>1, <2>2
<1> QED
  BY <1>4, <1>5 DEF Pool!Answer

-----------------------------------------------------------------------------
(* The batches of a call are sent one after the other                      *)

PoolSentOne(j, p, q, b) == [q EXCEPT ![Pool!TargetOf(p, b)] = Append(@, [job |-> j, batch |-> b])]
PoolSentNext(j, p, f, b) == IF b = 0 THEN handed[p] ELSE PoolSentOne(j, p, f[b - 1], b)

\* The function that Sent defines by recursion exists.
LEMMA PoolSentExists ==
    ASSUME NEW j, NEW p, NEW m \in Nat
    PROVE  \E f : f = [b \in 0..m |-> PoolSentNext(j, p, f, b)]
<1> DEFINE Good(n) == \E f : f = [b \in 0..n |-> PoolSentNext(j, p, f, b)]
           S == {n \in Nat : Good(n)}
<1>1. 0 \in S
  <2> DEFINE f == [b \in 0..0 |-> handed[p]]
  <2>1. f = [b \in 0..0 |-> PoolSentNext(j, p, f, b)]
    BY DEF PoolSentNext
  <2> QED
    BY <2>1
<1>2. ASSUME NEW n \in S PROVE n + 1 \in S
  <2>1. PICK f : f = [b \in 0..n |-> PoolSentNext(j, p, f, b)]
    OBVIOUS
  <2>4. \A b \in 0..n : f[b] = PoolSentNext(j, p, f, b)
    BY <2>1, Zenon
  <2> DEFINE g == [b \in 0..(n + 1) |-> IF b = n + 1 THEN PoolSentNext(j, p, f, b) ELSE f[b]]
  <2>2. ASSUME NEW b \in 0..(n + 1) PROVE g[b] = PoolSentNext(j, p, g, b)
    <3>1. CASE b = n + 1
      BY <3>1 DEF PoolSentNext
    <3>2. CASE b = 0
      BY <2>1, <3>2 DEF PoolSentNext
    <3>3. CASE b \in 1..n
      <4>1. g[b] = f[b] /\ g[b - 1] = f[b - 1]
        BY <3>3
      <4>2. f[b] = PoolSentNext(j, p, f, b)
        BY <2>4, <3>3
      <4> HIDE DEF g
      <4> QED
        BY <4>1, <4>2, <3>3 DEF PoolSentNext
    <3> QED
      BY <3>1, <3>2, <3>3
  <2>3. g = [b \in 0..(n + 1) |-> PoolSentNext(j, p, g, b)]
    BY <2>2
  <2> HIDE DEF g
  <2>5. Good(n + 1)
    BY <2>3
  <2> QED
    BY <2>5
<1> HIDE DEF Good
<1>3. S = Nat
  BY <1>1, <1>2, SetInduction
<1>4. Good(m)
  BY <1>3
<1> QED
  BY <1>4 DEF Good

LEMMA PoolSentKept ==
    ASSUME PoolInv, NEW j \in PoolJobs, NEW p \in Pool!Pools
    PROVE  Pool!Sent(j, p) \in [Pool!HelperIds -> Seq(PoolCommand)]
<1> DEFINE m == Len(call[j])
           f == CHOOSE sent : sent = [b \in 0..m |-> PoolSentNext(j, p, sent, b)]
<1>0. m \in Nat /\ next[p] \in Nat /\ handed[p] \in [Pool!HelperIds -> Seq(PoolCommand)]
  <2>1. call[j] \in Seq(Nat \ {0}) /\ next[p] \in Nat /\ handed[p] \in [Pool!HelperIds -> Seq(PoolCommand)]
    BY DEF PoolInv, PoolTyped, PoolTypedJobs, PoolTypedWork, PoolTypedAnswers
  <2> QED
    BY <2>1
<1>1. f = [b \in 0..m |-> PoolSentNext(j, p, f, b)]
  BY <1>0, PoolSentExists
<1>2. Pool!Sent(j, p) = f[m]
  BY DEF Pool!Sent, PoolSentNext, PoolSentOne
<1> HIDE DEF f
<1>3. \A b \in 0..m : f[b] = PoolSentNext(j, p, f, b)
  BY <1>1, Zenon
<1> DEFINE S == {b \in Nat : b <= m => f[b] \in [Pool!HelperIds -> Seq(PoolCommand)]}
<1>4. \A b \in 1..m : [job |-> j, batch |-> b] \in PoolCommand
  BY <1>0 DEF PoolCommand
<1>5. \A b \in Nat : Pool!TargetOf(p, b) \in Pool!HelperIds
  <2> TAKE b \in Nat
  <2> DEFINE n == next[p] + b - 1
  <2>1. n \in Int
    BY <1>0
  <2> HIDE DEF n
  <2>2. n % PoolHelpers \in 0..(PoolHelpers - 1)
    BY <2>1, PoolAssumption
  <2> QED
    BY <2>2, PoolAssumption DEF Pool!TargetOf, Pool!HelperIds, n
<1> HIDE DEF m
<1>6. 0 \in S
  <2>1. 0 \in 0..m
    BY <1>0
  <2>2. f[0] = handed[p]
    BY <1>3, <2>1 DEF PoolSentNext
  <2> QED
    BY <1>0, <2>2
<1>7. ASSUME NEW b \in S PROVE b + 1 \in S
  <2> SUFFICES ASSUME b + 1 <= m PROVE f[b + 1] \in [Pool!HelperIds -> Seq(PoolCommand)]
    OBVIOUS
  <2>1. b + 1 \in 0..m /\ b + 1 # 0 /\ (b + 1) - 1 = b /\ b + 1 \in 1..m /\ b + 1 \in Nat
    BY <1>0
  <2> DEFINE c == [job |-> j, batch |-> b + 1]
             t == Pool!TargetOf(p, b + 1)
  <2>2. f[b + 1] = [f[b] EXCEPT ![t] = Append(@, c)]
    BY <1>3, <2>1 DEF PoolSentNext, PoolSentOne
  <2>3. b \in Nat /\ b <= m
    BY <1>0
  <2>4. f[b] \in [Pool!HelperIds -> Seq(PoolCommand)]
    BY <2>3
  <2>5. c \in PoolCommand
    BY <1>4, <2>1
  <2>6. t \in Pool!HelperIds
    BY <1>5, <2>1
  <2> HIDE DEF c, t
  <2> QED
    BY <2>2, <2>4, <2>5, <2>6
<1>8. S = Nat
  BY <1>6, <1>7, SetInduction
<1> QED
  BY <1>0, <1>2, <1>8

-----------------------------------------------------------------------------
(* The steps                                                               *)

LEMMA PoolCommandStays == call' = call => PoolCommand' = PoolCommand
  BY DEF PoolCommand

LEMMA PoolWorkStays ==
    ASSUME PoolInv, UNCHANGED <<call, helper, handed, work>>
    PROVE  PoolTypedWork' /\ PoolLastingWork'
<1>1. PoolCommand' = PoolCommand
  BY PoolCommandStays
<1> QED
  BY <1>1 DEF PoolInv, PoolTyped, PoolTypedWork, PoolLastingWork

LEMMA PoolAnswersStay ==
    ASSUME PoolInv, UNCHANGED <<call, completed, answers>>
    PROVE  PoolTypedAnswers' /\ PoolLastingAnswers'
  BY DEF PoolInv, PoolTyped, PoolTypedAnswers, PoolLastingAnswers

LEMMA PoolJobsStay ==
    ASSUME PoolInv, UNCHANGED <<call, config, job, poolOf, slot, pool, next>>
    PROVE  PoolTypedJobs' /\ PoolLives'
  BY DEF PoolInv, PoolTyped, PoolTypedJobs, PoolLives

LEMMA PoolStarts == Pool!Init => PoolInv
<1> SUFFICES ASSUME Pool!Init PROVE PoolInv
  OBVIOUS
<1>1. call \in [PoolJobs -> Seq(Nat \ {0})]
  BY PoolAssumption DEF Pool!Init
<1>2. PoolTypedJobs
  BY <1>1 DEF Pool!Init, PoolTypedJobs, PoolPlaces, PoolStates
<1>3. PoolTypedWork
  <2>1. << >> \in Seq(PoolCommand) /\ << >> \in Seq(PoolSegments) /\ << >> \in Seq(Int)
    OBVIOUS
  <2>2. Pool!NoWork \in PoolPiece
    BY <2>1 DEF Pool!NoWork, PoolPiece
  <2> QED
    BY <2>1, <2>2 DEF Pool!Init, PoolTypedWork, PoolThreads
<1>4. \A j \in PoolJobs : /\ Pool!Empty(j) \in Seq(PoolSegments) /\ Len(Pool!Empty(j)) = Len(call[j])
                          /\ \A b \in 1..Len(call[j]) : Pool!Empty(j)[b] = << >>
  <2> TAKE j \in PoolJobs
  <2>1. Len(call[j]) \in Nat /\ << >> \in PoolSegments
    BY <1>1 DEF PoolSegments
  <2> QED
    BY <2>1 DEF Pool!Empty
<1>5. PoolTypedAnswers
  <2>1. << >> \in Seq(PoolResults)
    OBVIOUS
  <2> QED
    BY <1>4, <2>1 DEF Pool!Init, PoolTypedAnswers
<1>6. PoolLives
  BY DEF Pool!Init, PoolLives
<1>7. PoolLastingWork
  BY DEF Pool!Init, PoolLastingWork
<1>8. PoolLastingAnswers
  <2>1. \A j \in PoolJobs : Len(answers[j]) = 0 /\ completed[j] = Pool!Empty(j)
    BY DEF Pool!Init
  <2> QED
    BY <1>4, <2>1 DEF PoolLastingAnswers
<1> QED
  BY <1>2, <1>3, <1>5, <1>6, <1>7, <1>8 DEF PoolInv, PoolTyped

LEMMA PoolShutdownSent ==
    ASSUME PoolInv, NEW p \in Pool!Pools, Pool!SendShutdown(p), UNCHANGED <<call, helper, work>>
    PROVE  PoolTypedWork' /\ PoolLastingWork'
<1>1. PoolCommand' = PoolCommand /\ Pool!Shutdown \in PoolCommand
  BY PoolCommandStays DEF PoolCommand
<1>2. handed \in [Pool!Pools -> [Pool!HelperIds -> Seq(PoolCommand)]]
  BY DEF PoolInv, PoolTyped, PoolTypedWork
<1>3. ASSUME NEW h \in Pool!HelperIds PROVE Append(handed[p][h], Pool!Shutdown) \in Seq(PoolCommand)
  BY <1>1, <1>2
<1>4. [h \in Pool!HelperIds |-> Append(handed[p][h], Pool!Shutdown)] \in [Pool!HelperIds -> Seq(PoolCommand)]
  BY <1>3
<1>5. handed' \in [Pool!Pools -> [Pool!HelperIds -> Seq(PoolCommand)]]
  BY <1>2, <1>4 DEF Pool!SendShutdown
<1> QED
  BY <1>1, <1>5 DEF PoolInv, PoolTyped, PoolTypedWork, PoolLastingWork

\* A step of a job's thread that touches no pool.
LEMMA PoolJobMoves ==
    ASSUME PoolInv, NEW j \in PoolJobs, NEW s \in PoolPlaces, job' = [job EXCEPT ![j] = s],
           s \in {"ready", "waiting", "replacing"} =>
               job[j] \in {"ready", "waiting", "replacing"},
           s # "starting", UNCHANGED <<call, config, poolOf, slot, pool>>, next' \in [Pool!Pools -> Nat]
    PROVE  PoolTypedJobs' /\ PoolLives'
<1>1. PoolTypedJobs'
  BY DEF PoolInv, PoolTyped, PoolTypedJobs
<1>2. \A k \in PoolJobs : job'[k] = IF k = j THEN s ELSE job[k]
  BY DEF PoolInv, PoolTyped, PoolTypedJobs
<1> QED
  BY <1>1, <1>2 DEF PoolInv, PoolLives

LEMMA PoolGetKept == ASSUME PoolInv, NEW j \in PoolJobs, Pool!GetPool(j) PROVE PoolInv'
<1>1. PoolTypedWork' /\ PoolLastingWork' /\ PoolTypedAnswers' /\ PoolLastingAnswers'
  BY PoolWorkStays, PoolAnswersStay DEF Pool!GetPool, Pool!helperVars
<1>2. slot # Pool!NoPool /\ slot \in Pool!Pools
  BY DEF Pool!GetPool, Pool!Fits, PoolInv, PoolTyped, PoolTypedJobs
<1>3. PoolTypedJobs'
  BY <1>2 DEF Pool!GetPool, Pool!registryVars, PoolInv, PoolTyped, PoolTypedJobs, PoolPlaces
<1>4. \A k \in PoolJobs : /\ job'[k] = IF k = j THEN "ready" ELSE job[k]
                          /\ poolOf'[k] = IF k = j THEN slot ELSE poolOf[k]
  BY DEF Pool!GetPool, PoolInv, PoolTyped, PoolTypedJobs
<1>5. PoolLives'
  BY <1>2, <1>4 DEF Pool!GetPool, Pool!registryVars, PoolInv, PoolLives
<1> QED
  BY <1>1, <1>3, <1>5 DEF PoolInv, PoolTyped

LEMMA PoolStartKept == ASSUME PoolInv, NEW j \in PoolJobs, Pool!StartPool(j) PROVE PoolInv'
<1>1. PICK p \in Pool!Pools :
        /\ pool[p].state = "none"
        /\ pool' = [pool EXCEPT ![p] = [config |-> config[j], state |-> "starting"]]
        /\ helper' = [helper EXCEPT ![p] = [h \in Pool!HelperIds |-> "gate"]]
        /\ poolOf' = [poolOf EXCEPT ![j] = p]
  BY DEF Pool!StartPool
<1>2. PoolTypedAnswers' /\ PoolLastingAnswers'
  BY PoolAnswersStay DEF Pool!StartPool
<1>3. PoolTypedJobs'
  BY <1>1 DEF Pool!StartPool, PoolInv, PoolTyped, PoolTypedJobs, PoolPlaces, PoolStates
<1>4. PoolTypedWork'
  <2>1. PoolCommand' = PoolCommand
    BY PoolCommandStays DEF Pool!StartPool
  <2> QED
    BY <1>1, <2>1 DEF Pool!StartPool, PoolInv, PoolTyped, PoolTypedWork, PoolThreads
<1>5. \A k \in PoolJobs : /\ job'[k] = IF k = j THEN "starting" ELSE job[k]
                          /\ poolOf'[k] = IF k = j THEN p ELSE poolOf[k]
  BY <1>1 DEF Pool!StartPool, PoolInv, PoolTyped, PoolTypedJobs
<1>6. \A q \in Pool!Pools : pool'[q].state = IF q = p THEN "starting" ELSE pool[q].state
  BY <1>1 DEF PoolInv, PoolTyped, PoolTypedJobs
<1>7. PoolLives'
  <2>1. slot \in Pool!Pools \cup {Pool!NoPool} /\ slot' = slot
    BY DEF Pool!StartPool, PoolInv, PoolTyped, PoolTypedJobs
  <2> QED
    BY <1>1, <1>5, <1>6, <2>1 DEF PoolInv, PoolLives
<1>8. PoolLastingWork'
  <2>1. \A q \in Pool!Pools, h \in Pool!HelperIds :
          helper'[q][h] = IF q = p THEN "gate" ELSE helper[q][h]
    BY <1>1 DEF PoolInv, PoolTyped, PoolTypedWork
  <2>2. work' = work /\ call' = call
    BY DEF Pool!StartPool
  <2> QED
    BY <2>1, <2>2 DEF PoolInv, PoolLastingWork
<1> QED
  BY <1>2, <1>3, <1>4, <1>7, <1>8 DEF PoolInv, PoolTyped

LEMMA PoolReadyKept == ASSUME PoolInv, NEW j \in PoolJobs, Pool!PoolReady(j) PROVE PoolInv'
<1> DEFINE p == poolOf[j]
           drops == slot # Pool!NoPool /\ Pool!HeldBy(slot) = {}
<1>1. /\ job[j] = "starting" /\ slot' = p
      /\ pool' = [q \in Pool!Pools |-> [pool[q] EXCEPT !.state =
                        IF q = p THEN "live" ELSE IF drops /\ q = slot THEN "closing" ELSE @]]
      /\ UNCHANGED <<config, call, poolOf, completed, answers, next, helper, work>>
      /\ drops => Pool!SendShutdown(slot) /\ job' = [job EXCEPT ![j] = "replacing"]
      /\ ~drops => job' = [job EXCEPT ![j] = "ready"] /\ UNCHANGED handed
  BY DEF Pool!PoolReady
<1>2. PoolTypedAnswers' /\ PoolLastingAnswers'
  BY <1>1, PoolAnswersStay
<1>3. p \in Pool!Pools /\ pool[p].state = "starting"
  BY <1>1 DEF PoolInv, PoolLives
<1>4. slot \in Pool!Pools \cup {Pool!NoPool}
  BY DEF PoolInv, PoolTyped, PoolTypedJobs
<1>5. PoolTypedWork' /\ PoolLastingWork'
  <2>1. CASE drops
    BY <1>1, <1>4, <2>1, PoolShutdownSent
  <2>2. CASE ~drops
    BY <1>1, <2>2, PoolWorkStays
  <2> QED
    BY <2>1, <2>2
<1>6. PICK s \in {"ready", "replacing"} : job' = [job EXCEPT ![j] = s]
  BY <1>1
<1>7. PoolTypedJobs'
  <2>1. job' \in [PoolJobs -> PoolPlaces]
    BY <1>6 DEF PoolInv, PoolTyped, PoolTypedJobs, PoolPlaces
  <2> DEFINE new(q) == IF q = p THEN "live" ELSE IF drops /\ q = slot THEN "closing" ELSE pool[q].state
  <2> HIDE DEF p, drops
  <2>2. pool' = [q \in Pool!Pools |-> [pool[q] EXCEPT !.state = new(q)]]
    BY <1>1
  <2>3. \A q \in Pool!Pools : new(q) \in PoolStates
    BY DEF PoolInv, PoolTyped, PoolTypedJobs, PoolStates
  <2> HIDE DEF new
  <2>4. pool' \in [Pool!Pools -> [config : PoolConfigs \cup {CHOOSE c \in PoolConfigs : TRUE}, state : PoolStates]]
    BY <2>2, <2>3 DEF PoolInv, PoolTyped, PoolTypedJobs
  <2>5. slot' \in Pool!Pools \cup {Pool!NoPool}
    BY <1>1, <1>3
  <2> QED
    BY <1>1, <2>1, <2>4, <2>5 DEF PoolInv, PoolTyped, PoolTypedJobs
<1>8. \A k \in PoolJobs : job'[k] = IF k = j THEN s ELSE job[k]
  BY <1>6 DEF PoolInv, PoolTyped, PoolTypedJobs
<1>9. \A q \in Pool!Pools : pool'[q].state =
          IF q = p THEN "live" ELSE IF drops /\ q = slot THEN "closing" ELSE pool[q].state
  BY <1>1 DEF PoolInv, PoolTyped, PoolTypedJobs
<1>10. \A k \in PoolJobs : drops => poolOf[k] # slot
  BY DEF Pool!HeldBy
<1> HIDE DEF drops
<1>11. PoolLives'
  <2>1. slot # Pool!NoPool => pool[slot].state = "live"
    BY DEF PoolInv, PoolLives
  <2>2. poolOf' = poolOf
    BY <1>1
  <2>3. ASSUME NEW k \in PoolJobs
        PROVE  /\ job'[k] \in {"ready", "waiting", "replacing"} =>
                    poolOf'[k] \in Pool!Pools /\ pool'[poolOf'[k]].state = "live"
               /\ job'[k] = "starting" => poolOf'[k] \in Pool!Pools /\ pool'[poolOf'[k]].state = "starting"
    <3>1. CASE k = j
      BY <1>3, <1>8, <1>9, <2>2, <3>1
    <3>2. CASE k # j /\ job[k] = "starting"
      <4>1. poolOf[k] \in Pool!Pools /\ pool[poolOf[k]].state = "starting" /\ poolOf[k] # p
        BY <1>1, <3>2 DEF PoolInv, PoolLives
      <4>2. drops => poolOf[k] # slot
        BY <1>10
      <4> HIDE DEF p
      <4> QED
        BY <1>8, <1>9, <2>2, <3>2, <4>1, <4>2
    <3>3. CASE k # j /\ job[k] \in {"ready", "waiting", "replacing"}
      <4>1. poolOf[k] \in Pool!Pools /\ pool[poolOf[k]].state = "live"
        BY <3>3 DEF PoolInv, PoolLives
      <4>2. drops => poolOf[k] # slot
        BY <1>10
      <4> HIDE DEF p
      <4> QED
        BY <1>3, <1>8, <1>9, <2>2, <3>3, <4>1, <4>2
    <3>4. CASE k # j /\ job[k] \notin {"ready", "waiting", "replacing", "starting"}
      BY <1>8, <3>4
    <3> QED
      BY <3>1, <3>2, <3>3, <3>4
  <2>4. pool'[slot'].state = "live"
    BY <1>1, <1>3, <1>9
  <2>5. \A i, k \in PoolJobs :
          job'[i] = "starting" /\ job'[k] = "starting" /\ poolOf'[i] = poolOf'[k] => i = k
    BY <1>8, <2>2 DEF PoolInv, PoolLives
  <2> QED
    BY <2>3, <2>4, <2>5 DEF PoolLives
<1> QED
  BY <1>2, <1>5, <1>7, <1>11 DEF PoolInv, PoolTyped

LEMMA PoolFailsKept == ASSUME PoolInv, NEW j \in PoolJobs, Pool!PoolFails(j) PROVE PoolInv'
<1> DEFINE p == poolOf[j]
<1>1. /\ job[j] = "starting" /\ job' = [job EXCEPT ![j] = "abandoning"]
      /\ pool' = [pool EXCEPT ![p].state = "closing"] /\ Pool!SendShutdown(p)
      /\ UNCHANGED <<config, call, poolOf, completed, answers, slot, next, helper, work>>
  BY DEF Pool!PoolFails
<1>2. PoolTypedAnswers' /\ PoolLastingAnswers'
  BY <1>1, PoolAnswersStay
<1>3. p \in Pool!Pools /\ pool[p].state = "starting"
  BY <1>1 DEF PoolInv, PoolLives
<1>4. PoolTypedWork' /\ PoolLastingWork'
  BY <1>1, <1>3, PoolShutdownSent
<1>5. PoolTypedJobs'
  BY <1>1, <1>3 DEF PoolInv, PoolTyped, PoolTypedJobs, PoolPlaces, PoolStates
<1>6. \A k \in PoolJobs : job'[k] = IF k = j THEN "abandoning" ELSE job[k]
  BY <1>1 DEF PoolInv, PoolTyped, PoolTypedJobs
<1>7. \A q \in Pool!Pools : pool'[q].state = IF q = p THEN "closing" ELSE pool[q].state
  BY <1>1 DEF PoolInv, PoolTyped, PoolTypedJobs
<1>8. \A k \in PoolJobs : k # j /\ job[k] = "starting" => poolOf[k] # p
  BY <1>1 DEF PoolInv, PoolLives
<1> HIDE DEF p
<1>9. PoolLives'
  <2>1. slot \in Pool!Pools \cup {Pool!NoPool}
    BY DEF PoolInv, PoolTyped, PoolTypedJobs
  <2> QED
    BY <1>1, <1>3, <1>6, <1>7, <1>8, <2>1 DEF PoolInv, PoolLives
<1> QED
  BY <1>2, <1>4, <1>5, <1>9 DEF PoolInv, PoolTyped

LEMMA PoolLeaveKept == ASSUME PoolInv, NEW j \in PoolJobs, Pool!LeavePool(j) PROVE PoolInv'
<1> DEFINE p == poolOf[j]
           drops == p # Pool!NoPool /\ p # slot /\ Pool!HeldBy(p) = {j}
<1>1. /\ job[j] \in {"ok", "error"}
      /\ drops => /\ pool' = [pool EXCEPT ![p].state = "closing"] /\ Pool!SendShutdown(p)
                  /\ job' = [job EXCEPT ![j] = "leaving"] /\ poolOf' = poolOf
      /\ ~drops => /\ job' = [job EXCEPT ![j] = "gone"] /\ poolOf' = [poolOf EXCEPT ![j] = Pool!NoPool]
                   /\ UNCHANGED <<pool, handed>>
      /\ completed' = [completed EXCEPT ![j] = Pool!Empty(j)]
      /\ answers' = [answers EXCEPT ![j] = << >>]
      /\ UNCHANGED <<config, call, slot, next, helper, work>>
  BY DEF Pool!LeavePool
<1>2. p \in Pool!Pools \cup {Pool!NoPool} /\ slot \in Pool!Pools \cup {Pool!NoPool}
  BY DEF PoolInv, PoolTyped, PoolTypedJobs
<1>3. PoolTypedWork' /\ PoolLastingWork'
  <2>1. CASE drops
    BY <1>1, <1>2, <2>1, PoolShutdownSent
  <2>2. CASE ~drops
    BY <1>1, <2>2, PoolWorkStays
  <2> QED
    BY <2>1, <2>2
<1>4. PoolTypedJobs'
  <2>1. CASE drops
    <3>1. /\ job' = [job EXCEPT ![j] = "leaving"] /\ pool' = [pool EXCEPT ![p].state = "closing"]
          /\ poolOf' = poolOf /\ p \in Pool!Pools
      BY <1>1, <1>2, <2>1
    <3>2. UNCHANGED <<config, call, slot, next>>
      BY <1>1
    <3> HIDE DEF p, drops
    <3> QED
      BY <3>1, <3>2 DEF PoolInv, PoolTyped, PoolTypedJobs, PoolPlaces, PoolStates
  <2>2. CASE ~drops
    BY <1>1, <1>2, <2>2 DEF PoolInv, PoolTyped, PoolTypedJobs, PoolPlaces, PoolStates
  <2> QED
    BY <2>1, <2>2
<1>5. PoolTypedAnswers' /\ PoolLastingAnswers'
  <2>1. /\ Pool!Empty(j) \in Seq(PoolSegments) /\ Len(Pool!Empty(j)) = Len(call[j])
        /\ \A b \in 1..Len(call[j]) : Pool!Empty(j)[b] = << >>
    <3>1. Len(call[j]) \in Nat /\ << >> \in PoolSegments
      BY DEF PoolInv, PoolTyped, PoolTypedJobs, PoolSegments
    <3> QED
      BY <3>1 DEF Pool!Empty
  <2>2. \A k \in PoolJobs : /\ completed'[k] = IF k = j THEN Pool!Empty(j) ELSE completed[k]
                            /\ answers'[k] = IF k = j THEN << >> ELSE answers[k]
    BY <1>1 DEF PoolInv, PoolTyped, PoolTypedAnswers
  <2>3. << >> \in Seq(PoolResults) /\ Len(<< >>) = 0
    OBVIOUS
  <2>4. PoolTypedAnswers'
    BY <1>1, <2>1, <2>2, <2>3 DEF PoolInv, PoolTyped, PoolTypedAnswers
  <2>5. ASSUME NEW k \in PoolJobs
        PROVE  /\ \A b \in 1..Len(call[k]) :
                    completed'[k][b] = << >> \/ PoolWhole(call[k][b], b, completed'[k][b])
               /\ \A i \in 1..Len(answers'[k]) : PoolResult(call[k], answers'[k][i])
    <3>1. CASE k = j
      BY <2>1, <2>2, <2>3, <3>1
    <3>2. CASE k # j
      <4>1. completed'[k] = completed[k] /\ answers'[k] = answers[k]
        BY <2>2, <3>2
      <4> QED
        BY <4>1 DEF PoolInv, PoolLastingAnswers
    <3> QED
      BY <3>1, <3>2
  <2>6. PoolLastingAnswers'
    BY <1>1, <2>5 DEF PoolLastingAnswers
  <2> QED
    BY <2>4, <2>6
<1>6. PoolLives'
  <2>1. CASE drops
    <3>1. \A k \in PoolJobs : job'[k] = IF k = j THEN "leaving" ELSE job[k]
      BY <1>1, <2>1 DEF PoolInv, PoolTyped, PoolTypedJobs
    <3>2. \A q \in Pool!Pools : pool'[q].state = IF q = p THEN "closing" ELSE pool[q].state
      BY <1>1, <2>1 DEF PoolInv, PoolTyped, PoolTypedJobs
    <3>3. \A k \in PoolJobs : k # j => poolOf[k] # p
      BY <2>1 DEF Pool!HeldBy
    <3>4. p # slot /\ poolOf' = poolOf /\ slot' = slot
      BY <1>1, <2>1
    <3> HIDE DEF p, drops
    <3> QED
      BY <1>2, <3>1, <3>2, <3>3, <3>4 DEF PoolInv, PoolLives
  <2>2. CASE ~drops
    <3>1. \A k \in PoolJobs : /\ job'[k] = IF k = j THEN "gone" ELSE job[k]
                              /\ poolOf'[k] = IF k = j THEN Pool!NoPool ELSE poolOf[k]
      BY <1>1, <2>2 DEF PoolInv, PoolTyped, PoolTypedJobs
    <3>2. pool' = pool /\ slot' = slot
      BY <1>1, <2>2
    <3> HIDE DEF p, drops
    <3> QED
      BY <3>1, <3>2 DEF PoolInv, PoolLives
  <2> QED
    BY <2>1, <2>2
<1> QED
  BY <1>3, <1>4, <1>5, <1>6 DEF PoolInv, PoolTyped

LEMMA PoolClosedKept == ASSUME PoolInv, NEW j \in PoolJobs, Pool!PoolClosed(j) PROVE PoolInv'
<1>1. PICK p \in Pool!Pools :
        /\ Pool!Joins(j, p)
        /\ pool' = [pool EXCEPT ![p].state = "gone"]
        /\ poolOf' = [poolOf EXCEPT ![j] = IF @ = p THEN Pool!NoPool ELSE @]
  BY DEF Pool!PoolClosed
<1>2. UNCHANGED <<config, call, completed, answers, slot, next, helper, work, handed>>
  BY DEF Pool!PoolClosed, Pool!helperVars
<1>3. PoolTypedWork' /\ PoolLastingWork' /\ PoolTypedAnswers' /\ PoolLastingAnswers'
  BY <1>2, PoolWorkStays, PoolAnswersStay
<1>4. PICK s \in {"error", "ready", "gone"} :
        /\ job' = [job EXCEPT ![j] = s]
        /\ s = "ready" => job[j] = "replacing" /\ Pool!HeldBy(p) = {}
  <2>1. job' = [job EXCEPT ![j] = CASE @ = "abandoning" -> "error"
                                   [] @ = "replacing" -> "ready"
                                   [] @ = "leaving" -> "gone"]
    BY DEF Pool!PoolClosed
  <2>2. job \in [PoolJobs -> PoolPlaces]
    BY DEF PoolInv, PoolTyped, PoolTypedJobs
  <2>3. CASE job[j] = "abandoning"
    <3>1. job' = [job EXCEPT ![j] = "error"]
      BY <2>1, <2>3
    <3> QED
      BY <3>1
  <2>4. CASE job[j] = "leaving"
    <3>1. job' = [job EXCEPT ![j] = "gone"]
      BY <2>1, <2>4
    <3> QED
      BY <3>1
  <2>5. CASE job[j] = "replacing"
    <3>1. job' = [job EXCEPT ![j] = "ready"] /\ Pool!HeldBy(p) = {}
      BY <1>1, <2>1, <2>5 DEF Pool!Joins
    <3> QED
      BY <2>5, <3>1
  <2> QED
    BY <1>1, <2>3, <2>4, <2>5 DEF Pool!Joins
<1>5. PoolTypedJobs'
  BY <1>1, <1>2, <1>4 DEF PoolInv, PoolTyped, PoolTypedJobs, PoolPlaces, PoolStates
<1>6. pool[p].state = "closing"
  BY <1>1 DEF Pool!Joins
<1>7. \A k \in PoolJobs : /\ job'[k] = IF k = j THEN s ELSE job[k]
                          /\ k # j => poolOf'[k] = poolOf[k]
  BY <1>1, <1>4 DEF PoolInv, PoolTyped, PoolTypedJobs
<1>8. \A q \in Pool!Pools : pool'[q].state = IF q = p THEN "gone" ELSE pool[q].state
  BY <1>1 DEF PoolInv, PoolTyped, PoolTypedJobs
<1>9. s = "ready" => poolOf[j] # p /\ poolOf'[j] = poolOf[j]
  <2>1. poolOf \in [PoolJobs -> Pool!Pools \cup {Pool!NoPool}]
    BY DEF PoolInv, PoolTyped, PoolTypedJobs
  <2> QED
    BY <1>1, <1>4, <2>1 DEF Pool!HeldBy
<1>10. PoolLives'
  <2>1. slot \in Pool!Pools \cup {Pool!NoPool}
    BY DEF PoolInv, PoolTyped, PoolTypedJobs
  <2> QED
    <3>1. slot' # Pool!NoPool => pool'[slot'].state = "live"
      BY <1>2, <1>6, <1>8, <2>1 DEF PoolInv, PoolLives
    <3>2. \A k \in PoolJobs : job'[k] \in {"ready", "waiting", "replacing", "starting"} =>
            /\ poolOf'[k] = poolOf[k] /\ job[k] \in {"ready", "waiting", "replacing", "starting"}
            /\ job'[k] = "starting" <=> job[k] = "starting"
      BY <1>4, <1>7, <1>9
    <3>3. \A k \in PoolJobs : job[k] \in {"ready", "waiting", "replacing"} =>
            poolOf[k] \in Pool!Pools /\ poolOf[k] # p /\ pool[poolOf[k]].state = "live"
      BY <1>6 DEF PoolInv, PoolLives
    <3>4. \A k \in PoolJobs : job[k] = "starting" =>
            poolOf[k] \in Pool!Pools /\ poolOf[k] # p /\ pool[poolOf[k]].state = "starting"
      BY <1>6 DEF PoolInv, PoolLives
    <3>5. \A k \in PoolJobs :
            /\ job'[k] \in {"ready", "waiting", "replacing"} =>
                 poolOf'[k] \in Pool!Pools /\ pool'[poolOf'[k]].state = "live"
            /\ job'[k] = "starting" => poolOf'[k] \in Pool!Pools /\ pool'[poolOf'[k]].state = "starting"
      BY <1>8, <3>2, <3>3, <3>4
    <3>6. \A i, k \in PoolJobs :
            job'[i] = "starting" /\ job'[k] = "starting" /\ poolOf'[i] = poolOf'[k] => i = k
      BY <3>2 DEF PoolInv, PoolLives
    <3> QED
      BY <3>1, <3>5, <3>6 DEF PoolLives
<1> QED
  BY <1>3, <1>5, <1>10 DEF PoolInv, PoolTyped

LEMMA PoolTranslateBatchesKept == ASSUME PoolInv, NEW j \in PoolJobs, Pool!TranslateBatches(j) PROVE PoolInv'
<1> DEFINE p == poolOf[j]
<1>1. /\ job[j] = "ready" /\ job' = [job EXCEPT ![j] = "waiting"]
      /\ handed' = [handed EXCEPT ![p] = Pool!Sent(j, p)]
      /\ next' = [next EXCEPT ![p] = (@ + Len(call[j])) % PoolHelpers]
      /\ UNCHANGED <<config, call, poolOf, completed, answers, slot, pool, helper, work>>
  BY DEF Pool!TranslateBatches
<1>2. p \in Pool!Pools
  BY <1>1 DEF PoolInv, PoolLives
<1>3. PoolTypedAnswers' /\ PoolLastingAnswers'
  BY <1>1, PoolAnswersStay
<1>4. PoolTypedWork' /\ PoolLastingWork'
  <2>1. PoolCommand' = PoolCommand
    BY <1>1, PoolCommandStays
  <2>2. Pool!Sent(j, p) \in [Pool!HelperIds -> Seq(PoolCommand)]
    BY <1>2, PoolSentKept
  <2> QED
    BY <1>1, <1>2, <2>1, <2>2 DEF PoolInv, PoolTyped, PoolTypedWork, PoolLastingWork
<1>5. next' \in [Pool!Pools -> Nat]
  <2>1. next \in [Pool!Pools -> Nat] /\ Len(call[j]) \in Nat
    BY DEF PoolInv, PoolTyped, PoolTypedJobs
  <2> DEFINE n == next[p] + Len(call[j])
  <2>2. n \in Nat
    BY <1>2, <2>1
  <2> HIDE DEF n
  <2>3. n % PoolHelpers \in Nat
    BY <2>2, PoolAssumption
  <2>4. next' = [next EXCEPT ![p] = n % PoolHelpers]
    BY <1>1 DEF n
  <2> QED
    BY <2>1, <2>3, <2>4
<1> QED
  BY <1>1, <1>3, <1>4, <1>5, PoolJobMoves DEF PoolInv, PoolTyped, PoolPlaces

LEMMA PoolReturnCancelledKept ==
    ASSUME PoolInv, NEW j \in PoolJobs, Pool!ReturnCancelled(j) \/ Pool!Cancel(j) PROVE PoolInv'
<1>1. UNCHANGED <<config, call, poolOf, completed, answers, Pool!registryVars, Pool!helperVars>>
  BY DEF Pool!ReturnCancelled, Pool!Cancel
<1>2. PoolTypedWork' /\ PoolLastingWork' /\ PoolTypedAnswers' /\ PoolLastingAnswers'
  BY <1>1, PoolWorkStays, PoolAnswersStay DEF Pool!helperVars
<1>3. CASE Pool!ReturnCancelled(j)
  <2>1. job' = [job EXCEPT ![j] = "error"]
    BY <1>3 DEF Pool!ReturnCancelled
  <2>2. next' \in [Pool!Pools -> Nat]
    BY <1>1 DEF Pool!registryVars, PoolInv, PoolTyped, PoolTypedJobs
  <2> QED
    BY <1>1, <1>2, <2>1, <2>2, PoolJobMoves DEF Pool!registryVars, PoolInv, PoolTyped, PoolPlaces
<1>4. CASE Pool!Cancel(j)
  BY <1>1, <1>2, <1>4, PoolJobsStay DEF Pool!Cancel, Pool!registryVars, PoolInv, PoolTyped
<1> QED
  BY <1>3, <1>4

LEMMA PoolReceiveAnswerKept == ASSUME PoolInv, NEW j \in PoolJobs, Pool!ReceiveAnswer(j) PROVE PoolInv'
<1> DEFINE came == answers[j]
           a == Head(came)
           was == completed[j]
           changed == [was EXCEPT ![a.batch] = a.lines]
<1>1. /\ job[j] = "waiting" /\ came # << >>
      /\ a.lines = << >> => job' = [job EXCEPT ![j] = "error"] /\ UNCHANGED completed
      /\ a.lines # << >> => completed' = [completed EXCEPT ![j] = changed]
      /\ a.lines # << >> => job' = [job EXCEPT ![j] = IF Pool!AllCompleted(changed) THEN "ok" ELSE @]
      /\ answers' = [answers EXCEPT ![j] = Tail(@)]
      /\ UNCHANGED <<config, call, poolOf, cancelled, Pool!registryVars, Pool!helperVars>>
  BY DEF Pool!ReceiveAnswer, Pool!Waits
<1>2. PoolTypedWork' /\ PoolLastingWork'
  BY <1>1, PoolWorkStays DEF Pool!helperVars
<1>3. /\ answers \in [PoolJobs -> Seq(PoolResults)] /\ completed \in [PoolJobs -> Seq(PoolSegments)]
      /\ Len(was) = Len(call[j]) /\ call[j] \in Seq(Nat \ {0}) /\ job \in [PoolJobs -> PoolPlaces]
  BY DEF PoolInv, PoolTyped, PoolTypedAnswers, PoolTypedJobs
<1>4. /\ \A i \in 1..Len(came) : PoolResult(call[j], came[i])
      /\ \A b \in 1..Len(call[j]) : was[b] = << >> \/ PoolWhole(call[j][b], b, was[b])
  BY DEF PoolInv, PoolLastingAnswers
<1>5. came \in Seq(PoolResults) /\ was \in Seq(PoolSegments) /\ Len(call[j]) \in Nat
  BY <1>3
<1>6. PoolTypedJobs' /\ PoolLives'
  <2>1. next' \in [Pool!Pools -> Nat] /\ UNCHANGED <<call, config, poolOf, slot, pool>>
    BY <1>1 DEF Pool!registryVars, PoolInv, PoolTyped, PoolTypedJobs
  <2>2. PICK s \in {"error", "ok", "waiting"} : job' = [job EXCEPT ![j] = s]
    <3>1. job[j] = "waiting"
      BY <1>1
    <3>2. CASE a.lines = << >>
      BY <1>1, <3>2
    <3>3. CASE a.lines # << >> /\ Pool!AllCompleted(changed)
      <4>1. job' = [job EXCEPT ![j] = "ok"]
        BY <1>1, <3>3
      <4> QED
        BY <4>1
    <3>4. CASE a.lines # << >> /\ ~Pool!AllCompleted(changed)
      <4>1. job' = [job EXCEPT ![j] = "waiting"]
        BY <1>1, <3>1, <3>4
      <4> QED
        BY <4>1
    <3> QED
      BY <3>2, <3>3, <3>4
  <2>3. s \in PoolPlaces /\ job[j] \in {"ready", "waiting", "replacing"} /\ s # "starting"
    BY <1>1 DEF PoolPlaces
  <2> QED
    BY <2>1, <2>2, <2>3, PoolJobMoves
<1> HIDE DEF came, was
<1>7. /\ 1 \in 1..Len(came) /\ a = came[1] /\ a \in PoolResults
      /\ Tail(came) \in Seq(PoolResults) /\ Len(Tail(came)) = Len(came) - 1
      /\ \A i \in 1..(Len(came) - 1) : Tail(came)[i] = came[i + 1] /\ i + 1 \in 1..Len(came)
  BY <1>1, <1>5
<1>8. a.batch \in 1..Len(call[j]) /\ (a.lines = << >> \/ PoolWhole(call[j][a.batch], a.batch, a.lines))
  BY <1>4, <1>7 DEF PoolResult
<1>9. a.lines \in PoolSegments
  BY <1>7 DEF PoolResults
<1> HIDE DEF a
<1>10. /\ changed \in Seq(PoolSegments) /\ Len(changed) = Len(was)
       /\ \A b \in 1..Len(was) : changed[b] = IF b = a.batch THEN a.lines ELSE was[b]
  <2>1. a.batch \in 1..Len(was)
    BY <1>3, <1>8 DEF was
  <2> QED
    BY <1>5, <1>9, <2>1
<1>11. \A b \in 1..Len(call[j]) : changed[b] = << >> \/ PoolWhole(call[j][b], b, changed[b])
  <2> TAKE b \in 1..Len(call[j])
  <2>1. b \in 1..Len(was)
    BY <1>3 DEF was
  <2>2. CASE b = a.batch
    BY <1>8, <1>10, <2>1, <2>2
  <2>3. CASE b # a.batch
    <3>1. changed[b] = was[b]
      BY <1>10, <2>1, <2>3
    <3> HIDE DEF changed
    <3> QED
      BY <1>4, <3>1
  <2> QED
    BY <2>2, <2>3
<1> HIDE DEF changed
<1>12. ASSUME NEW k \in PoolJobs, k # j PROVE completed'[k] = completed[k] /\ answers'[k] = answers[k]
  BY <1>1, <1>3, <1>12
<1>13. completed'[j] \in {was, changed} /\ answers'[j] = Tail(came)
  BY <1>1, <1>3 DEF was, came
<1>14. PoolTypedAnswers'
  <2>1. completed' \in [PoolJobs -> Seq(PoolSegments)] /\ answers' \in [PoolJobs -> Seq(PoolResults)]
    BY <1>1, <1>3, <1>7, <1>10 DEF came
  <2>2. Len(was) = Len(call[j])
    BY <1>3 DEF was
  <2>3. ASSUME NEW k \in PoolJobs PROVE Len(completed'[k]) = Len(call[k])
    <3>1. CASE k = j
      BY <1>10, <1>13, <2>2, <3>1
    <3>2. CASE k # j
      BY <1>12, <3>2 DEF PoolInv, PoolTyped, PoolTypedAnswers
    <3> QED
      BY <3>1, <3>2
  <2> QED
    BY <1>1, <2>1, <2>3 DEF PoolTypedAnswers
<1>15. PoolLastingAnswers'
  <2>1. ASSUME NEW k \in PoolJobs
        PROVE  /\ \A b \in 1..Len(call[k]) :
                    completed'[k][b] = << >> \/ PoolWhole(call[k][b], b, completed'[k][b])
               /\ \A i \in 1..Len(answers'[k]) : PoolResult(call[k], answers'[k][i])
    <3>1. CASE k = j
      BY <1>4, <1>7, <1>11, <1>13, <3>1
    <3>2. CASE k # j
      <4>1. completed'[k] = completed[k] /\ answers'[k] = answers[k]
        BY <1>12, <3>2
      <4> QED
        BY <4>1 DEF PoolInv, PoolLastingAnswers
    <3> QED
      BY <3>1, <3>2
  <2> QED
    BY <1>1, <2>1 DEF PoolLastingAnswers
<1> QED
  BY <1>2, <1>6, <1>14, <1>15 DEF PoolInv, PoolTyped

LEMMA PoolHelperMoves ==
    ASSUME PoolInv, NEW p \in Pool!Pools, NEW h \in Pool!HelperIds, NEW s \in PoolThreads,
           s \in {"busy", "respawning"} => PoolInHand(work[p][h], call),
           helper' = [helper EXCEPT ![p][h] = s], UNCHANGED <<call, work>>,
           handed' \in [Pool!Pools -> [Pool!HelperIds -> Seq(PoolCommand)]]
    PROVE  PoolTypedWork' /\ PoolLastingWork'
<1>1. PoolCommand' = PoolCommand
  BY PoolCommandStays
<1>2. helper' \in [Pool!Pools -> [Pool!HelperIds -> PoolThreads]]
  BY DEF PoolInv, PoolTyped, PoolTypedWork
<1>3. \A q \in Pool!Pools, i \in Pool!HelperIds : helper'[q][i] = IF q = p /\ i = h THEN s ELSE helper[q][i]
  BY DEF PoolInv, PoolTyped, PoolTypedWork
<1>4. \A q \in Pool!Pools, i \in Pool!HelperIds :
        helper'[q][i] \in {"busy", "respawning"} => PoolInHand(work[q][i], call)
  BY <1>3 DEF PoolInv, PoolLastingWork
<1> QED
  BY <1>1, <1>2, <1>4 DEF PoolInv, PoolTyped, PoolTypedWork, PoolLastingWork

\* A thread takes a command.
LEMMA PoolReceived ==
    ASSUME PoolInv, NEW p \in Pool!Pools, NEW h \in Pool!HelperIds, handed[p][h] # << >>
    PROVE  /\ Head(handed[p][h]) \in PoolCommand
           /\ [handed EXCEPT ![p][h] = Tail(@)] \in [Pool!Pools -> [Pool!HelperIds -> Seq(PoolCommand)]]
<1> DEFINE waits == handed[p][h]
<1>1. handed \in [Pool!Pools -> [Pool!HelperIds -> Seq(PoolCommand)]] /\ waits \in Seq(PoolCommand)
  BY DEF PoolInv, PoolTyped, PoolTypedWork
<1> HIDE DEF waits
<1>2. waits # << >>
  BY DEF waits
<1>3. Head(waits) \in PoolCommand /\ Tail(waits) \in Seq(PoolCommand)
  BY <1>1, <1>2
<1> QED
  BY <1>1, <1>3 DEF waits

\* What a thread does with its batch: it goes on with it, or it answers and is idle.
LEMMA PoolGoesOn ==
    ASSUME PoolInv, NEW p \in Pool!Pools, NEW h \in Pool!HelperIds, NEW w \in PoolPiece,
           NEW s \in PoolThreads, s \in {"busy", "respawning"} => PoolInHand(w, call),
           work' = [work EXCEPT ![p][h] = w], helper' = [helper EXCEPT ![p][h] = s],
           UNCHANGED call, handed' \in [Pool!Pools -> [Pool!HelperIds -> Seq(PoolCommand)]]
    PROVE  PoolTypedWork' /\ PoolLastingWork'
<1>1. PoolCommand' = PoolCommand
  BY PoolCommandStays
<1>2. /\ work' \in [Pool!Pools -> [Pool!HelperIds -> PoolPiece]]
      /\ helper' \in [Pool!Pools -> [Pool!HelperIds -> PoolThreads]]
      /\ \A q \in Pool!Pools, i \in Pool!HelperIds :
           helper'[q][i] \in {"busy", "respawning"} => PoolInHand(work'[q][i], call)
  BY PoolWorkKept
<1> QED
  BY <1>1, <1>2 DEF PoolTypedWork, PoolLastingWork

LEMMA PoolAnswerSent ==
    ASSUME PoolInv, NEW j \in PoolJobs, NEW b \in 1..Len(call[j]), NEW lines \in PoolSegments,
           lines = << >> \/ PoolWhole(call[j][b], b, lines), Pool!Answer(j, b, lines),
           UNCHANGED <<call, completed>>
    PROVE  PoolTypedAnswers' /\ PoolLastingAnswers'
<1>1. /\ answers' \in [PoolJobs -> Seq(PoolResults)]
      /\ \A k \in PoolJobs : \A i \in 1..Len(answers'[k]) : PoolResult(call[k], answers'[k][i])
  BY PoolAnswerKept
<1> QED
  BY <1>1 DEF PoolInv, PoolTyped, PoolTypedAnswers, PoolLastingAnswers

LEMMA PoolLoadKept ==
    ASSUME PoolInv, NEW p \in Pool!Pools, NEW h \in Pool!HelperIds,
           Pool!EnterGate(p, h) \/ Pool!Load(p, h) \/ Pool!ReceiveShutdown(p, h) \/ Pool!Hang(p, h)
    PROVE  PoolInv'
<1>1. PoolTypedAnswers' /\ PoolLastingAnswers' /\ PoolTypedJobs' /\ PoolLives'
  <2>1. UNCHANGED <<Pool!jobVars, Pool!registryVars>>
    BY DEF Pool!EnterGate, Pool!Load, Pool!ReceiveShutdown, Pool!Hang
  <2> QED
    BY <2>1, PoolAnswersStay, PoolJobsStay DEF Pool!jobVars, Pool!registryVars
<1>2. PICK s \in {"loading", "idle", "failed", "ended", "hung"} : helper' = [helper EXCEPT ![p][h] = s]
  BY DEF Pool!EnterGate, Pool!Load, Pool!ReceiveShutdown, Pool!Hang
<1>3. UNCHANGED <<call, work>> /\ handed' \in [Pool!Pools -> [Pool!HelperIds -> Seq(PoolCommand)]]
  <2>1. handed \in [Pool!Pools -> [Pool!HelperIds -> Seq(PoolCommand)]]
    BY DEF PoolInv, PoolTyped, PoolTypedWork
  <2>2. CASE Pool!ReceiveShutdown(p, h)
    BY <2>2, PoolReceived DEF Pool!ReceiveShutdown, Pool!jobVars
  <2>3. CASE Pool!EnterGate(p, h) \/ Pool!Load(p, h) \/ Pool!Hang(p, h)
    BY <2>1, <2>3 DEF Pool!EnterGate, Pool!Load, Pool!Hang, Pool!jobVars
  <2> QED
    BY <2>2, <2>3
<1>4. PoolTypedWork' /\ PoolLastingWork'
  BY <1>2, <1>3, PoolHelperMoves DEF PoolThreads
<1> QED
  BY <1>1, <1>4 DEF PoolInv, PoolTyped

\* A batch begins: all its lines are to do.
LEMMA PoolLinesBegin ==
    ASSUME PoolInv, NEW j \in PoolJobs, NEW b \in 1..Len(call[j])
    PROVE  LET w == [job |-> j, batch |-> b, mode |-> "batch", todo |-> <<Pool!Lines(j, b)>>, done |-> << >>]
           IN  w \in PoolPiece /\ PoolInHand(w, call)
<1> DEFINE n == call[j][b]
           todo == <<Pool!Lines(j, b)>>
           s == PoolPart(todo, 1)
           base == 10 * b
<1>1. n \in Nat \ {0} /\ b \in Nat /\ base \in Int
  BY DEF PoolInv, PoolTyped, PoolTypedJobs
<1>2. s = Pool!Lines(j, b)
  BY DEF PoolPart
<1>3. s = [k \in 1..n |-> base + k]
  BY <1>2 DEF Pool!Lines
<1> HIDE DEF n, base, s, todo
<1>4. s \in Seq(Int) /\ Len(s) = n /\ (\A k \in 1..n : s[k] = base + k) /\ s[1] = base + 1
  BY <1>1, <1>3
<1>5. todo \in Seq(PoolSegments) /\ Len(todo) = 1 /\ todo # << >>
  BY <1>2, <1>4 DEF PoolSegments, todo
<1> DEFINE none == << >>
<1>6. none \in Seq(Int) /\ Len(none) = 0 /\ PoolMarked(none, base)
  BY DEF PoolMarked
<1>7. PoolPart(todo, 1) = s
  BY DEF s
<1> HIDE DEF none
<1>8. PoolCovers(todo, none, base, n)
  <2>1. \A k \in 1..n : s[k] = s[1] + k - 1
    BY <1>1, <1>4
  <2>2. \A i \in 1..Len(todo) : i = 1
    BY <1>5
  <2>3. s[1] = base + Len(none) + 1
    BY <1>1, <1>4, <1>6
  <2>4. s[1] + Len(s) = base + n + 1
    BY <1>1, <1>4
  <2>5. \A i \in 1..(Len(todo) - 1) : FALSE
    BY <1>5
  <2>6. ASSUME NEW i \in 1..Len(todo)
        PROVE  /\ Len(PoolPart(todo, i)) >= 1
               /\ \A k \in 1..Len(PoolPart(todo, i)) : PoolPart(todo, i)[k] = PoolPart(todo, i)[1] + k - 1
    BY <1>1, <1>4, <1>7, <2>1, <2>2
  <2>7. PoolPart(todo, Len(todo))[1] + Len(PoolPart(todo, Len(todo))) = base + n + 1
    BY <1>5, <1>7, <2>4
  <2>8. PoolPart(todo, 1)[1] = base + Len(none) + 1
    BY <1>7, <2>3
  <2> QED
    BY <2>5, <2>6, <2>7, <2>8 DEF PoolCovers
<1> QED
  BY <1>1, <1>5, <1>6, <1>8 DEF PoolPiece, PoolInHand, todo, n, base, none

LEMMA PoolReceiveTranslateKept ==
    ASSUME PoolInv, NEW p \in Pool!Pools, NEW h \in Pool!HelperIds, Pool!ReceiveTranslate(p, h)
    PROVE  PoolInv'
<1> DEFINE c == Head(handed[p][h])
           w == [job |-> c.job, batch |-> c.batch, mode |-> "batch",
                 todo |-> <<Pool!Lines(c.job, c.batch)>>, done |-> << >>]
<1>1. /\ handed[p][h] # << >> /\ c # Pool!Shutdown
      /\ \/ Pool!Answer(c.job, c.batch, << >>) /\ UNCHANGED <<helper, work>>
         \/ /\ helper' = [helper EXCEPT ![p][h] = "busy"]
            /\ work' = [work EXCEPT ![p][h] = w]
            /\ UNCHANGED answers
      /\ handed' = [handed EXCEPT ![p][h] = Tail(@)]
      /\ UNCHANGED <<config, call, job, poolOf, cancelled, completed, Pool!registryVars>>
  BY DEF Pool!ReceiveTranslate
<1>2. c \in PoolCommand /\ handed' \in [Pool!Pools -> [Pool!HelperIds -> Seq(PoolCommand)]]
  BY <1>1, PoolReceived
<1>3. c.job \in PoolJobs /\ c.batch \in 1..Len(call[c.job])
  BY <1>1, <1>2 DEF PoolCommand
<1>4. PoolTypedJobs' /\ PoolLives'
  BY <1>1, PoolJobsStay DEF Pool!registryVars
<1>5. w \in PoolPiece /\ PoolInHand(w, call)
  BY <1>3, PoolLinesBegin
<1> HIDE DEF c, w
<1>6. CASE Pool!Answer(c.job, c.batch, << >>) /\ UNCHANGED <<helper, work>>
  <2>1. << >> \in PoolSegments
    BY DEF PoolSegments
  <2>2. PoolTypedAnswers' /\ PoolLastingAnswers'
    BY <1>1, <1>3, <1>6, <2>1, PoolAnswerSent
  <2>3. PoolCommand' = PoolCommand
    BY <1>1, PoolCommandStays
  <2>4. PoolTypedWork' /\ PoolLastingWork'
    BY <1>1, <1>2, <1>6, <2>3 DEF PoolInv, PoolTyped, PoolTypedWork, PoolLastingWork
  <2> QED
    BY <1>4, <2>2, <2>4 DEF PoolInv, PoolTyped
<1>7. CASE /\ helper' = [helper EXCEPT ![p][h] = "busy"]
           /\ work' = [work EXCEPT ![p][h] = w]
           /\ UNCHANGED answers
  <2>1. PoolTypedAnswers' /\ PoolLastingAnswers'
    BY <1>1, <1>7, PoolAnswersStay
  <2>2. PoolTypedWork' /\ PoolLastingWork'
    BY <1>1, <1>2, <1>5, <1>7, PoolGoesOn DEF PoolThreads
  <2> QED
    BY <1>4, <2>1, <2>2 DEF PoolInv, PoolTyped
<1> QED
  BY <1>1, <1>6, <1>7

-----------------------------------------------------------------------------
(* A batch on its way                                                      *)

\* A thread goes on with other lines to do.
LEMMA PoolPieceOf ==
    ASSUME PoolInv, NEW p \in Pool!Pools, NEW h \in Pool!HelperIds
    PROVE  work[p][h] \in PoolPiece
  BY DEF PoolInv, PoolTyped, PoolTypedWork

LEMMA PoolTranslatedKept ==
    ASSUME PoolInv, NEW p \in Pool!Pools, NEW h \in Pool!HelperIds, helper[p][h] = "busy",
           NEW lines \in Seq(Int), PoolTurned(lines, PoolPart(work[p][h].todo, 1)),
           Pool!Translated(p, h, lines), UNCHANGED <<call, completed, handed>>
    PROVE  PoolTypedWork' /\ PoolLastingWork' /\ PoolTypedAnswers' /\ PoolLastingAnswers'
<1> DEFINE w == work[p][h]
           n == call[w.job][w.batch]
           base == 10 * w.batch
           rest == Tail(w.todo)
           all == w.done \o lines
<1>1. w \in PoolPiece /\ PoolInHand(w, call) /\ handed' \in [Pool!Pools -> [Pool!HelperIds -> Seq(PoolCommand)]]
  BY PoolPieceOf DEF PoolInv, PoolLastingWork, PoolTyped, PoolTypedWork
<1>2. /\ w.todo \in Seq(PoolSegments) /\ w.done \in Seq(Int) /\ w.todo # << >>
      /\ PoolCovers(w.todo, w.done, base, n) /\ PoolMarked(w.done, base)
      /\ w.job \in PoolJobs /\ w.batch \in 1..Len(call[w.job]) /\ w.batch \in Nat
      /\ call[w.job] \in Seq(Nat \ {0}) /\ PoolTurned(lines, PoolPart(w.todo, 1))
  BY <1>1 DEF PoolPiece, PoolInHand, PoolInv, PoolTyped, PoolTypedJobs
<1>3. base \in Int /\ n \in Int
  BY <1>2
<1> DEFINE todo == w.todo
           done == w.done
<1> HIDE DEF w, n, base
<1>4. all \in Seq(Int) /\ PoolMarked(all, base) /\ Len(all) = Len(w.done) + Len(PoolPart(w.todo, 1))
  <2>1. /\ todo \in Seq(PoolSegments) /\ done \in Seq(Int) /\ todo # << >>
        /\ PoolCovers(todo, done, base, n) /\ PoolMarked(done, base) /\ PoolTurned(lines, PoolPart(todo, 1))
    BY <1>2
  <2> HIDE DEF todo, done
  <2>2. /\ done \o lines \in Seq(Int) /\ PoolMarked(done \o lines, base)
        /\ Len(done \o lines) = Len(done) + Len(PoolPart(todo, 1))
    BY <1>3, <2>1, PoolDoneGrows
  <2> QED
    BY <2>2 DEF todo, done
<1> HIDE DEF all
<1>5. CASE rest = << >>
  <2>1. Pool!Finish(p, h, all)
    BY <1>5 DEF Pool!Translated, all, w
  <2>2. Len(all) = n
    <3>1. Len(w.done) + Len(PoolPart(w.todo, 1)) = n
      BY <1>2, <1>3, <1>5, PoolLastSegment, Zenon
    <3> QED
      BY <1>4, <3>1
  <2>3. PoolWhole(n, w.batch, all)
    BY <1>4, <2>2 DEF PoolWhole, base
  <2>4. Pool!Answer(w.job, w.batch, all)
    BY <2>1 DEF Pool!Finish, w
  <2>5. all \in PoolSegments
    BY <1>4 DEF PoolSegments
  <2>6. PoolTypedAnswers' /\ PoolLastingAnswers'
    BY <1>2, <2>3, <2>4, <2>5, PoolAnswerSent DEF n
  <2>7. Pool!NoWork \in PoolPiece
    BY DEF Pool!NoWork, PoolPiece
  <2>8. work' = [work EXCEPT ![p][h] = Pool!NoWork] /\ helper' = [helper EXCEPT ![p][h] = "idle"]
    BY <2>1 DEF Pool!Finish
  <2>9. PoolTypedWork' /\ PoolLastingWork'
    BY <1>1, <2>7, <2>8, PoolGoesOn DEF PoolThreads
  <2> QED
    BY <2>6, <2>9
<1>6. CASE rest # << >>
  <2> DEFINE v == [w EXCEPT !.todo = rest, !.done = all, !.mode = "batch"]
  <2>1. /\ work' = [work EXCEPT ![p][h].todo = rest, ![p][h].done = all, ![p][h].mode = "batch"]
        /\ UNCHANGED <<answers, helper>>
    <3>1. work \in [Pool!Pools -> [Pool!HelperIds -> PoolPiece]]
      BY DEF PoolInv, PoolTyped, PoolTypedWork
    <3> QED
      BY <1>6, <3>1 DEF Pool!Translated, all, w
  <2>2. work' = [work EXCEPT ![p][h] = v]
    <3>1. work \in [Pool!Pools -> [Pool!HelperIds -> PoolPiece]]
      BY DEF PoolInv, PoolTyped, PoolTypedWork
    <3> HIDE DEF rest
    <3> QED
      BY <2>1, <3>1 DEF w
  <2>3. rest \in Seq(PoolSegments)
    BY <1>2, PoolParts
  <2>4. /\ v \in PoolPiece /\ v.todo = rest /\ v.done = all /\ v.job = w.job /\ v.batch = w.batch
    BY <1>1, <1>4, <2>3 DEF PoolPiece, w
  <2>5. PoolCovers(rest, all, base, n)
    BY <1>2, <1>3, <1>4, <1>6, PoolNextSegments, Zenon
  <2> HIDE DEF v, rest
  <2>6. PoolInHand(v, call)
    BY <1>2, <1>4, <1>6, <2>4, <2>5 DEF PoolInHand, base, n
  <2>7. helper' = [helper EXCEPT ![p][h] = "busy"]
    BY <2>1 DEF PoolInv, PoolTyped, PoolTypedWork
  <2>8. PoolTypedWork' /\ PoolLastingWork'
    BY <1>1, <2>2, <2>4, <2>6, <2>7, PoolGoesOn DEF PoolThreads
  <2>9. PoolTypedAnswers' /\ PoolLastingAnswers'
    BY <2>1, PoolAnswersStay
  <2> QED
    BY <2>8, <2>9
<1> QED
  BY <1>5, <1>6

LEMMA PoolBisectKept ==
    ASSUME PoolInv, NEW p \in Pool!Pools, NEW h \in Pool!HelperIds, helper[p][h] = "busy",
           Len(Pool!Segment(p, h)) # 1, Pool!Bisect(p, h), UNCHANGED <<call, completed, handed>>
    PROVE  PoolTypedWork' /\ PoolLastingWork' /\ PoolTypedAnswers' /\ PoolLastingAnswers'
<1> DEFINE w == work[p][h]
           s == Head(w.todo)
           mid == Len(s) \div 2
           halves == <<SubSeq(s, 1, mid), SubSeq(s, mid + 1, Len(s))>> \o Tail(w.todo)
           v == [w EXCEPT !.todo = halves, !.mode = "batch"]
           n == call[w.job][w.batch]
           base == 10 * w.batch
<1>1. w \in PoolPiece /\ PoolInHand(w, call) /\ handed' \in [Pool!Pools -> [Pool!HelperIds -> Seq(PoolCommand)]]
  BY PoolPieceOf DEF PoolInv, PoolLastingWork, PoolTyped, PoolTypedWork
<1>2. /\ w.todo \in Seq(PoolSegments) /\ w.done \in Seq(Int) /\ w.todo # << >>
      /\ PoolCovers(w.todo, w.done, base, n) /\ PoolMarked(w.done, base)
      /\ w.job \in PoolJobs /\ w.batch \in 1..Len(call[w.job]) /\ w.batch \in Nat
      /\ call[w.job] \in Seq(Nat \ {0})
  BY <1>1 DEF PoolPiece, PoolInHand, PoolInv, PoolTyped, PoolTypedJobs
<1>3. base \in Int /\ n \in Int
  BY <1>2
<1>4. /\ work' = [work EXCEPT ![p][h].todo = halves, ![p][h].mode = "batch"]
      /\ UNCHANGED <<answers, helper>>
  <2>1. work \in [Pool!Pools -> [Pool!HelperIds -> PoolPiece]]
    BY DEF PoolInv, PoolTyped, PoolTypedWork
  <2> QED
    BY <2>1 DEF Pool!Bisect
<1>5. Len(s) # 1
  BY DEF Pool!Segment
<1> HIDE DEF w, n, base
<1>6. s = PoolPart(w.todo, 1)
  BY <1>2, PoolParts, Zenon
<1> HIDE DEF s
<1>7. mid \in Nat /\ 1 <= mid /\ mid < Len(s)
  <2>1. LET m == Len(PoolPart(w.todo, 1)) \div 2 IN m \in Nat /\ 1 <= m /\ m < Len(PoolPart(w.todo, 1))
    BY <1>2, <1>5, <1>6, PoolHalvesAre, Zenon
  <2> QED
    BY <1>6, <2>1, Zenon
<1> HIDE DEF mid
<1>8. halves \in Seq(PoolSegments) /\ halves # << >> /\ PoolCovers(halves, w.done, base, n)
  BY <1>2, <1>3, <1>6, <1>7, PoolHalvesCover, Zenon
<1> HIDE DEF halves
<1>9. work' = [work EXCEPT ![p][h] = v]
  <2>1. work \in [Pool!Pools -> [Pool!HelperIds -> PoolPiece]]
    BY DEF PoolInv, PoolTyped, PoolTypedWork
  <2> QED
    BY <1>4, <2>1 DEF w
<1>10. v \in PoolPiece /\ v.todo = halves /\ v.done = w.done /\ v.job = w.job /\ v.batch = w.batch
  BY <1>1, <1>8 DEF PoolPiece
<1> HIDE DEF v
<1>11. PoolInHand(v, call)
  BY <1>2, <1>8, <1>10 DEF PoolInHand, base, n
<1>12. helper' = [helper EXCEPT ![p][h] = "busy"]
  BY <1>4 DEF PoolInv, PoolTyped, PoolTypedWork
<1>13. PoolTypedWork' /\ PoolLastingWork'
  BY <1>1, <1>9, <1>10, <1>11, <1>12, PoolGoesOn DEF PoolThreads
<1>14. PoolTypedAnswers' /\ PoolLastingAnswers'
  BY <1>4, PoolAnswersStay
<1> QED
  BY <1>13, <1>14

\* The same lines are asked for in another way.
LEMMA PoolRetryKept ==
    ASSUME PoolInv, NEW p \in Pool!Pools, NEW h \in Pool!HelperIds, helper[p][h] \in {"busy", "respawning"},
           NEW mode \in {"batch_again", "single", "single_again"},
           work' = [work EXCEPT ![p][h].mode = mode], helper' = [helper EXCEPT ![p][h] = "busy"],
           UNCHANGED <<call, completed, answers, handed>>
    PROVE  PoolTypedWork' /\ PoolLastingWork' /\ PoolTypedAnswers' /\ PoolLastingAnswers'
<1> DEFINE w == work[p][h]
           v == [w EXCEPT !.mode = mode]
<1>1. w \in PoolPiece /\ PoolInHand(w, call) /\ handed' \in [Pool!Pools -> [Pool!HelperIds -> Seq(PoolCommand)]]
  BY PoolPieceOf DEF PoolInv, PoolLastingWork, PoolTyped, PoolTypedWork
<1>2. work' = [work EXCEPT ![p][h] = v]
  BY DEF PoolInv, PoolTyped, PoolTypedWork
<1> HIDE DEF w
<1>3. v \in PoolPiece /\ v.todo = w.todo /\ v.done = w.done /\ v.job = w.job /\ v.batch = w.batch
  <2>1. w \in [job : PoolJobs \cup {Pool!NoJob}, batch : Nat, todo : Seq(PoolSegments), done : Seq(Int),
               mode : {"batch", "batch_again", "single", "single_again"}]
    BY <1>1 DEF PoolPiece
  <2>2. v \in [job : PoolJobs \cup {Pool!NoJob}, batch : Nat, todo : Seq(PoolSegments), done : Seq(Int),
               mode : {"batch", "batch_again", "single", "single_again"}]
    BY <2>1
  <2>3. v.todo = w.todo /\ v.done = w.done /\ v.job = w.job /\ v.batch = w.batch
    BY <2>1
  <2> QED
    BY <2>2, <2>3 DEF PoolPiece
<1> HIDE DEF v
<1>4. PoolInHand(v, call)
  <2>1. /\ w.job \in PoolJobs /\ w.batch \in 1..Len(call[w.job]) /\ w.todo # << >>
        /\ PoolCovers(w.todo, w.done, 10 * w.batch, call[w.job][w.batch])
        /\ PoolMarked(w.done, 10 * w.batch)
    BY <1>1 DEF PoolInHand
  <2> QED
    BY <1>3, <2>1 DEF PoolInHand
<1>5. PoolTypedWork' /\ PoolLastingWork'
  <2>1. "busy" \in PoolThreads /\ v \in PoolPiece
    BY <1>3 DEF PoolThreads
  <2> QED
    BY <1>1, <1>2, <1>4, <2>1, PoolGoesOn
<1>6. PoolTypedAnswers' /\ PoolLastingAnswers'
  BY PoolAnswersStay
<1> QED
  BY <1>5, <1>6

\* The batch is given up.
LEMMA PoolFailedKept ==
    ASSUME PoolInv, NEW p \in Pool!Pools, NEW h \in Pool!HelperIds, helper[p][h] \in {"busy", "respawning"},
           Pool!Finish(p, h, << >>), UNCHANGED <<call, completed, handed>>
    PROVE  PoolTypedWork' /\ PoolLastingWork' /\ PoolTypedAnswers' /\ PoolLastingAnswers'
<1> DEFINE w == work[p][h]
<1>1. PoolInHand(w, call) /\ handed' \in [Pool!Pools -> [Pool!HelperIds -> Seq(PoolCommand)]]
  BY DEF PoolInv, PoolLastingWork, PoolTyped, PoolTypedWork
<1>2. w.job \in PoolJobs /\ w.batch \in 1..Len(call[w.job])
  BY <1>1 DEF PoolInHand
<1>3. << >> \in PoolSegments
  BY DEF PoolSegments
<1>4. Pool!Answer(w.job, w.batch, << >>)
  BY DEF Pool!Finish
<1>5. PoolTypedAnswers' /\ PoolLastingAnswers'
  BY <1>2, <1>3, <1>4, PoolAnswerSent
<1>6. Pool!NoWork \in PoolPiece
  BY DEF Pool!NoWork, PoolPiece
<1>7. work' = [work EXCEPT ![p][h] = Pool!NoWork] /\ helper' = [helper EXCEPT ![p][h] = "idle"]
  BY DEF Pool!Finish
<1>8. PoolTypedWork' /\ PoolLastingWork'
  BY <1>1, <1>6, <1>7, PoolGoesOn DEF PoolThreads
<1> QED
  BY <1>5, <1>8

LEMMA PoolRoundTripKept ==
    ASSUME PoolInv, NEW p \in Pool!Pools, NEW h \in Pool!HelperIds, Pool!RoundTrip(p, h) \/ Pool!Respawn(p, h)
    PROVE  PoolInv'
<1>1. UNCHANGED <<config, call, job, poolOf, cancelled, completed, Pool!registryVars, handed>>
  BY DEF Pool!RoundTrip, Pool!Respawn
<1>2. PoolTypedJobs' /\ PoolLives'
  BY <1>1, PoolJobsStay DEF Pool!registryVars
<1> DEFINE s == Pool!Segment(p, h)
<1>3. helper[p][h] = "busy" => s = PoolPart(work[p][h].todo, 1) /\ s \in Seq(Int) /\ Len(s) \in Nat
  <2> SUFFICES ASSUME helper[p][h] = "busy"
               PROVE  s = PoolPart(work[p][h].todo, 1) /\ s \in Seq(Int) /\ Len(s) \in Nat
    OBVIOUS
  <2>1. work[p][h].todo \in Seq(PoolSegments) /\ work[p][h].todo # << >>
    BY PoolPieceOf DEF PoolInv, PoolLastingWork, PoolInHand, PoolPiece
  <2>2. s = PoolPart(work[p][h].todo, 1) /\ 1 \in 1..Len(work[p][h].todo)
    BY <2>1, PoolParts DEF Pool!Segment
  <2> QED
    BY <2>1, <2>2, PoolPartsAre
<1> HIDE DEF s
<1>4. helper \in [Pool!Pools -> [Pool!HelperIds -> PoolThreads]] /\ work \in [Pool!Pools -> [Pool!HelperIds -> PoolPiece]]
  BY DEF PoolInv, PoolTyped, PoolTypedWork
<1>5. CASE Pool!AnswersWell(p, h)
  <2>1. helper[p][h] = "busy" /\ Pool!Translated(p, h, s)
    BY <1>5 DEF Pool!AnswersWell, Pool!Alive, s
  <2>2. PoolTurned(s, PoolPart(work[p][h].todo, 1)) /\ s \in Seq(Int)
    BY <1>3, <2>1 DEF PoolTurned
  <2> QED
    BY <1>1, <1>2, <2>1, <2>2, PoolTranslatedKept DEF PoolInv, PoolTyped
<1>6. CASE Pool!EngineFails(p, h)
  <2>1. helper[p][h] = "busy"
    BY <1>6 DEF Pool!EngineFails, Pool!Alive
  <2>2. CASE Len(s) = 1
    <3> DEFINE lines == <<0 - s[1]>>
    <3>1. Pool!Translated(p, h, lines)
      BY <1>6, <2>2 DEF Pool!EngineFails, s
    <3>2. lines \in Seq(Int) /\ PoolTurned(lines, PoolPart(work[p][h].todo, 1))
      BY <1>3, <2>1, <2>2 DEF PoolTurned
    <3> HIDE DEF lines
    <3> QED
      BY <1>1, <1>2, <2>1, <3>1, <3>2, PoolTranslatedKept DEF PoolInv, PoolTyped
  <2>3. CASE Len(s) # 1
    <3>1. Pool!Bisect(p, h) /\ Len(Pool!Segment(p, h)) # 1
      BY <1>6, <2>3 DEF Pool!EngineFails, s
    <3> QED
      BY <1>1, <1>2, <2>1, <3>1, PoolBisectKept DEF PoolInv, PoolTyped
  <2> QED
    BY <2>2, <2>3
<1>7. CASE Pool!ChangesBoundaries(p, h)
  <2>1. helper[p][h] = "busy"
    BY <1>7 DEF Pool!ChangesBoundaries, Pool!Alive
  <2>2. CASE Len(s) = 1
    <3>1. work' = [work EXCEPT ![p][h].mode = "single"] /\ UNCHANGED <<answers, helper>>
      BY <1>7, <2>2 DEF Pool!ChangesBoundaries, s
    <3>2. helper' = [helper EXCEPT ![p][h] = "busy"]
      BY <1>4, <2>1, <3>1
    <3> QED
      BY <1>1, <1>2, <2>1, <3>1, <3>2, PoolRetryKept DEF PoolInv, PoolTyped
  <2>3. CASE Len(s) # 1
    <3>1. Pool!Bisect(p, h) /\ Len(Pool!Segment(p, h)) # 1
      BY <1>7, <2>3 DEF Pool!ChangesBoundaries, s
    <3> QED
      BY <1>1, <1>2, <2>1, <3>1, PoolBisectKept DEF PoolInv, PoolTyped
  <2> QED
    BY <2>2, <2>3
<1>8. CASE Pool!TransportFails(p, h)
  <2>1. helper[p][h] = "busy"
    BY <1>8 DEF Pool!TransportFails
  <2>2. CASE Pool!Finish(p, h, << >>)
    BY <1>1, <1>2, <2>1, <2>2, PoolFailedKept DEF PoolInv, PoolTyped
  <2>3. CASE helper' = [helper EXCEPT ![p][h] = "respawning"] /\ UNCHANGED <<work, answers>>
    <3>1. PoolTypedWork' /\ PoolLastingWork'
      BY <1>1, <2>1, <2>3, PoolHelperMoves DEF PoolInv, PoolLastingWork, PoolTyped, PoolTypedWork, PoolThreads
    <3>2. PoolTypedAnswers' /\ PoolLastingAnswers'
      BY <1>1, <2>3, PoolAnswersStay
    <3> QED
      BY <1>2, <3>1, <3>2 DEF PoolInv, PoolTyped
  <2> QED
    BY <1>8, <2>2, <2>3 DEF Pool!TransportFails
<1>9. CASE Pool!Respawn(p, h)
  <2>1. helper[p][h] = "respawning"
    BY <1>9 DEF Pool!Respawn
  <2>2. CASE Pool!Finish(p, h, << >>)
    BY <1>1, <1>2, <2>1, <2>2, PoolFailedKept DEF PoolInv, PoolTyped
  <2>3. CASE ~Pool!Finish(p, h, << >>)
    <3>1. /\ helper' = [helper EXCEPT ![p][h] = "busy"] /\ UNCHANGED answers
          /\ work' = [work EXCEPT ![p][h].mode = IF @ = "batch" THEN "batch_again" ELSE "single_again"]
      BY <1>9, <2>3 DEF Pool!Respawn
    <3>2. PICK mode \in {"batch_again", "single_again"} : work' = [work EXCEPT ![p][h].mode = mode]
      <4>1. CASE work[p][h].mode = "batch"
        BY <1>4, <3>1, <4>1
      <4>2. CASE work[p][h].mode # "batch"
        BY <1>4, <3>1, <4>2
      <4> QED
        BY <4>1, <4>2
    <3> QED
      BY <1>1, <1>2, <2>1, <3>1, <3>2, PoolRetryKept DEF PoolInv, PoolTyped
  <2> QED
    BY <2>2, <2>3
<1> QED
  BY <1>5, <1>6, <1>7, <1>8, <1>9 DEF Pool!RoundTrip

LEMMA PoolStep == PoolInv /\ [Pool!Next]_Pool!vars => PoolInv'
<1> SUFFICES ASSUME PoolInv, [Pool!Next]_Pool!vars PROVE PoolInv'
  OBVIOUS
<1>1. ASSUME NEW j \in PoolJobs, Pool!JobStep(j) \/ Pool!Cancel(j) PROVE PoolInv'
  BY <1>1, PoolGetKept, PoolStartKept, PoolReadyKept, PoolFailsKept, PoolClosedKept,
     PoolTranslateBatchesKept, PoolReturnCancelledKept, PoolReceiveAnswerKept, PoolLeaveKept DEF Pool!JobStep
<1>2. ASSUME NEW p \in Pool!Pools, NEW h \in Pool!HelperIds, Pool!HelperStep(p, h) \/ Pool!Hang(p, h) PROVE PoolInv'
  BY <1>2, PoolLoadKept, PoolReceiveTranslateKept, PoolRoundTripKept DEF Pool!HelperStep
<1>3. CASE UNCHANGED Pool!vars
  BY <1>3, PoolWorkStays, PoolAnswersStay, PoolJobsStay DEF Pool!vars, PoolInv, PoolTyped
<1> QED
  BY <1>1, <1>2, <1>3 DEF Pool!Next

LEMMA PoolImplied == PoolInv => Pool!LinesKeepTheirPlace /\ Pool!UsedPoolsLive
<1> SUFFICES ASSUME PoolInv PROVE Pool!LinesKeepTheirPlace /\ Pool!UsedPoolsLive
  OBVIOUS
<1>1. Pool!UsedPoolsLive
  BY DEF PoolInv, PoolLives, Pool!UsedPoolsLive
<1>2. ASSUME NEW j \in PoolJobs, NEW b \in DOMAIN completed[j], completed[j][b] # << >>
      PROVE  /\ Len(completed[j][b]) = call[j][b]
             /\ \A k \in 1..call[j][b] :
                  completed[j][b][k] \in {Pool!Lines(j, b)[k], 0 - Pool!Lines(j, b)[k]}
  <2> DEFINE c == completed[j]
             lines == c[b]
             n == call[j][b]
  <2>1. c \in Seq(PoolSegments) /\ Len(c) = Len(call[j]) /\ b \in 1..Len(c)
    BY DEF PoolInv, PoolTyped, PoolTypedAnswers
  <2>2. PoolWhole(n, b, lines)
    BY <1>2, <2>1 DEF PoolInv, PoolLastingAnswers
  <2>3. \A k \in 1..n : Pool!Lines(j, b)[k] = 10 * b + k
    BY DEF Pool!Lines
  <2> HIDE DEF lines, n
  <2>4. Len(lines) = n /\ \A k \in 1..n : lines[k] = 10 * b + k \/ lines[k] = 0 - (10 * b + k)
    BY <2>2 DEF PoolWhole, PoolMarked
  <2>5. \A k \in 1..n : lines[k] \in {Pool!Lines(j, b)[k], 0 - Pool!Lines(j, b)[k]}
    BY <2>3, <2>4
  <2> QED
    BY <2>4, <2>5 DEF lines, n
<1> QED
  BY <1>1, <1>2 DEF Pool!LinesKeepTheirPlace

\* Each line of a batch gets its own answer, and the helpers that are asked are those of a pool
\* that is not closed; for any jobs, batches and helpers, and any failures of helpers and starts.
THEOREM ServesItsCalls == ServicesSpec => []PoolServesCalls
<1>1. PoolInv => PoolServesCalls
  BY PoolImplied DEF PoolServesCalls
<1>2. ServicesInit => PoolInv
  BY PoolStarts DEF ServicesInit, PoolStart, PoolRests
<1>3. PoolInv /\ [ServicesNext]_allVars => PoolInv'
  <2>1. [ServicesNext]_allVars => [Pool!Next]_Pool!vars
    BY DEF ServicesNext, allVars, poolVars, Pool!vars
  <2> QED
    BY <2>1, PoolStep
<1> QED
  BY <1>1, <1>2, <1>3, PTL DEF ServicesSpec
=============================================================================
