----------------------- MODULE TranslationCache_proofs -----------------------
(***************************************************************************)
(* Proofs about the translation cache, for any keys, limits, times, errors *)
(* and restarts: what a clear deleted never returns, the table is what the *)
(* file will hold, and pruning bounds it.                                  *)
(***************************************************************************)
EXTENDS TranslationCache, SequenceTheorems, FiniteSetTheorems, TLAPS

-----------------------------------------------------------------------------
(* The inductive invariant                                                 *)

(* A message that is not a put is a prune, which only a clear may follow,  *)
(* or a clear, which nothing follows.                                      *)
InOrder(w) ==
    \A i, j \in 1..Len(w) :
        i < j /\ w[i].kind # "Put" => w[i].kind = "Prune" /\ w[j].kind = "Clear"

Holds(w, kind) == \E i \in 1..Len(w) : w[i].kind = kind

(* The flags are up while the writer has, or will receive, what they stand *)
(* for; so it has one clear and one prune, at most.                        *)
Queue ==
    /\ InOrder(writes)
    /\ Holds(writes, "Clear") \/ writer = "clearing" => clear_in_progress
    /\ Holds(writes, "Prune") \/ writer = "pruning" => prune_in_progress
    /\ writer = "clearing" => writes = << >>
    /\ writer = "pruning" => ~Holds(writes, "Put") /\ ~Holds(writes, "Prune")
    /\ ui = "opening" => writes = << >> /\ ~clear_in_progress /\ ~prune_in_progress
                           /\ writer # "none"
    /\ writer = "failed" => errors > 0

(* What is in the file, on its way there, or can be read, is newer than    *)
(* what was cleared.                                                       *)
Newer ==
    /\ cleared <= puts
    /\ \A k \in Key : db[k].translation # 0 => db[k].translation > cleared
    /\ \A i \in 1..Len(writes) : writes[i].kind = "Put" => writes[i].translation > cleared
    /\ \A i \in 1..Len(writes) : writes[i].kind = "Clear" => writes[i].puts <= puts
    /\ ~clear_in_progress => \A k \in Key : memory[k] # 0 => memory[k] > cleared

PutOf(w, i, k) == w[i].kind = "Put" /\ w[i].key = k

(* The last put of k in w, or the row when there is none, is t.            *)
WillHold(w, row, k, t) ==
    \/ row = t /\ \A i \in 1..Len(w) : ~PutOf(w, i, k)
    \/ \E i \in 1..Len(w) :
          /\ PutOf(w, i, k) /\ w[i].translation = t
          /\ \A j \in 1..Len(w) : PutOf(w, j, k) => j <= i

(* While the flags are down the table is what the file will hold.          *)
Matches ==
    /\ errors = 0 /\ writer # "none" /\ ~clear_in_progress /\ ~prune_in_progress
          => \A k \in Key : WillHold(writes, db[k].translation, k, memory[k])
    /\ errors = 0 /\ writer = "clearing" => \A k \in Key : db[k].translation = 0

InTable == {k \in Key : memory[k] # 0}

(* After a prune the table grows by one entry for each put that is counted,*)
(* and not at all while a clear is under way.                              *)
Bounded ==
    /\ IsFiniteSet(Rows) /\ IsFiniteSet(InTable)
    /\ errors = 0 /\ writer = "pruning" => Cardinality(Rows) <= MaxRows
    /\ errors = 0 /\ ui = "idle" /\ writer # "none" /\ ~prune_in_progress
          => Cardinality(InTable)
                <= MaxRows + (IF clear_in_progress THEN 0 ELSE puts_since_prune)

IInv == TypeOK /\ Queue /\ Newer /\ Matches /\ Bounded

-----------------------------------------------------------------------------
(* The channel                                                             *)

(* What each kind of message carries.                                      *)
LEMMA MessageFields ==
  ASSUME NEW m \in CacheWrite
  PROVE  /\ m.kind \in {"Put", "Clear", "Prune"}
         /\ m.kind = "Put" => /\ m.key \in Key /\ m.translation \in 1..MaxPuts
                              /\ m.updated_at \in 0..MaxTime
         /\ m.kind = "Clear" => m.puts \in 0..MaxPuts
         /\ m.kind = "Prune" => m.now \in 0..MaxTime
BY DEF CacheWrite

\* What is known of the channel after its first message is taken.
LEMMA TakeMessage ==
  ASSUME NEW w \in Seq(CacheWrite), w # << >>, InOrder(w)
  PROVE  /\ Len(w) \in Nat /\ Len(w) >= 1 /\ Len(Tail(w)) = Len(w) - 1
         /\ Head(w) = w[1] /\ w[1] \in CacheWrite /\ Tail(w) \in Seq(CacheWrite)
         /\ \A i \in 1..Len(Tail(w)) : Tail(w)[i] = w[i + 1] /\ i + 1 \in 1..Len(w)
         /\ InOrder(Tail(w))
         /\ \A kind : Holds(Tail(w), kind) => Holds(w, kind)
         /\ Holds(w, Head(w).kind)
         /\ Head(w).kind = "Clear" => Tail(w) = << >>
         /\ Head(w).kind = "Prune" => ~Holds(Tail(w), "Put") /\ ~Holds(Tail(w), "Prune")
<1>1. /\ Len(w) \in Nat /\ Len(w) >= 1 /\ Len(Tail(w)) = Len(w) - 1
      /\ Head(w) = w[1] /\ w[1] \in CacheWrite /\ Tail(w) \in Seq(CacheWrite)
  OBVIOUS
<1>2. \A i \in 1..Len(Tail(w)) : Tail(w)[i] = w[i + 1] /\ i + 1 \in 1..Len(w) /\ 1 < i + 1
  BY <1>1
<1>3. InOrder(Tail(w))
  <2> SUFFICES ASSUME NEW i \in 1..Len(Tail(w)), NEW j \in 1..Len(Tail(w)),
                      i < j, Tail(w)[i].kind # "Put"
               PROVE  Tail(w)[i].kind = "Prune" /\ Tail(w)[j].kind = "Clear"
    BY DEF InOrder
  <2>1. i + 1 \in 1..Len(w) /\ j + 1 \in 1..Len(w) /\ i + 1 < j + 1
    BY <1>1, <1>2
  <2> QED
    BY <1>2, <2>1 DEF InOrder
<1>4. \A kind : Holds(Tail(w), kind) => Holds(w, kind)
  BY <1>2 DEF Holds
<1>5. Holds(w, Head(w).kind)
  BY <1>1 DEF Holds
<1>6. ASSUME w[1].kind # "Put", NEW i \in 1..Len(Tail(w))
      PROVE  w[1].kind = "Prune" /\ Tail(w)[i].kind = "Clear"
  BY <1>1, <1>2, <1>6 DEF InOrder
<1>7. Head(w).kind = "Clear" => Tail(w) = << >>
  <2>1. SUFFICES ASSUME w[1].kind = "Clear" PROVE Tail(w) = << >>
    BY <1>1
  <2>2. ~(1 \in 1..Len(Tail(w)))
    BY <1>6, <2>1
  <2>3. Len(Tail(w)) = 0
    BY <1>1, <2>2
  <2> QED
    BY <1>1, <2>3, EmptySeq
<1>8. Head(w).kind = "Prune" => ~Holds(Tail(w), "Put") /\ ~Holds(Tail(w), "Prune")
  BY <1>1, <1>6 DEF Holds
<1> QED
  BY <1>1, <1>2, <1>3, <1>4, <1>5, <1>7, <1>8

\* What is known of the channel after a message that its rules allow.
LEMMA SendMessage ==
  ASSUME NEW w \in Seq(CacheWrite), NEW m \in CacheWrite, InOrder(w),
         ~Holds(w, "Clear"), m.kind # "Clear" => ~Holds(w, "Prune")
  PROVE  /\ Append(w, m) \in Seq(CacheWrite)
         /\ Len(w) \in Nat /\ Len(Append(w, m)) = Len(w) + 1
         /\ \A i \in 1..Len(w) : Append(w, m)[i] = w[i]
         /\ Append(w, m)[Len(w) + 1] = m
         /\ \A i \in 1..Len(Append(w, m)) : i \in 1..Len(w) \/ i = Len(w) + 1
         /\ InOrder(Append(w, m))
         /\ \A kind : Holds(Append(w, m), kind) <=> Holds(w, kind) \/ m.kind = kind
<1> DEFINE a == Append(w, m)
<1>1. /\ a \in Seq(CacheWrite) /\ Len(w) \in Nat /\ Len(a) = Len(w) + 1
      /\ \A i \in 1..Len(w) : a[i] = w[i]
      /\ a[Len(w) + 1] = m
  OBVIOUS
<1>2. \A i \in 1..Len(a) : i \in 1..Len(w) \/ i = Len(w) + 1
  BY <1>1
<1>3. InOrder(a)
  <2> SUFFICES ASSUME NEW i \in 1..Len(a), NEW j \in 1..Len(a), i < j, a[i].kind # "Put"
               PROVE  a[i].kind = "Prune" /\ a[j].kind = "Clear"
    BY DEF InOrder
  <2>1. i \in 1..Len(w) /\ a[i] = w[i] /\ w[i] \in CacheWrite
    BY <1>1
  <2>2. CASE j \in 1..Len(w)
    BY <1>1, <2>1, <2>2 DEF InOrder
  <2>3. CASE j = Len(w) + 1
    <3>1. w[i].kind = "Prune"
      BY <2>1, MessageFields DEF Holds
    <3>2. m.kind = "Clear"
      BY <2>1, <3>1 DEF Holds
    <3> QED
      BY <1>1, <2>1, <2>3, <3>1, <3>2
  <2> QED
    BY <1>2, <2>2, <2>3
<1>4. ASSUME NEW kind PROVE Holds(a, kind) <=> Holds(w, kind) \/ m.kind = kind
  <2>1. Holds(a, kind) => Holds(w, kind) \/ m.kind = kind
    BY <1>1, <1>2 DEF Holds
  <2>2. Holds(w, kind) => Holds(a, kind)
    BY <1>1 DEF Holds
  <2>3. Len(w) + 1 \in 1..Len(a)
    BY <1>1
  <2>4. m.kind = kind => Holds(a, kind)
    BY <1>1, <2>3 DEF Holds
  <2> QED
    BY <2>1, <2>2, <2>4
<1> QED
  BY <1>1, <1>2, <1>3, <1>4

\* An empty channel obeys its rules.
LEMMA NoMessage == InOrder(<< >>) /\ \A kind : ~Holds(<< >>, kind)
BY DEF InOrder, Holds

\* Two messages at once are one after the other.
LEMMA TwoMessages ==
  ASSUME NEW w \in Seq(CacheWrite), NEW m \in CacheWrite, NEW n \in CacheWrite
  PROVE  w \o <<m, n>> = Append(Append(w, m), n)
OBVIOUS

(* A put that is sent is the last of its key, and changes nothing for the  *)
(* others.                                                                 *)
LEMMA SendPut ==
  ASSUME NEW w \in Seq(CacheWrite), NEW m \in CacheWrite, m.kind = "Put", InOrder(w),
         ~Holds(w, "Clear"), ~Holds(w, "Prune"),
         NEW k \in Key, NEW row, NEW t, WillHold(w, row, k, t)
  PROVE  WillHold(Append(w, m), row, k, IF m.key = k THEN m.translation ELSE t)
<1> DEFINE a == Append(w, m)
<1>1. /\ Len(w) \in Nat /\ Len(a) = Len(w) + 1
      /\ \A i \in 1..Len(w) : a[i] = w[i]
      /\ a[Len(w) + 1] = m
      /\ \A i \in 1..Len(a) : i \in 1..Len(w) \/ i = Len(w) + 1
  BY SendMessage
<1> HIDE DEF a
<1>2. CASE m.key = k
  <2>1. Len(w) + 1 \in 1..Len(a) /\ PutOf(a, Len(w) + 1, k)
        /\ a[Len(w) + 1].translation = m.translation
    BY <1>1, <1>2 DEF PutOf
  <2>2. \A j \in 1..Len(a) : j <= Len(w) + 1
    BY <1>1
  <2>3. WillHold(a, row, k, m.translation)
    BY <2>1, <2>2 DEF WillHold
  <2> QED
    BY <1>2, <2>3 DEF a
<1>3. CASE m.key # k
  <2>1. \A i \in 1..Len(a) : PutOf(a, i, k) => i \in 1..Len(w) /\ PutOf(w, i, k)
    BY <1>1, <1>3 DEF PutOf
  <2>2. CASE row = t /\ \A i \in 1..Len(w) : ~PutOf(w, i, k)
    BY <2>1, <2>2, <1>3 DEF WillHold, a
  <2>3. CASE \E i \in 1..Len(w) :
                /\ PutOf(w, i, k) /\ w[i].translation = t
                /\ \A j \in 1..Len(w) : PutOf(w, j, k) => j <= i
    <3>1. PICK i \in 1..Len(w) :
             /\ PutOf(w, i, k) /\ w[i].translation = t
             /\ \A j \in 1..Len(w) : PutOf(w, j, k) => j <= i
      BY <2>3
    <3>2. i \in 1..Len(a) /\ PutOf(a, i, k) /\ a[i].translation = t
      BY <1>1, <3>1 DEF PutOf
    <3>3. \A j \in 1..Len(a) : PutOf(a, j, k) => j <= i
      BY <2>1, <3>1
    <3>4. WillHold(a, row, k, t)
      BY <3>2, <3>3 DEF WillHold
    <3> QED
      BY <1>3, <3>4 DEF a
  <2> QED
    BY <2>2, <2>3 DEF WillHold
<1> QED
  BY <1>2, <1>3

(* A put that is written becomes the row, under the puts that follow it.   *)
LEMMA WriteRow ==
  ASSUME NEW w \in Seq(CacheWrite), w # << >>, InOrder(w), Head(w).kind = "Put",
         NEW k \in Key, NEW row, NEW t, WillHold(w, row, k, t)
  PROVE  WillHold(Tail(w), IF Head(w).key = k THEN Head(w).translation ELSE row, k, t)
<1> DEFINE a == Tail(w)
           written == IF Head(w).key = k THEN Head(w).translation ELSE row
<1>1. /\ Len(w) \in Nat /\ Len(w) >= 1 /\ Len(a) = Len(w) - 1 /\ Head(w) = w[1]
      /\ \A i \in 1..Len(a) : a[i] = w[i + 1] /\ i + 1 \in 1..Len(w)
  BY TakeMessage
<1> HIDE DEF a
<1>2. \A i \in 1..Len(a) : PutOf(a, i, k) <=> PutOf(w, i + 1, k)
  BY <1>1 DEF PutOf
<1>3. \A i \in 1..Len(w) : i # 1 => i - 1 \in 1..Len(a) /\ (i - 1) + 1 = i
  BY <1>1
<1>4. PutOf(w, 1, k) <=> Head(w).key = k
  BY <1>1 DEF PutOf
<1>5. CASE row = t /\ \A i \in 1..Len(w) : ~PutOf(w, i, k)
  <2>1. Head(w).key # k
    BY <1>1, <1>4, <1>5
  <2>2. \A i \in 1..Len(a) : ~PutOf(a, i, k)
    BY <1>1, <1>2, <1>5
  <2> QED
    BY <1>5, <2>1, <2>2 DEF WillHold, a
<1>6. ASSUME NEW i \in 1..Len(w), PutOf(w, i, k), w[i].translation = t,
             \A j \in 1..Len(w) : PutOf(w, j, k) => j <= i
      PROVE  WillHold(a, written, k, t)
  <2>1. CASE i = 1
    <3>1. written = t
      BY <1>1, <1>4, <1>6, <2>1
    <3>2. \A j \in 1..Len(a) : ~PutOf(a, j, k)
      BY <1>1, <1>2, <1>6, <2>1
    <3> QED
      BY <3>1, <3>2 DEF WillHold
  <2>2. CASE i # 1
    <3>1. i - 1 \in 1..Len(a) /\ PutOf(a, i - 1, k) /\ a[i - 1].translation = t
      BY <1>1, <1>2, <1>3, <1>6, <2>2
    <3>2. \A j \in 1..Len(a) : PutOf(a, j, k) => j <= i - 1
      <4> SUFFICES ASSUME NEW j \in 1..Len(a), PutOf(a, j, k) PROVE j <= i - 1
        OBVIOUS
      <4>1. j + 1 \in 1..Len(w) /\ PutOf(w, j + 1, k)
        BY <1>1, <1>2
      <4>2. j + 1 <= i
        BY <4>1, <1>6
      <4> QED
        BY <1>1, <4>2
    <3> QED
      BY <3>1, <3>2 DEF WillHold
  <2> QED
    BY <2>1, <2>2
<1> QED
  BY <1>5, <1>6 DEF WillHold, a

-----------------------------------------------------------------------------
(* Types                                                                   *)

Flags == clear_in_progress \in BOOLEAN /\ prune_in_progress \in BOOLEAN

\* The table that is loaded and the empty one are tables.
LEMMA Tables ==
  ASSUME TypeOK
  PROVE  Loaded \in [Key -> 0..MaxPuts] /\ Nothing \in [Key -> 0..MaxPuts]
BY CacheAssumption DEF TypeOK, Loaded, Nothing, Row

\* The invariant holds at first.
LEMMA InitIInv == Init => IInv
<1> SUFFICES ASSUME Init PROVE IInv
  OBVIOUS
<1> USE CacheAssumption
<1>1. TypeOK
  <2>1. memory \in [Key -> 0..MaxPuts] /\ db \in [Key -> Row] /\ writes \in Seq(CacheWrite)
    BY EmptySeq DEF Init, Nothing, NoRow, Row
  <2>2. Flags
    BY DEF Init, Flags
  <2>3. puts_since_prune \in 0..(PutsPerPrune - 1)
    BY DEF Init
  <2> QED
    BY <2>1, <2>2, <2>3 DEF Init, TypeOK, Flags
<1>2. Queue
  BY NoMessage DEF Init, Queue
<1>3. Newer
  BY DEF Init, Newer, Nothing, NoRow
<1>4. Matches
  BY DEF Init, Matches, WillHold, Nothing, NoRow
<1>5. Bounded
  <2>1. Rows = {} /\ InTable = {}
    BY DEF Init, Rows, InTable, Nothing, NoRow
  <2> QED
    BY <2>1, FS_EmptySet DEF Init, Bounded
<1> QED
  BY <1>1, <1>2, <1>3, <1>4, <1>5 DEF IInv

(* The message at the head, once the writer is known to receive it.        *)
LEMMA Received ==
  ASSUME TypeOK, Queue, NEW kind, Receive(kind)
  PROVE  /\ writer = "idle" /\ writes # << >>
         /\ Head(writes) \in CacheWrite /\ Head(writes) = writes[1]
         /\ 1 \in 1..Len(writes)
         /\ Head(writes).kind = kind
         /\ writes' = Tail(writes) /\ writes' \in Seq(CacheWrite)
BY TakeMessage DEF TypeOK, Queue, Receive

\* A request to prune is a message.
LEMMA PruneMessageType == TypeOK => PruneMessage \in CacheWrite
BY DEF TypeOK, PruneMessage, CacheWrite

\* A put is a message.
LEMMA PutMessageType ==
  ASSUME TypeOK, NEW k \in Key, Put(k)
  PROVE  /\ puts + 1 \in 1..MaxPuts
         /\ [kind |-> "Put", key |-> k, translation |-> puts + 1, updated_at |-> now]
              \in CacheWrite
<1>1. puts + 1 \in 1..MaxPuts
  BY CacheAssumption DEF TypeOK, Put, Insert
<1> QED
  BY <1>1 DEF TypeOK, CacheWrite

\* Every action keeps the types.
LEMMA StepTypeOK == TypeOK /\ Queue /\ [Next]_vars => TypeOK'
<1> SUFFICES ASSUME TypeOK, Queue, [Next]_vars PROVE TypeOK'
  OBVIOUS
<1> USE CacheAssumption DEF tableVars, fileVars, boundVars, vars
<1>1. CASE FinishOpen
  <2>1. Flags'
    BY <1>1 DEF FinishOpen, TypeOK, Flags
  <2>2. writes' \in Seq(CacheWrite)
    <3>1. writes' = writes \/ writes' = Append(writes, PruneMessage)
      BY <1>1 DEF FinishOpen
    <3>2. writes \in Seq(CacheWrite) /\ PruneMessage \in CacheWrite
      BY PruneMessageType DEF TypeOK
    <3> QED
      BY <3>1, <3>2
  <2> QED
    BY <1>1, <2>1, <2>2 DEF FinishOpen, TypeOK, Flags
<1>2. CASE Clear
  <2> DEFINE m == [kind |-> "Clear", puts |-> puts]
  <2>1. m \in CacheWrite
    BY DEF TypeOK, CacheWrite
  <2>2. Flags'
    BY <1>2 DEF Clear, TypeOK, Flags
  <2>3. memory' \in [Key -> 0..MaxPuts]
    BY <1>2, Tables DEF Clear, TypeOK
  <2>5. writes' \in Seq(CacheWrite)
    <3>1. writes' = writes \/ writes' = Append(writes, m)
      BY <1>2 DEF Clear
    <3> HIDE DEF m
    <3> QED
      BY <2>1, <3>1 DEF TypeOK
  <2>4. puts_since_prune' \in 0..(PutsPerPrune - 1)
    BY <1>2 DEF Clear
  <2> QED
    BY <1>2, <2>2, <2>3, <2>4, <2>5 DEF Clear, TypeOK, Flags
<1>3. ASSUME NEW k \in Key, Put(k) PROVE TypeOK'
  <2> DEFINE m == [kind |-> "Put", key |-> k, translation |-> puts + 1, updated_at |-> now]
  <2>1. m \in CacheWrite /\ puts + 1 \in 1..MaxPuts
    BY <1>3, PutMessageType
  <2>2. writes' \in Seq(CacheWrite)
    <3>1. CASE writes' = Append(writes, m)
      BY <2>1, <3>1 DEF TypeOK
    <3>2. CASE writes' = writes \o <<m, PruneMessage>>
      BY <2>1, <3>2, PruneMessageType DEF TypeOK
    <3> QED
      BY <1>3, <3>1, <3>2 DEF Put, Insert, TypeOK
  <2>3. puts_since_prune' \in 0..(PutsPerPrune - 1)
    BY <1>3 DEF Put, Insert, PruneDue, TypeOK
  <2>5. Flags'
    BY <1>3 DEF Put, Insert, TypeOK, Flags
  <2>4. memory' \in [Key -> 0..MaxPuts] /\ puts' \in 0..MaxPuts
    BY <1>3, <2>1 DEF Put, Insert, TypeOK
  <2> QED
    BY <1>3, <2>2, <2>3, <2>4, <2>5 DEF Put, Insert, TypeOK, Flags
<1>4. CASE StartWriter
  <2>1. writes' \in Seq(CacheWrite)
    BY <1>4, EmptySeq DEF StartWriter, TypeOK
  <2>2. errors' \in 0..MaxErrors
    BY <1>4 DEF StartWriter, TypeOK, Fail
  <2> QED
    BY <1>4, <2>1, <2>2 DEF StartWriter, TypeOK
<1>5. CASE WritePut
  <2>1. [translation |-> Head(writes).translation,
         updated_at |-> Head(writes).updated_at] \in Row
    BY <1>5, Received, MessageFields DEF WritePut, Row
  <2>2. db' \in [Key -> Row]
    BY <1>5, <2>1 DEF WritePut, TypeOK
  <2>3. errors' \in 0..MaxErrors
    BY <1>5 DEF WritePut, TypeOK, Fail
  <2> QED
    BY <1>5, <2>2, <2>3, Received DEF WritePut, TypeOK
<1>6. CASE DeleteRows
  <2>1. Head(writes).puts \in 0..MaxPuts
    BY <1>6, Received, MessageFields DEF DeleteRows
  <2>2. NoRow \in Row
    BY CacheAssumption DEF NoRow, Row
  <2>3. db' \in [Key -> Row]
    BY <1>6, <2>2 DEF DeleteRows, TypeOK
  <2>4. cleared' \in 0..MaxPuts
    BY <1>6, <2>1 DEF DeleteRows, TypeOK
  <2>5. errors' \in 0..MaxErrors
    BY <1>6 DEF DeleteRows, TypeOK, Fail
  <2> QED
    BY <1>6, <2>3, <2>4, <2>5, Received DEF DeleteRows, TypeOK
<1>7. CASE FinishClear
  <2>1. Flags'
    BY <1>7 DEF FinishClear, TypeOK, Flags
  <2> QED
    BY <1>7, <2>1, Tables DEF FinishClear, TypeOK, Flags
<1>8. CASE PruneRows
  <2>1. db' \in [Key -> Row]
    BY <1>8 DEF PruneRows, TypeOK, NoRow, Row
  <2>2. errors' \in 0..MaxErrors
    BY <1>8 DEF PruneRows, TypeOK, Fail
  <2> QED
    BY <1>8, <2>1, <2>2, Received DEF PruneRows, TypeOK
<1>9. CASE ReloadMemory
  <2>1. Flags'
    BY <1>9 DEF ReloadMemory, TypeOK, Flags
  <2>2. memory' \in [Key -> 0..MaxPuts] /\ errors' \in 0..MaxErrors
    BY <1>9, Tables DEF ReloadMemory, TypeOK, Fail
  <2> QED
    BY <1>9, <2>1, <2>2 DEF ReloadMemory, TypeOK, Flags
<1>10. CASE Restart
  <2>1. Flags'
    BY <1>10 DEF Restart, Flags
  <2>2. memory' \in [Key -> 0..MaxPuts] /\ writes' \in Seq(CacheWrite)
    BY <1>10, Tables, EmptySeq DEF Restart
  <2>3. puts_since_prune' \in 0..(PutsPerPrune - 1)
    BY <1>10 DEF Restart
  <2> QED
    BY <1>10, <2>1, <2>2, <2>3 DEF Restart, TypeOK, Flags
<1>11. CASE Tick
  BY <1>11 DEF Tick, TypeOK
<1>12. CASE UNCHANGED vars
  BY <1>12 DEF TypeOK
<1> QED
  BY <1>1, <1>2, <1>3, <1>4, <1>5, <1>6, <1>7, <1>8, <1>9, <1>10, <1>11, <1>12
  DEF Next, UiThread, WriterThread

-----------------------------------------------------------------------------
(* The channel and the flags                                               *)

\* Every action keeps the rules of the channel.
LEMMA StepQueue == TypeOK /\ Queue /\ [Next]_vars => Queue'
<1> SUFFICES ASSUME TypeOK, Queue, [Next]_vars PROVE Queue'
  OBVIOUS
<1> USE DEF tableVars, fileVars, boundVars, vars
<1>0. writes \in Seq(CacheWrite) /\ InOrder(writes)
  BY DEF TypeOK, Queue
<1>1. CASE FinishOpen
  <2>1. writes = << >> /\ ~clear_in_progress /\ ~prune_in_progress /\ ui' = "idle"
        /\ UNCHANGED <<clear_in_progress, writer, errors>>
    BY <1>1 DEF FinishOpen, Queue
  <2>2. CASE CanSend
    <3>1. PruneMessage \in CacheWrite /\ PruneMessage.kind = "Prune"
      BY PruneMessageType DEF PruneMessage
    <3>2. writes' = Append(writes, PruneMessage) /\ prune_in_progress'
      BY <1>1, <2>2 DEF FinishOpen
    <3>5. ~Holds(writes, "Clear") /\ ~Holds(writes, "Prune")
      BY <2>1, NoMessage
    <3>3. InOrder(writes') /\ ~Holds(writes', "Clear")
      BY <1>0, <3>1, <3>2, <3>5, SendMessage
    <3>4. writer # "clearing" /\ writer # "pruning"
      BY <2>1 DEF Queue
    <3> QED
      BY <2>1, <3>2, <3>3, <3>4 DEF Queue
  <2>3. CASE ~CanSend
    BY <1>1, <2>3 DEF FinishOpen, Queue
  <2> QED
    BY <2>2, <2>3
<1>2. CASE Clear
  <2>1. ui = "idle" /\ UNCHANGED <<prune_in_progress, ui, writer, errors>>
    BY <1>2 DEF Clear
  <2>2. CASE UNCHANGED <<writes, clear_in_progress>>
    BY <2>1, <2>2 DEF Queue
  <2>3. CASE ~(UNCHANGED <<writes, clear_in_progress>>)
    <3> DEFINE m == [kind |-> "Clear", puts |-> puts]
    <3>1. m \in CacheWrite /\ m.kind = "Clear"
      BY DEF TypeOK, CacheWrite
    <3>2. /\ ~clear_in_progress /\ clear_in_progress' /\ CanSend
          /\ writes' = Append(writes, m)
      BY <1>2, <2>3 DEF Clear
    <3>3. ~Holds(writes, "Clear") /\ writer # "clearing"
      BY <3>2 DEF Queue
    <3> HIDE DEF m
    <3>4. InOrder(writes') /\ \A kind : Holds(writes', kind) <=> Holds(writes, kind) \/ "Clear" = kind
      BY <1>0, <3>1, <3>2, <3>3, SendMessage
    <3> QED
      BY <2>1, <3>2, <3>3, <3>4 DEF Queue
  <2> QED
    BY <2>2, <2>3
<1>3. ASSUME NEW k \in Key, Put(k) PROVE Queue'
  <2> DEFINE m == [kind |-> "Put", key |-> k, translation |-> puts + 1, updated_at |-> now]
  <2>1. m \in CacheWrite /\ m.kind = "Put"
    BY <1>3, PutMessageType
  <2>2. /\ ui = "idle" /\ ~clear_in_progress /\ ~prune_in_progress
        /\ UNCHANGED <<clear_in_progress, ui, writer, errors>>
    BY <1>3 DEF Put, Insert
  <2>3. /\ writer # "clearing" /\ writer # "pruning"
        /\ ~Holds(writes, "Clear") /\ ~Holds(writes, "Prune")
    BY <2>2 DEF Queue
  <2>4. \/ UNCHANGED <<writes, prune_in_progress>>
        \/ writes' = Append(writes, m) /\ UNCHANGED prune_in_progress
        \/ writes' = writes \o <<m, PruneMessage>> /\ prune_in_progress' = TRUE
    BY <1>3 DEF Put, Insert
  <2> HIDE DEF m
  <2>5. CASE UNCHANGED <<writes, prune_in_progress>>
    BY <2>2, <2>5 DEF Queue
  <2>6. /\ Append(writes, m) \in Seq(CacheWrite) /\ InOrder(Append(writes, m))
        /\ ~Holds(Append(writes, m), "Clear") /\ ~Holds(Append(writes, m), "Prune")
    BY <1>0, <2>1, <2>3, SendMessage
  <2>7. CASE writes' = Append(writes, m) /\ UNCHANGED prune_in_progress
    BY <2>2, <2>3, <2>6, <2>7 DEF Queue
  <2>8. CASE writes' = writes \o <<m, PruneMessage>> /\ prune_in_progress' = TRUE
    <3>1. PruneMessage \in CacheWrite /\ PruneMessage.kind = "Prune"
      BY PruneMessageType DEF PruneMessage
    <3>2. writes' = Append(Append(writes, m), PruneMessage)
      BY <1>0, <2>1, <2>8, <3>1, TwoMessages
    <3>3. InOrder(writes') /\ ~Holds(writes', "Clear")
      BY <2>6, <3>1, <3>2, SendMessage
    <3>4. prune_in_progress'
      BY <2>8
    <3> QED
      BY <2>2, <2>3, <3>3, <3>4 DEF Queue
  <2> QED
    BY <2>4, <2>5, <2>7, <2>8
<1>4. CASE StartWriter
  <2>1. CASE writer' = "idle" /\ UNCHANGED <<writes, errors>>
    BY <1>4, <2>1 DEF StartWriter, Queue
  <2>2. CASE writer' = "failed" /\ writes' = << >> /\ Fail
    <3>1. errors' > 0
      BY <2>2 DEF TypeOK, Fail
    <3> QED
      BY <1>4, <2>2, <3>1, NoMessage DEF StartWriter, Queue
  <2> QED
    BY <1>4, <2>1, <2>2 DEF StartWriter
<1>5. ASSUME NEW kind, Receive(kind),
             UNCHANGED <<clear_in_progress, prune_in_progress, ui>>,
             \/ kind = "Put" /\ writer' = "idle"
             \/ kind = "Clear" /\ writer' = "clearing"
             \/ kind = "Prune" /\ writer' = "pruning"
      PROVE  Queue'
  <2>1. /\ writer = "idle" /\ writes # << >> /\ Head(writes).kind = kind
        /\ writes' = Tail(writes)
    BY <1>5 DEF Receive
  <2>2. /\ InOrder(writes') /\ Holds(writes, kind)
        /\ \A other : Holds(writes', other) => Holds(writes, other)
        /\ kind = "Clear" => writes' = << >>
        /\ kind = "Prune" => ~Holds(writes', "Put") /\ ~Holds(writes', "Prune")
    BY <1>0, <2>1, TakeMessage
  <2>3. kind = "Clear" => clear_in_progress
    BY <2>2 DEF Queue
  <2>4. kind = "Prune" => prune_in_progress
    BY <2>2 DEF Queue
  <2>5. ui # "opening"
    BY <2>1 DEF Queue
  <2> QED
    BY <1>5, <2>2, <2>3, <2>4, <2>5 DEF Queue
<1>6. CASE WritePut
  BY <1>5, <1>6 DEF WritePut, Receive
<1>7. CASE DeleteRows
  BY <1>5, <1>7 DEF DeleteRows
<1>8. CASE PruneRows
  BY <1>5, <1>8 DEF PruneRows
<1>9. CASE FinishClear
  <2>1. writes' = << >>
    BY <1>9 DEF FinishClear, Queue
  <2> QED
    BY <1>9, <2>1, NoMessage DEF FinishClear, Queue
<1>10. CASE ReloadMemory
  <2>1. ~Holds(writes', "Prune") /\ ui # "opening"
    BY <1>10 DEF ReloadMemory, Queue
  <2> QED
    BY <1>10, <2>1 DEF ReloadMemory, Queue
<1>11. CASE Restart
  <2>1. writes' = << >> /\ ~clear_in_progress' /\ ~prune_in_progress'
        /\ writer' \in {"starting", "none"} /\ (ui' = "opening" => writer' = "starting")
    BY <1>11 DEF Restart
  <2> QED
    BY <2>1, NoMessage DEF Queue
<1>12. CASE Tick
  BY <1>12 DEF Tick, Queue
<1>13. CASE UNCHANGED vars
  BY <1>13 DEF Queue
<1> QED
  BY <1>1, <1>2, <1>3, <1>4, <1>6, <1>7, <1>8, <1>9, <1>10, <1>11, <1>12, <1>13
  DEF Next, UiThread, WriterThread

-----------------------------------------------------------------------------
(* What was cleared is older than everything that is left                  *)

\* Every action keeps what is in the file, under way or readable newer than what was cleared.
LEMMA StepNewer == TypeOK /\ Queue /\ Newer /\ [Next]_vars => Newer'
<1> SUFFICES ASSUME TypeOK, Queue, Newer, [Next]_vars PROVE Newer'
  OBVIOUS
<1> USE DEF tableVars, fileVars, boundVars, vars
<1>0. /\ writes \in Seq(CacheWrite) /\ InOrder(writes) /\ Len(writes) \in Nat
      /\ puts \in Nat /\ cleared \in Nat /\ cleared <= puts
      /\ db \in [Key -> Row] /\ memory \in [Key -> 0..MaxPuts]
  BY CacheAssumption DEF TypeOK, Queue, Newer
<1> DEFINE PutsNewer(w, limit) ==
              \A i \in 1..Len(w) : w[i].kind = "Put" => w[i].translation > limit
           ClearsOlder(w, limit) ==
              \A i \in 1..Len(w) : w[i].kind = "Clear" => w[i].puts <= limit
<1>a. PutsNewer(writes, cleared) /\ ClearsOlder(writes, puts)
  BY DEF Newer
<1>b. /\ PutsNewer(<< >>, cleared) /\ ClearsOlder(<< >>, puts)
  OBVIOUS
<1>c. \A k \in Key : Loaded[k] # 0 => Loaded[k] > cleared
  BY DEF Newer, Loaded
<1>d. \A k \in Key : Nothing[k] = 0
  BY DEF Nothing
<1>e. ASSUME NEW m \in CacheWrite,
             m.kind = "Put" => m.translation > cleared, m.kind = "Clear" => m.puts <= puts
      PROVE  PutsNewer(Append(writes, m), cleared) /\ ClearsOlder(Append(writes, m), puts)
  <2>1. \A i \in 1..Len(Append(writes, m)) :
           \/ i \in 1..Len(writes) /\ Append(writes, m)[i] = writes[i]
           \/ Append(writes, m)[i] = m
    BY <1>0
  <2> QED
    BY <1>a, <1>e, <2>1
<1>1. CASE FinishOpen
  <2>1. PruneMessage \in CacheWrite /\ PruneMessage.kind = "Prune"
    BY PruneMessageType DEF PruneMessage
  <2>2. writes' = writes \/ writes' = Append(writes, PruneMessage)
    BY <1>1 DEF FinishOpen
  <2>3. PutsNewer(writes', cleared) /\ ClearsOlder(writes', puts)
    BY <1>a, <1>e, <2>1, <2>2
  <2> QED
    BY <1>1, <2>3 DEF FinishOpen, Newer
<1>2. CASE Clear
  <2> DEFINE m == [kind |-> "Clear", puts |-> puts]
  <2>1. m \in CacheWrite /\ m.kind = "Clear" /\ m.puts <= puts
    BY <1>0 DEF TypeOK, CacheWrite
  <2>2. writes' = writes \/ writes' = Append(writes, m)
    BY <1>2 DEF Clear
  <2> HIDE DEF m
  <2>3. PutsNewer(writes', cleared) /\ ClearsOlder(writes', puts)
    <3>1. PutsNewer(Append(writes, m), cleared) /\ ClearsOlder(Append(writes, m), puts)
      BY <1>e, <2>1
    <3> QED
      BY <1>a, <2>2, <3>1
  <2>4. ~clear_in_progress' => \A k \in Key : memory'[k] # 0 => memory'[k] > cleared
    BY <1>2, <1>d DEF Clear, Newer
  <2> QED
    BY <1>2, <2>3, <2>4 DEF Clear, Newer
<1>3. ASSUME NEW k \in Key, Put(k) PROVE Newer'
  <2> DEFINE m == [kind |-> "Put", key |-> k, translation |-> puts + 1, updated_at |-> now]
  <2>1. m \in CacheWrite /\ m.kind = "Put" /\ m.translation = puts + 1
    BY <1>3, PutMessageType
  <2>2. \/ writes' = writes
        \/ writes' = Append(writes, m)
        \/ writes' = writes \o <<m, PruneMessage>>
    BY <1>3 DEF Put, Insert
  <2> HIDE DEF m
  <2>3. PruneMessage \in CacheWrite /\ PruneMessage.kind = "Prune"
    BY PruneMessageType DEF PruneMessage
  <2>4. /\ UNCHANGED <<clear_in_progress, db, cleared>> /\ ~clear_in_progress
        /\ puts' = puts + 1 /\ memory' = [memory EXCEPT ![k] = puts + 1]
    BY <1>3 DEF Put, Insert
  <2>5. PutsNewer(writes', cleared) /\ ClearsOlder(writes', puts')
    <3>1. \A i \in 1..Len(writes') :
             \/ i \in 1..Len(writes) /\ writes'[i] = writes[i]
             \/ writes'[i] = m \/ writes'[i] = PruneMessage
      <4>1. CASE writes' = writes
        BY <4>1
      <4>2. CASE writes' = Append(writes, m)
        BY <1>0, <2>1, <4>2
      <4>3. CASE writes' = writes \o <<m, PruneMessage>>
        BY <1>0, <2>1, <2>3, <4>3
      <4> QED
        BY <2>2, <4>1, <4>2, <4>3
    <3>2. PutsNewer(writes', cleared)
      BY <1>0, <1>a, <2>1, <2>3, <3>1
    <3>3. \A i \in 1..Len(writes) : writes[i] \in CacheWrite
      BY <1>0
    <3>4. ClearsOlder(writes', puts')
      <4> SUFFICES ASSUME NEW i \in 1..Len(writes'), writes'[i].kind = "Clear"
                   PROVE  writes'[i].puts <= puts'
        OBVIOUS
      <4>1. i \in 1..Len(writes) /\ writes'[i] = writes[i]
        BY <2>1, <2>3, <3>1
      <4>2. writes[i].puts <= puts /\ writes[i].puts \in 0..MaxPuts
        BY <1>a, <3>3, <4>1, MessageFields
      <4> QED
        BY <1>0, <2>4, <4>1, <4>2, CacheAssumption
    <3> QED
      BY <3>2, <3>4
  <2>6. \A key \in Key : memory'[key] # 0 => memory'[key] > cleared
    BY <1>0, <2>4 DEF Newer
  <2> QED
    BY <1>0, <2>4, <2>5, <2>6 DEF Newer
<1>4. CASE StartWriter
  <2>1. PutsNewer(writes', cleared) /\ ClearsOlder(writes', puts)
    BY <1>4, <1>a, <1>b DEF StartWriter
  <2> QED
    BY <1>4, <2>1 DEF StartWriter, Newer
<1>5. ASSUME NEW kind, Receive(kind)
      PROVE  PutsNewer(writes', cleared) /\ ClearsOlder(writes', puts)
  BY <1>0, <1>a, <1>5, TakeMessage DEF Receive
<1>6. CASE WritePut
  <2>1. Head(writes).translation > cleared
    BY <1>6, <1>a, Received DEF WritePut
  <2>2. \A k \in Key : db'[k].translation # 0 => db'[k].translation > cleared
    BY <1>0, <1>6, <2>1 DEF WritePut, Newer
  <2>3. PutsNewer(writes', cleared) /\ ClearsOlder(writes', puts)
    BY <1>5, <1>6 DEF WritePut
  <2> QED
    BY <1>6, <2>2, <2>3 DEF WritePut, Newer
<1>7. CASE DeleteRows
  <2>1. writes' = << >> /\ clear_in_progress /\ Head(writes).puts <= puts
    <3>1. Head(writes).kind = "Clear" /\ writes # << >> /\ writes' = Tail(writes)
          /\ Head(writes) = writes[1] /\ 1 \in 1..Len(writes)
      BY <1>7, Received DEF DeleteRows, Receive
    <3>2. writes' = << >> /\ Holds(writes, "Clear")
      BY <1>0, <3>1, TakeMessage
    <3>3. clear_in_progress
      BY <3>2 DEF Queue
    <3>4. Head(writes).puts <= puts
      BY <1>a, <3>1
    <3> QED
      BY <3>2, <3>3, <3>4
  <2>2. cleared' <= puts
    BY <1>0, <1>7, <2>1 DEF DeleteRows
  <2>3. \A k \in Key : db'[k].translation # 0 => db'[k].translation > cleared'
    BY <1>7 DEF DeleteRows, Newer, NoRow
  <2>4. \A limit : PutsNewer(writes', limit) /\ ClearsOlder(writes', limit)
    BY <2>1
  <2>5. puts' = puts /\ clear_in_progress' = clear_in_progress
    BY <1>7 DEF DeleteRows
  <2> QED
    BY <2>1, <2>2, <2>3, <2>4, <2>5 DEF Newer
<1>8. CASE PruneRows
  <2>1. \A k \in Key : db'[k].translation # 0 => db'[k].translation > cleared
    BY <1>8 DEF PruneRows, Newer, NoRow
  <2>2. PutsNewer(writes', cleared) /\ ClearsOlder(writes', puts)
    BY <1>5, <1>8 DEF PruneRows
  <2> QED
    BY <1>8, <2>1, <2>2 DEF PruneRows, Newer
<1>9. CASE FinishClear
  BY <1>9, <1>d DEF FinishClear, Newer
<1>10. CASE ReloadMemory
  <2>1. \A k \in Key : memory'[k] # 0 => memory'[k] > cleared
    BY <1>10, <1>c, <1>d DEF ReloadMemory
  <2> QED
    BY <1>10, <2>1 DEF ReloadMemory, Newer
<1>11. CASE Restart
  <2>1. \A k \in Key : memory'[k] # 0 => memory'[k] > cleared
    BY <1>11, <1>c, <1>d DEF Restart
  <2>2. PutsNewer(writes', cleared) /\ ClearsOlder(writes', puts)
    BY <1>11, <1>b DEF Restart
  <2> QED
    BY <1>11, <2>1, <2>2 DEF Restart, Newer
<1>12. CASE Tick
  BY <1>12 DEF Tick, Newer
<1>13. CASE UNCHANGED vars
  BY <1>13 DEF Newer
<1> QED
  BY <1>1, <1>2, <1>3, <1>4, <1>6, <1>7, <1>8, <1>9, <1>10, <1>11, <1>12, <1>13
  DEF Next, UiThread, WriterThread

-----------------------------------------------------------------------------
(* The table and the file                                                  *)

FileHolds == \A k \in Key : WillHold(writes, db[k].translation, k, memory[k])

\* Every action keeps the table what the file will hold.
LEMMA StepMatches == TypeOK /\ Queue /\ Matches /\ [Next]_vars => Matches'
<1> SUFFICES ASSUME TypeOK, Queue, Matches, [Next]_vars PROVE Matches'
  OBVIOUS
<1> USE DEF tableVars, fileVars, boundVars, vars
<1>0. /\ writes \in Seq(CacheWrite) /\ InOrder(writes) /\ Len(writes) \in Nat
      /\ errors \in Nat
      /\ db \in [Key -> Row] /\ memory \in [Key -> 0..MaxPuts]
  BY CacheAssumption DEF TypeOK, Queue
<1>a. /\ errors = 0 /\ writer # "none" /\ ~clear_in_progress /\ ~prune_in_progress
           => FileHolds
      /\ errors = 0 /\ writer = "clearing" => \A k \in Key : db[k].translation = 0
      /\ writer = "failed" => errors # 0
  BY <1>0 DEF Matches, FileHolds, Queue
<1>b. ASSUME NEW w, ~Holds(w, "Put")
      PROVE  \A k \in Key : \A row : WillHold(w, row, k, row)
  BY <1>b DEF Holds, WillHold, PutOf
<1>1. CASE FinishOpen
  <2>1. CASE CanSend
    <3>1. prune_in_progress' /\ UNCHANGED <<db, errors, writer>>
      BY <1>1, <2>1 DEF FinishOpen
    <3> QED
      BY <3>1, <1>a DEF Matches
  <2>2. CASE ~CanSend
    BY <1>1, <2>2 DEF FinishOpen, Matches
  <2> QED
    BY <2>1, <2>2
<1>2. CASE Clear
  <2>1. UNCHANGED <<prune_in_progress, db, errors, writer>>
    BY <1>2 DEF Clear
  <2>2. CASE UNCHANGED <<memory, writes, clear_in_progress>>
    BY <2>1, <2>2 DEF Matches
  <2>3. CASE clear_in_progress'
    BY <2>1, <2>3, <1>a DEF Matches
  <2>4. CASE writer = "failed"
    BY <2>1, <2>4, <1>a DEF Matches
  <2>5. \/ UNCHANGED <<memory, writes, clear_in_progress>>
        \/ clear_in_progress' \/ writer = "failed"
    BY <1>2 DEF Clear, CanSend
  <2> QED
    BY <2>2, <2>3, <2>4, <2>5
<1>3. ASSUME NEW k \in Key, Put(k) PROVE Matches'
  <2> DEFINE m == [kind |-> "Put", key |-> k, translation |-> puts + 1, updated_at |-> now]
  <2>1. m \in CacheWrite /\ m.kind = "Put" /\ m.key = k /\ m.translation = puts + 1
    BY <1>3, PutMessageType
  <2>2. \/ ~CanSend
        \/ writes' = Append(writes, m)
        \/ prune_in_progress'
    BY <1>3 DEF Put, Insert
  <2> HIDE DEF m
  <2>3. /\ UNCHANGED <<db, errors, writer, clear_in_progress>>
        /\ ~clear_in_progress /\ ~prune_in_progress
        /\ memory' = [memory EXCEPT ![k] = puts + 1]
    BY <1>3 DEF Put, Insert
  <2>4. writer # "clearing"
    BY <2>3 DEF Queue
  <2>5. CASE ~CanSend
    <3>1. writer = "none" \/ errors # 0
      BY <2>5, <1>a DEF CanSend
    <3> QED
      BY <2>3, <2>4, <3>1 DEF Matches
  <2>6. CASE writes' = Append(writes, m)
    <3> SUFFICES ASSUME errors = 0, writer # "none"
                 PROVE  FileHolds'
      BY <2>3, <2>4 DEF Matches, FileHolds
    <3> SUFFICES ASSUME NEW key \in Key
                 PROVE  WillHold(writes', db'[key].translation, key, memory'[key])
      BY DEF FileHolds
    <3>1. WillHold(writes, db[key].translation, key, memory[key])
      BY <1>a, <2>3 DEF FileHolds
    <3>2. ~Holds(writes, "Clear") /\ ~Holds(writes, "Prune")
      BY <2>3 DEF Queue
    <3>3. WillHold(Append(writes, m), db[key].translation, key,
                   IF m.key = key THEN m.translation ELSE memory[key])
      BY <1>0, <2>1, <3>1, <3>2, SendPut
    <3>4. memory'[key] = IF m.key = key THEN m.translation ELSE memory[key]
      BY <1>0, <2>1, <2>3
    <3> QED
      BY <2>3, <2>6, <3>3, <3>4
  <2>7. CASE prune_in_progress'
    BY <2>3, <2>4, <2>7 DEF Matches
  <2> QED
    BY <2>2, <2>5, <2>6, <2>7
<1>4. ASSUME Fail PROVE errors' # 0
  BY <1>0, <1>4 DEF Fail
<1>5. CASE StartWriter
  <2>1. CASE writer' = "idle" /\ UNCHANGED <<writes, errors>>
    BY <1>5, <2>1 DEF StartWriter, Matches
  <2>2. CASE Fail
    BY <1>4, <2>2 DEF Matches
  <2> QED
    BY <1>5, <2>1, <2>2 DEF StartWriter
<1>6. CASE WritePut
  <2>1. CASE Fail
    BY <1>4, <2>1 DEF Matches
  <2>2. CASE /\ db' = [db EXCEPT ![Head(writes).key] =
                           [translation |-> Head(writes).translation,
                            updated_at |-> Head(writes).updated_at]]
             /\ UNCHANGED errors
    <3>1. /\ writes # << >> /\ Head(writes).kind = "Put" /\ Head(writes).key \in Key
          /\ writes' = Tail(writes) /\ writer = "idle"
      BY <1>6, Received, MessageFields DEF WritePut, Receive
    <3>2. UNCHANGED <<memory, writer, clear_in_progress, prune_in_progress>>
      BY <1>6 DEF WritePut
    <3> SUFFICES ASSUME errors = 0, ~clear_in_progress, ~prune_in_progress
                 PROVE  FileHolds'
      BY <2>2, <3>1, <3>2 DEF Matches, FileHolds
    <3> SUFFICES ASSUME NEW k \in Key
                 PROVE  WillHold(writes', db'[k].translation, k, memory'[k])
      BY DEF FileHolds
    <3>3. WillHold(writes, db[k].translation, k, memory[k])
      BY <1>a, <3>1 DEF FileHolds
    <3>4. WillHold(Tail(writes),
                   IF Head(writes).key = k THEN Head(writes).translation
                                           ELSE db[k].translation, k, memory[k])
      BY <1>0, <3>1, <3>3, WriteRow
    <3>5. db'[k].translation = IF Head(writes).key = k THEN Head(writes).translation
                                                       ELSE db[k].translation
      BY <1>0, <2>2, <3>1
    <3> QED
      BY <3>1, <3>2, <3>4, <3>5
  <2> QED
    BY <1>6, <2>1, <2>2 DEF WritePut
<1>7. CASE DeleteRows
  <2>1. writer = "idle" /\ Head(writes).kind = "Clear" /\ writes # << >>
    BY <1>7, Received DEF DeleteRows
  <2>2. Holds(writes, "Clear")
    BY <1>0, <2>1, TakeMessage
  <2>3. clear_in_progress'
    BY <1>7, <2>2 DEF DeleteRows, Queue
  <2>4. CASE Fail
    BY <1>4, <2>4 DEF Matches
  <2>5. CASE db' = [k \in Key |-> NoRow]
    <3>1. \A k \in Key : db'[k].translation = 0
      BY <2>5 DEF NoRow
    <3> QED
      BY <2>3, <3>1 DEF Matches
  <2> QED
    BY <1>7, <2>4, <2>5 DEF DeleteRows
<1>8. CASE PruneRows
  <2>1. writer = "idle" /\ Head(writes).kind = "Prune" /\ writes # << >>
    BY <1>8, Received DEF PruneRows
  <2>2. Holds(writes, "Prune")
    BY <1>0, <2>1, TakeMessage
  <2>3. prune_in_progress' /\ writer' = "pruning"
    BY <1>8, <2>2 DEF PruneRows, Queue
  <2> QED
    BY <2>3 DEF Matches
<1>9. CASE FinishClear
  <2>1. writer = "clearing" /\ writer' = "idle" /\ memory' = Nothing
        /\ UNCHANGED <<db, writes, errors>>
    BY <1>9 DEF FinishClear
  <2>2. writes = << >>
    BY <2>1 DEF Queue
  <2>3. errors' = 0 => FileHolds'
    BY <1>a, <1>b, <2>1, <2>2, NoMessage DEF FileHolds, Nothing
  <2> QED
    BY <2>1, <2>3 DEF Matches, FileHolds
<1>10. CASE ReloadMemory
  <2>1. CASE Fail
    BY <1>4, <2>1 DEF Matches
  <2>2. CASE memory' = Loaded
    <3>1. writer = "pruning" /\ writer' = "idle" /\ UNCHANGED <<db, writes>>
      BY <1>10 DEF ReloadMemory
    <3>2. ~Holds(writes, "Put")
      BY <3>1 DEF Queue
    <3>3. FileHolds'
      BY <1>b, <2>2, <3>1, <3>2 DEF FileHolds, Loaded
    <3> QED
      BY <3>1, <3>3 DEF Matches, FileHolds
  <2> QED
    BY <1>10, <2>1, <2>2 DEF ReloadMemory
<1>11. CASE Restart
  <2>1. CASE writer' = "none"
    BY <2>1 DEF Matches
  <2>2. CASE writer' = "starting" /\ memory' = Loaded
    <3>1. writes' = << >> /\ UNCHANGED db
      BY <1>11 DEF Restart
    <3>2. FileHolds'
      BY <1>b, <2>2, <3>1, NoMessage DEF FileHolds, Loaded
    <3> QED
      BY <2>2, <3>2 DEF Matches, FileHolds
  <2> QED
    BY <1>11, <2>1, <2>2 DEF Restart
<1>12. CASE Tick
  BY <1>12 DEF Tick, Matches
<1>13. CASE UNCHANGED vars
  BY <1>13 DEF Matches
<1> QED
  BY <1>1, <1>2, <1>3, <1>5, <1>6, <1>7, <1>8, <1>9, <1>10, <1>11, <1>12, <1>13
  DEF Next, UiThread, WriterThread

-----------------------------------------------------------------------------
(* The size of the table                                                   *)

\* The smaller of two numbers is not above the first.
LEMMA MinOfTwo ==
  ASSUME NEW m \in Nat, NEW n \in Nat
  PROVE  Min({m, n}) <= m
<1>1. \E x \in {m, n} : \A y \in {m, n} : x =< y
  OBVIOUS
<1>2. Min({m, n}) \in {m, n} /\ \A y \in {m, n} : Min({m, n}) =< y
  BY <1>1 DEF Min
<1> QED
  BY <1>2

(* A prune keeps at most MaxRows rows.                                     *)
LEMMA KeptIsBounded ==
  ASSUME IsFiniteSet(Rows), NEW asked, NEW keep \in Kept(asked)
  PROVE  keep \subseteq Rows /\ Cardinality(keep) <= MaxRows
<1> DEFINE fresh == {k \in Rows : db[k].updated_at >= asked - Ttl}
<1>1. keep \subseteq fresh /\ Cardinality(keep) = Min({MaxRows, Cardinality(fresh)})
  BY DEF Kept
<1>2. IsFiniteSet(fresh)
  BY FS_Subset
<1>3. Cardinality(fresh) \in Nat /\ MaxRows \in Nat
  BY <1>2, FS_CardinalityType, CacheAssumption
<1> HIDE DEF fresh
<1>4. Cardinality(keep) <= MaxRows
  BY <1>1, <1>3, MinOfTwo
<1> QED
  BY <1>1, <1>4 DEF fresh

TableIsBounded ==
    errors = 0 /\ ui = "idle" /\ writer # "none" /\ ~prune_in_progress
        => Cardinality(InTable)
              <= MaxRows + (IF clear_in_progress THEN 0 ELSE puts_since_prune)

\* Every action keeps the number of rows within the limit and the puts since the prune.
LEMMA StepBounded == TypeOK /\ Queue /\ Bounded /\ [Next]_vars => Bounded'
<1> SUFFICES ASSUME TypeOK, Queue, Bounded, [Next]_vars PROVE Bounded'
  OBVIOUS
<1> USE DEF tableVars, fileVars, boundVars, vars
<1>0. /\ errors \in Nat /\ puts \in Nat /\ puts_since_prune \in Nat /\ MaxRows \in Nat
      /\ puts_since_prune' \in Nat
      /\ db \in [Key -> Row] /\ memory \in [Key -> 0..MaxPuts]
      /\ IsFiniteSet(Rows) /\ IsFiniteSet(InTable)
      /\ Cardinality(InTable) \in Nat /\ Cardinality(Rows) \in Nat
  <2>1. TypeOK'
    BY StepTypeOK
  <2> QED
    BY <2>1, CacheAssumption, FS_CardinalityType DEF TypeOK, Bounded
<1>a. /\ errors = 0 /\ writer = "pruning" => Cardinality(Rows) <= MaxRows
      /\ TableIsBounded
      /\ writer = "failed" => errors # 0
  BY <1>0 DEF Bounded, TableIsBounded, Queue
<1>b. ASSUME Fail PROVE errors' # 0
  BY <1>0, <1>b DEF Fail
<1>c. IsFiniteSet({}) /\ Cardinality({}) = 0
  BY FS_EmptySet
<1>d. memory' = memory => InTable' = InTable
  BY DEF InTable
<1>e. db' = db => Rows' = Rows
  BY DEF Rows
<1>f. memory' = Nothing => InTable' = {}
  BY DEF InTable, Nothing
<1>g. memory' = Loaded => InTable' = Rows
  BY DEF InTable, Loaded, Rows
<1>1. CASE FinishOpen
  <2>1. ui = "opening" /\ UNCHANGED <<memory, db, writer, errors>>
    BY <1>1 DEF FinishOpen
  <2>2. writer # "none" /\ writer # "pruning"
    BY <2>1 DEF Queue
  <2>3. prune_in_progress' \/ writer = "failed"
    BY <1>1, <2>2 DEF FinishOpen, CanSend
  <2> QED
    BY <1>0, <1>a, <1>d, <1>e, <2>1, <2>2, <2>3 DEF Bounded
<1>2. CASE Clear
  <2>1. UNCHANGED <<db, writer, errors, ui, prune_in_progress>> /\ puts_since_prune' = 0
    BY <1>2 DEF Clear
  <2>2. CASE memory' = Nothing
    <3>1. TableIsBounded'
      BY <1>0, <1>c, <1>f, <2>1, <2>2 DEF TableIsBounded
    <3> QED
      BY <1>0, <1>a, <1>c, <1>e, <1>f, <2>1, <2>2, <3>1 DEF Bounded, TableIsBounded
  <2>3. CASE writer = "none" /\ UNCHANGED memory
    BY <1>0, <1>d, <1>e, <2>1, <2>3 DEF Bounded
  <2>4. CASE clear_in_progress /\ UNCHANGED <<memory, clear_in_progress>>
    BY <1>0, <1>a, <1>d, <1>e, <2>1, <2>4 DEF Bounded, TableIsBounded
  <2> QED
    BY <1>2, <2>2, <2>3, <2>4 DEF Clear
<1>3. ASSUME NEW k \in Key, Put(k) PROVE Bounded'
  <2>1. /\ UNCHANGED <<db, writer, errors, ui, clear_in_progress>>
        /\ ~clear_in_progress /\ ~prune_in_progress
        /\ memory' = [memory EXCEPT ![k] = puts + 1]
    BY <1>3 DEF Put, Insert
  <2>2. InTable' = InTable \cup {k}
    BY <1>0, <2>1 DEF InTable
  <2>3. IsFiniteSet(InTable') /\ Cardinality(InTable') <= Cardinality(InTable) + 1
    <3>1. IsFiniteSet(InTable \cup {k})
      BY <1>0, FS_AddElement
    <3>2. Cardinality(InTable \cup {k}) =
             IF k \in InTable THEN Cardinality(InTable) ELSE Cardinality(InTable) + 1
      BY <1>0, FS_AddElement
    <3> QED
      BY <1>0, <2>2, <3>1, <3>2
  <2>4. writer # "pruning"
    BY <2>1 DEF Queue
  <2>5. \/ writer = "none" \/ writer = "failed"
        \/ puts_since_prune' = puts_since_prune + 1 \/ prune_in_progress'
    BY <1>3 DEF Put, Insert, CanSend
  <2>6. TableIsBounded'
    <3> SUFFICES ASSUME errors = 0, ui = "idle", writer # "none", ~prune_in_progress'
                 PROVE  Cardinality(InTable') <= MaxRows + puts_since_prune'
      BY <2>1 DEF TableIsBounded
    <3>1. Cardinality(InTable) <= MaxRows + puts_since_prune
      BY <1>a, <2>1 DEF TableIsBounded
    <3>2. puts_since_prune' = puts_since_prune + 1
      BY <1>a, <2>5
    <3>3. Cardinality(InTable') \in Nat
      BY <2>3, FS_CardinalityType
    <3> QED
      BY <1>0, <2>3, <3>1, <3>2, <3>3
  <2> QED
    BY <1>0, <1>e, <2>1, <2>3, <2>4, <2>6 DEF Bounded, TableIsBounded
<1>4. CASE StartWriter
  <2>1. CASE writer' = "idle" /\ UNCHANGED errors
    BY <1>0, <1>4, <1>a, <1>d, <1>e, <2>1 DEF StartWriter, Bounded, TableIsBounded
  <2>2. CASE Fail
    BY <1>0, <1>4, <1>b, <1>d, <1>e, <2>2 DEF StartWriter, Bounded
  <2> QED
    BY <1>4, <2>1, <2>2 DEF StartWriter
<1>5. CASE WritePut
  <2>1. UNCHANGED <<memory, clear_in_progress, prune_in_progress, puts_since_prune, ui,
                    writer>> /\ writer = "idle"
    BY <1>5 DEF WritePut, Receive
  <2>2. CASE Fail /\ UNCHANGED db
    BY <1>0, <1>b, <1>d, <1>e, <2>1, <2>2 DEF Bounded
  <2>3. CASE /\ db' = [db EXCEPT ![Head(writes).key] =
                           [translation |-> Head(writes).translation,
                            updated_at |-> Head(writes).updated_at]]
             /\ UNCHANGED errors
    <3>1. Rows' \subseteq Rows \cup {Head(writes).key}
      BY <1>0, <2>3 DEF Rows
    <3>2. IsFiniteSet(Rows \cup {Head(writes).key})
      BY <1>0, FS_AddElement
    <3>3. IsFiniteSet(Rows')
      BY <3>1, <3>2, FS_Subset
    <3> QED
      BY <1>0, <1>a, <1>d, <2>1, <2>3, <3>3 DEF Bounded, TableIsBounded
  <2> QED
    BY <1>5, <2>2, <2>3 DEF WritePut
<1>6. CASE DeleteRows
  <2>1. UNCHANGED <<memory, clear_in_progress, prune_in_progress, puts_since_prune, ui>>
        /\ writer = "idle" /\ writer' = "clearing"
    BY <1>6 DEF DeleteRows, Receive
  <2>2. CASE Fail /\ UNCHANGED db
    BY <1>0, <1>b, <1>d, <1>e, <2>1, <2>2 DEF Bounded
  <2>3. CASE db' = [k \in Key |-> NoRow] /\ UNCHANGED errors
    <3>1. Rows' = {}
      BY <2>3 DEF Rows, NoRow
    <3> QED
      BY <1>0, <1>a, <1>c, <1>d, <2>1, <2>3, <3>1 DEF Bounded, TableIsBounded
  <2> QED
    BY <1>6, <2>2, <2>3 DEF DeleteRows
<1>7. CASE FinishClear
  <2>1. writer' = "idle" /\ memory' = Nothing /\ UNCHANGED <<db, puts_since_prune>>
    BY <1>7 DEF FinishClear
  <2>2. TableIsBounded'
    <3>1. Cardinality(InTable') = 0
      BY <1>c, <1>f, <2>1
    <3>2. MaxRows \in Nat /\ puts_since_prune' \in Nat
      BY <1>0
    <3>3. 0 <= MaxRows /\ 0 <= MaxRows + 0 /\ 0 <= MaxRows + puts_since_prune'
      <4>1. \A m, n \in Nat : 0 <= m /\ 0 <= m + 0 /\ 0 <= m + n
        OBVIOUS
      <4> QED
        BY <3>2, <4>1
    <3>4. CASE clear_in_progress'
      BY <3>1, <3>3, <3>4 DEF TableIsBounded
    <3>5. CASE ~clear_in_progress'
      BY <3>1, <3>3, <3>5 DEF TableIsBounded
    <3> QED
      BY <3>4, <3>5
  <2> QED
    BY <1>0, <1>c, <1>e, <1>f, <2>1, <2>2 DEF Bounded, TableIsBounded
<1>8. CASE PruneRows
  <2>1. UNCHANGED <<memory, prune_in_progress>> /\ writer' = "pruning"
    BY <1>8 DEF PruneRows
  <2>2. prune_in_progress'
    <3>1. Head(writes).kind = "Prune" /\ writes # << >>
      BY <1>8, Received DEF PruneRows
    <3>2. Holds(writes, "Prune")
      BY <3>1, TakeMessage DEF TypeOK, Queue
    <3> QED
      BY <2>1, <3>2 DEF Queue
  <2>3. CASE Fail /\ UNCHANGED db
    BY <1>0, <1>b, <1>d, <1>e, <2>1, <2>3 DEF Bounded
  <2>4. CASE \E keep \in Kept(Head(writes).now) :
                db' = [k \in Key |-> IF k \in keep THEN db[k] ELSE NoRow]
    <3>1. PICK keep \in Kept(Head(writes).now) :
             db' = [k \in Key |-> IF k \in keep THEN db[k] ELSE NoRow]
      BY <2>4
    <3>2. keep \subseteq Rows /\ Cardinality(keep) <= MaxRows
      BY <1>0, KeptIsBounded
    <3>3. Rows' = keep
      BY <3>1, <3>2 DEF Rows, NoRow
    <3>4. IsFiniteSet(Rows')
      BY <1>0, <3>2, <3>3, FS_Subset
    <3> QED
      BY <1>0, <1>d, <2>1, <2>2, <3>2, <3>3, <3>4 DEF Bounded
  <2> QED
    BY <1>8, <2>3, <2>4 DEF PruneRows
<1>9. CASE ReloadMemory
  <2>1. writer = "pruning" /\ writer' = "idle"
        /\ UNCHANGED <<db, puts_since_prune, clear_in_progress, ui>>
    BY <1>9 DEF ReloadMemory
  <2>2. CASE memory' = Nothing /\ Fail
    BY <1>0, <1>b, <1>c, <1>e, <1>f, <2>1, <2>2 DEF Bounded
  <2>3. CASE memory' = Loaded /\ UNCHANGED errors
    <3>1. TableIsBounded'
      BY <1>0, <1>a, <1>g, <2>1, <2>3 DEF TableIsBounded
    <3> QED
      BY <1>0, <1>e, <1>g, <2>1, <2>3, <3>1 DEF Bounded, TableIsBounded
  <2> QED
    BY <1>9, <2>2, <2>3 DEF ReloadMemory
<1>10. CASE Restart
  <2>1. UNCHANGED db /\ writer' # "pruning" /\ (ui' = "idle" => writer' = "none")
        /\ memory' \in {Loaded, Nothing}
    BY <1>10 DEF Restart
  <2>2. IsFiniteSet(InTable')
    BY <1>0, <1>c, <1>f, <1>g, <2>1
  <2> QED
    BY <1>0, <1>e, <2>1, <2>2 DEF Bounded
<1>11. CASE Tick
  BY <1>0, <1>11, <1>d, <1>e DEF Tick, Bounded
<1>12. CASE UNCHANGED vars
  BY <1>0, <1>12, <1>d, <1>e DEF Bounded
<1> QED
  BY <1>1, <1>2, <1>3, <1>4, <1>5, <1>6, <1>7, <1>8, <1>9, <1>10, <1>11, <1>12
  DEF Next, UiThread, WriterThread

-----------------------------------------------------------------------------
(* The theorems                                                            *)

\* Every action keeps the invariant,
LEMMA StepIInv == IInv /\ [Next]_vars => IInv'
BY StepTypeOK, StepQueue, StepNewer, StepMatches, StepBounded DEF IInv

\* and so it always holds.
LEMMA Invariant == Spec => []IInv
BY InitIInv, StepIInv, PTL DEF Spec

(* The last put of a key in the channel is what the file will hold.        *)
LEMMA EventualIsHeld ==
  ASSUME TypeOK, NEW k \in Key, NEW t, WillHold(writes, db[k].translation, k, t)
  PROVE  Eventual(k) = t
<1> DEFINE queued == {i \in DOMAIN writes : writes[i].kind = "Put" /\ writes[i].key = k}
<1>1. DOMAIN writes = 1..Len(writes) /\ Len(writes) \in Nat
  BY DEF TypeOK
<1>2. queued = {i \in 1..Len(writes) : PutOf(writes, i, k)}
  BY <1>1 DEF PutOf
<1>3. Eventual(k) = IF queued = {} THEN db[k].translation ELSE writes[Max(queued)].translation
  BY DEF Eventual
<1> HIDE DEF queued
<1>4. CASE db[k].translation = t /\ \A i \in 1..Len(writes) : ~PutOf(writes, i, k)
  BY <1>2, <1>3, <1>4
<1>5. ASSUME NEW i \in 1..Len(writes), PutOf(writes, i, k), writes[i].translation = t,
             \A j \in 1..Len(writes) : PutOf(writes, j, k) => j <= i
      PROVE  Eventual(k) = t
  <2>1. i \in queued /\ \A y \in queued : i >= y
    BY <1>1, <1>2, <1>5
  <2>2. Max(queued) \in queued /\ \A y \in queued : Max(queued) >= y
    BY <2>1 DEF Max
  <2>3. Max(queued) = i
    <3>1. i \in Nat /\ Max(queued) \in Nat
      BY <1>1, <1>2, <2>1, <2>2
    <3>2. i >= Max(queued) /\ Max(queued) >= i
      BY <2>1, <2>2
    <3> QED
      BY <3>1, <3>2
  <2> QED
    BY <1>3, <1>5, <2>1, <2>3
<1> QED
  BY <1>4, <1>5 DEF WillHold

(* The state of the cache keeps its type.                                  *)
THEOREM TypeCorrect == Spec => []TypeOK
<1>1. IInv => TypeOK
  BY DEF IInv
<1> QED
  BY <1>1, Invariant, PTL

(* clear(): what it deleted is never returned again, whatever was queued,  *)
(* pruned, failed or restarted in between.                                 *)
THEOREM ClearedIsGone == Spec => []NothingClearedReturns
<1>1. IInv => NothingClearedReturns
  BY DEF IInv, Newer, NothingClearedReturns, Get
<1> QED
  BY <1>1, Invariant, PTL

(* put() and the prune of the writer: as long as no statement fails, the   *)
(* table is what the file will hold, and a prune bounds it.                *)
THEOREM TableAgrees == Spec => []TableFollowsFile
<1>1. IInv => TableMatchesFile
  <2> SUFFICES ASSUME IInv, errors = 0, writer # "none", ~clear_in_progress,
                      ~prune_in_progress, NEW k \in Key
               PROVE  memory[k] = Eventual(k)
    BY DEF TableMatchesFile
  <2>1. WillHold(writes, db[k].translation, k, memory[k])
    BY DEF IInv, Matches
  <2> QED
    BY <2>1, EventualIsHeld DEF IInv
<1>2. IInv => TableBounded
  <2> SUFFICES ASSUME IInv, errors = 0, ui = "idle", writer # "none", ~prune_in_progress
               PROVE  Cardinality(InTable) < MaxRows + PutsPerPrune
    BY DEF TableBounded, InTable
  <2>1. Cardinality(InTable)
            <= MaxRows + (IF clear_in_progress THEN 0 ELSE puts_since_prune)
    BY DEF IInv, Bounded
  <2>2. /\ Cardinality(InTable) \in Nat /\ MaxRows \in Nat
        /\ PutsPerPrune \in Nat \ {0} /\ puts_since_prune \in 0..(PutsPerPrune - 1)
    BY CacheAssumption, FS_CardinalityType DEF IInv, Bounded, TypeOK
  <2> QED
    BY <2>1, <2>2
<1>3. IInv => TableFollowsFile
  BY <1>1, <1>2 DEF TableFollowsFile
<1> QED
  BY <1>3, Invariant, PTL
=============================================================================
