----------------------- MODULE FileTranslation_proofs -----------------------
(***************************************************************************)
(* File translation, for any jobs, files, blank lines, batches and bounds: *)
(* an output path holds what it held before or a complete file, no thread  *)
(* is forgotten, and the progress window ends on the total it announced.   *)
(* Files have a number of lines and a batch has at least one line; the     *)
(* theorems say so, and assume nothing else of the bounds.                 *)
(***************************************************************************)
EXTENDS FileTranslation, SequenceTheorems, TLAPS

Counted == FileLines \in Seq(Nat) /\ BatchLines \in Nat \ {0}

Places == {"none", "preflight", "pool", "file", "read", "lines", "window", "write", "drop",
           "finished", "exited"}
InBatch == {"lines", "window", "write"}
InFile == InBatch \cup {"read"}
TaskStates == Results \cup {"spawned", "running", "marked cancelled"}
Stored == Results \cup {"old", "no file"}
Outcomes == {"none", "ok", "cancelled", "error"}

Types ==
    /\ worker \in [Jobs -> [pc : Places, file : 0..Len(FileLines), line : Nat]]
    /\ task \in [Jobs -> Seq(TaskStates)]
    /\ temp \in [Jobs -> Seq(Stored)]
    /\ cancelled \in [Jobs -> BOOLEAN]
    /\ result \in [Jobs -> Outcomes]
    /\ output \in [Files -> Seq(Stored)]
    /\ workers \subseteq Jobs

\* s is the first n lines of file f, each in its place and kept if it is blank.
Lines(s, f, n) ==
    /\ Len(s) = n
    /\ \A k \in 1..n : s[k] \in Results /\ (s[k] = "original" <=> <<f, k>> \in Blank)

\* The temporary file holds the lines written so far, ...
TempInv(j) ==
    worker[j].pc \in InFile =>
        /\ worker[j].file \in Files
        /\ worker[j].line <= FileLines[worker[j].file]
        /\ Lines(temp[j], worker[j].file, worker[j].line)

\* ... the batch those that follow, as far as the file goes, ...
TaskInv(j) ==
    /\ worker[j].pc \in InBatch =>
         /\ worker[j].line + Len(task[j]) <= FileLines[worker[j].file]
         /\ Len(task[j]) > 0
         /\ \A k \in 1..Len(task[j]) :
              (task[j][k] = "original" <=> <<worker[j].file, worker[j].line + k>> \in Blank)
    /\ worker[j].pc = "lines" =>
         \A k \in 1..Len(task[j]) : task[j][k] = "marked cancelled" => cancelled[j]
    /\ worker[j].pc = "window" =>
         \A k \in 1..Len(task[j]) : task[j][k] \in {"original", "spawned"}
    /\ worker[j].pc = "write" =>
         \A k \in 1..Len(task[j]) : task[j][k] \in Results

\* ... and the files before are written, all of them in the end.
WrittenInv(j) ==
    /\ worker[j].pc \in {"none", "preflight", "pool"} => worker[j].file = 0
    /\ worker[j].pc = "file" => \A f \in 1..worker[j].file : output[f] # Old
    /\ worker[j].pc \in InFile => \A f \in 1..(worker[j].file - 1) : output[f] # Old
    /\ result[j] = "ok" => \A f \in Files : output[f] # Old

JobInv(j) == TempInv(j) /\ TaskInv(j) /\ WrittenInv(j)

OutputInv == \A f \in Files : output[f] # Old => Lines(output[f], f, FileLines[f])

IInv == Types /\ (\A j \in Jobs : JobInv(j)) /\ OutputInv /\ NoThreadForgotten

-----------------------------------------------------------------------------
\* A function on the first n numbers is a sequence of length n.
LEMMA FunctionIsSeq ==
    ASSUME NEW S, NEW n \in Nat, NEW q \in [1..n -> S] PROVE q \in Seq(S) /\ Len(q) = n
  OBVIOUS

\* An element of a sequence is replaced.
LEMMA PutInSeq ==
    ASSUME NEW S, NEW q \in Seq(S), NEW i \in 1..Len(q), NEW e \in S
    PROVE  /\ [q EXCEPT ![i] = e] \in Seq(S) /\ Len([q EXCEPT ![i] = e]) = Len(q)
           /\ \A m \in 1..Len(q) : [q EXCEPT ![i] = e][m] = IF m = i THEN e ELSE q[m]
<1>1. q \in [1..Len(q) -> S] /\ Len(q) \in Nat
  BY LenProperties
<1>2. [q EXCEPT ![i] = e] \in [1..Len(q) -> S]
  BY <1>1
<1> QED
  BY <1>1, <1>2, FunctionIsSeq

\* What is complete is not what was there before.
LEMMA LinesAreNew == ASSUME NEW s, NEW f, NEW n \in Nat, Lines(s, f, n) PROVE s # Old
<1>1. CASE n = 0
  BY <1>1 DEF Lines, Old
<1>2. CASE n # 0
  <2>1. 1 \in 1..n
    BY <1>2
  <2>2. s[1] # "old" /\ Old[1] = "old"
    BY <2>1 DEF Lines, Old, Results
  <2> QED
    BY <2>2
<1> QED
  BY <1>1, <1>2

\* What stands for no file and for an earlier one.
LEMMA StoredTypes == NoFile \in Seq(Stored) /\ Old \in Seq(Stored) /\ << >> \in Seq(Stored)
<1>1. "no file" \in Stored /\ "old" \in Stored
  BY DEF Stored
<1> HIDE DEF Stored
<1>2. \A e \in Stored : <<e>> \in Seq(Stored)
  OBVIOUS
<1> QED
  BY <1>1, <1>2, EmptySeq DEF NoFile, Old

\* No job runs at first.
LEMMA FilesInit == Counted /\ Init => IInv
<1> SUFFICES ASSUME Counted, Init PROVE IInv
  OBVIOUS
<1>1. << >> \in Seq(TaskStates) /\ Len(FileLines) \in Nat
  BY DEF Counted
<1>2. Types
  BY <1>1, StoredTypes DEF Init, Types, Places, Outcomes
<1>3. \A j \in Jobs : worker[j].pc = "none" /\ worker[j].file = 0 /\ result[j] = "none"
  BY DEF Init
<1>4. \A j \in Jobs : JobInv(j)
  BY <1>3 DEF JobInv, TempInv, TaskInv, WrittenInv, InFile, InBatch
<1>5. OutputInv
  BY DEF Init, OutputInv
<1> QED
  BY <1>2, <1>3, <1>4, <1>5 DEF IInv, NoThreadForgotten

\* What other jobs and the user interface do keeps what a job has.
LEMMA OthersKeep ==
    ASSUME NEW j \in Jobs, JobInv(j),
           worker'[j] = worker[j], task'[j] = task[j], temp'[j] = temp[j],
           result'[j] = result[j], cancelled[j] => cancelled'[j],
           Types, \A f \in Files : output[f] # Old => output'[f] # Old
    PROVE  JobInv(j)'
<1>1. TempInv(j)' /\ TaskInv(j)'
  BY DEF JobInv, TempInv, TaskInv
<1>2. WrittenInv(j)'
  BY DEF JobInv, WrittenInv, Types, Files, Places
<1> QED
  BY <1>1, <1>2 DEF JobInv

\* A step of the thread of one job, as far as the other jobs see it.
Alone(j) ==
    /\ \A i \in Jobs \ {j} : /\ worker'[i] = worker[i] /\ task'[i] = task[i]
                             /\ temp'[i] = temp[i] /\ result'[i] = result[i]
    /\ UNCHANGED <<cancelled, workers, service>>
    /\ worker[j].pc \notin {"none", "exited"}

\* Such a step keeps the invariant if it does for the job and the output.
LEMMA OneJob ==
    ASSUME IInv, NEW j \in Jobs, Alone(j), Types', JobInv(j)', OutputInv',
           \A f \in Files : output[f] # Old => output'[f] # Old
    PROVE  IInv'
<1>1. \A i \in Jobs \ {j} : JobInv(i)'
  BY OthersKeep DEF IInv, Alone
<1>2. NoThreadForgotten'
  BY DEF IInv, NoThreadForgotten, Alone, Types
<1> QED
  BY <1>1, <1>2 DEF IInv

\* The end of a job keeps it, if a success has written everything.
LEMMA FinishKeeps ==
    ASSUME IInv, NEW j \in Jobs, NEW sent, NEW r \in Outcomes, FinishAfter(j, sent, r),
           worker[j].pc \notin {"none", "exited"},
           r = "ok" => \A f \in Files : output[f] # Old
    PROVE  IInv'
<1>1. PICK pc \in {"finished", "drop"} :
         /\ worker' = [worker EXCEPT ![j].pc = pc]
         /\ result' = [result EXCEPT ![j] = r]
         /\ temp' = [temp EXCEPT ![j] = NoFile]
         /\ task' = [task EXCEPT ![j] = << >>]
         /\ UNCHANGED <<output, cancelled, workers, service>>
  BY DEF FinishAfter, Goto, uiVars
<1>2. << >> \in Seq(TaskStates) /\ NoFile \in Seq(Stored) /\ pc \in Places
  BY StoredTypes DEF Places
<1>3. Types'
  BY <1>1, <1>2 DEF IInv, Types
<1>4. Alone(j)
  BY <1>1 DEF Alone, IInv, Types
<1>5. worker'[j].pc = pc /\ result'[j] = r
  BY <1>1 DEF IInv, Types
<1>6. JobInv(j)'
  BY <1>1, <1>5 DEF JobInv, TempInv, TaskInv, WrittenInv, InFile, InBatch, Files
<1>7. OutputInv'
  BY <1>1 DEF IInv, OutputInv
<1> QED
  BY <1>1, <1>3, <1>4, <1>6, <1>7, OneJob

\* A step that only changes the batch of a job.
LEMMA BatchKeeps ==
    ASSUME IInv, NEW j \in Jobs, NEW t \in Seq(TaskStates), NEW pc \in InBatch,
           worker[j].pc \in InFile,
           worker' = [worker EXCEPT ![j].pc = pc], task' = [task EXCEPT ![j] = t],
           UNCHANGED <<temp, result, output, cancelled, workers, service>>,
           worker[j].line + Len(t) <= FileLines[worker[j].file], Len(t) > 0,
           \A k \in 1..Len(t) :
               /\ (t[k] = "original" <=> <<worker[j].file, worker[j].line + k>> \in Blank)
               /\ pc = "lines" => (t[k] = "marked cancelled" => cancelled[j])
               /\ pc = "window" => t[k] \in {"original", "spawned"}
               /\ pc = "write" => t[k] \in Results
    PROVE  IInv'
<1>1. /\ worker'[j].pc = pc /\ worker'[j].file = worker[j].file
      /\ worker'[j].line = worker[j].line
  BY DEF IInv, Types
<1>2. Types'
  BY DEF IInv, Types, InBatch, Places
<1>3. Alone(j)
  BY DEF Alone, IInv, Types, InFile, InBatch
<1>4. task'[j] = t
  BY DEF IInv, Types
<1>5. TempInv(j)'
  BY <1>1 DEF IInv, JobInv, TempInv
<1>6. TaskInv(j)'
  BY <1>1, <1>4 DEF TaskInv
<1>7. WrittenInv(j)'
  BY <1>1 DEF IInv, JobInv, WrittenInv, InBatch
<1>8. OutputInv'
  BY DEF IInv, OutputInv
<1> QED
  BY <1>2, <1>3, <1>5, <1>6, <1>7, <1>8, OneJob DEF JobInv

-----------------------------------------------------------------------------
\* Lines are translated, or given up, one batch at a time.
LEMMA StartBatchKeeps ==
    ASSUME Counted, IInv, NEW j \in Jobs, StartBatch(j) PROVE IInv'
<1>1. CASE Finish(j, "cancelled") \/ Finish(j, "error")
  BY <1>1, FinishKeeps DEF StartBatch, Finish, Outcomes
<1>2. CASE ~(Finish(j, "cancelled") \/ Finish(j, "error"))
  <2> DEFINE f == worker[j].file
             n == BatchCount(j)
             t == [k \in 1..n |-> IF IsBlank(j, k) THEN "original" ELSE "spawned"]
             pc == IF engine[j] = "http" THEN "lines" ELSE "window"
  <2>1. /\ worker[j].pc = "read" /\ LinesLeft(j) > 0
        /\ worker' = [worker EXCEPT ![j].pc = pc] /\ task' = [task EXCEPT ![j] = t]
        /\ UNCHANGED <<temp, result, output, cancelled, workers, service>>
    BY <1>2 DEF StartBatch, Goto, uiVars
  <2>2. /\ f \in Files /\ worker[j].line \in Nat /\ FileLines[f] \in Nat
    BY <2>1 DEF IInv, Types, JobInv, TempInv, InFile, Counted, Files
  <2>3. n \in Nat /\ n > 0 /\ worker[j].line + n <= FileLines[f]
    BY <2>1, <2>2 DEF BatchCount, LinesLeft, Counted
  <2>4. t \in Seq(TaskStates) /\ Len(t) = n
    <3> HIDE DEF n
    <3>1. "original" \in TaskStates /\ "spawned" \in TaskStates
      BY DEF TaskStates, Results
    <3>2. t \in [1..n -> TaskStates]
      BY <3>1
    <3> QED
      BY <2>3, <3>2
  <2>5. \A k \in 1..Len(t) :
          /\ (t[k] = "original" <=> <<worker[j].file, worker[j].line + k>> \in Blank)
          /\ t[k] \in {"original", "spawned"}
    <3> HIDE DEF n
    <3> QED
      BY <2>4 DEF IsBlank
  <2>6. pc \in InBatch /\ pc # "write"
    BY DEF InBatch
  <2> HIDE DEF t, n, pc
  <2> QED
    BY <2>1, <2>3, <2>4, <2>5, <2>6, BatchKeeps DEF InFile
<1> QED
  BY <1>1, <1>2

\* A line of a batch gets its permit, its mark or its result.
LEMMA LineKeeps ==
    ASSUME Counted, IInv, NEW j \in Jobs, NEW k \in DOMAIN task[j],
           StartLine(j, k) \/ EndLine(j, k)
    PROVE  IInv'
<1> DEFINE t(r) == [task[j] EXCEPT ![k] = r]
<1>1. worker[j].pc = "lines" /\ task[j][k] \in {"spawned", "running"}
  BY DEF StartLine, EndLine
<1>2. PICK r \in TaskStates :
        /\ task' = [task EXCEPT ![j] = t(r)] /\ (r = "marked cancelled" => cancelled[j])
        /\ r # "original"
  <2>1. {"marked cancelled", "running", "translated", "marked failed"} \subseteq TaskStates
    BY DEF TaskStates, Results
  <2> HIDE DEF t
  <2>2. \/ task' = [task EXCEPT ![j] = t("marked cancelled")] /\ cancelled[j]
        \/ \E r \in {"running", "translated", "marked failed"} :
             task' = [task EXCEPT ![j] = t(r)]
    BY DEF StartLine, EndLine, t
  <2> QED
    BY <2>1, <2>2
<1>3. task[j] \in Seq(TaskStates) /\ k \in 1..Len(task[j])
  <2>1. task[j] \in Seq(TaskStates)
    BY DEF IInv, Types
  <2> QED
    BY <2>1, LenProperties
<1>4. /\ t(r) \in Seq(TaskStates) /\ Len(t(r)) = Len(task[j])
      /\ \A i \in 1..Len(task[j]) : t(r)[i] = IF i = k THEN r ELSE task[j][i]
  <2> DEFINE q == task[j]
  <2>1. q \in Seq(TaskStates) /\ k \in 1..Len(q)
    BY <1>3
  <2> HIDE DEF q
  <2>2. /\ [q EXCEPT ![k] = r] \in Seq(TaskStates) /\ Len([q EXCEPT ![k] = r]) = Len(q)
        /\ \A i \in 1..Len(q) : [q EXCEPT ![k] = r][i] = IF i = k THEN r ELSE q[i]
    BY <2>1, PutInSeq
  <2> QED
    BY <2>2 DEF q
<1>5. /\ worker' = worker
      /\ UNCHANGED <<temp, result, output, cancelled, workers, service>>
  BY DEF StartLine, EndLine, uiVars
<1>6. worker' = [worker EXCEPT ![j].pc = "lines"]
  BY <1>1, <1>5 DEF IInv, Types
<1>7. /\ worker[j].line + Len(task[j]) <= FileLines[worker[j].file] /\ Len(task[j]) > 0
      /\ \A i \in 1..Len(task[j]) :
           /\ (task[j][i] = "original" <=> <<worker[j].file, worker[j].line + i>> \in Blank)
           /\ task[j][i] = "marked cancelled" => cancelled[j]
  BY <1>1 DEF IInv, JobInv, TaskInv, InBatch
<1> HIDE DEF t
<1>8. \A i \in 1..Len(t(r)) :
        /\ (t(r)[i] = "original" <=> <<worker[j].file, worker[j].line + i>> \in Blank)
        /\ t(r)[i] = "marked cancelled" => cancelled[j]
  BY <1>1, <1>2, <1>3, <1>4, <1>7
<1> QED
  BY <1>1, <1>2, <1>4, <1>5, <1>6, <1>7, <1>8, BatchKeeps DEF InBatch, InFile

\* A batch is written only when every line has its result: one that was marked as cancelled
\* belongs to a cancelled job.
LEMMA LinesDrainedKeeps ==
    ASSUME Counted, IInv, NEW j \in Jobs, LinesDrained(j) PROVE IInv'
<1>1. CASE cancelled[j]
  BY <1>1, FinishKeeps DEF LinesDrained, Finish, Outcomes
<1>2. CASE ~cancelled[j]
  <2>1. /\ worker[j].pc = "lines" /\ ~Pending(j)
        /\ worker' = [worker EXCEPT ![j].pc = "write"] /\ task' = task
        /\ UNCHANGED <<temp, result, output, cancelled, workers, service>>
    BY <1>2 DEF LinesDrained, Goto, uiVars
  <2>2. task[j] \in Seq(TaskStates) /\ task' = [task EXCEPT ![j] = task[j]]
    BY <2>1 DEF IInv, Types
  <2>3. /\ worker[j].line + Len(task[j]) <= FileLines[worker[j].file] /\ Len(task[j]) > 0
        /\ \A i \in 1..Len(task[j]) :
             /\ (task[j][i] = "original" <=> <<worker[j].file, worker[j].line + i>> \in Blank)
             /\ task[j][i] # "marked cancelled"
    BY <1>2, <2>1 DEF IInv, JobInv, TaskInv, InBatch
  <2>4. \A i \in 1..Len(task[j]) : task[j][i] \in Results
    <3> SUFFICES ASSUME NEW i \in 1..Len(task[j]) PROVE task[j][i] \in Results
      OBVIOUS
    <3>1. task[j][i] \in TaskStates /\ i \in DOMAIN task[j]
      BY <2>2
    <3>2. task[j][i] \notin {"spawned", "running"}
      BY <2>1, <3>1 DEF Pending
    <3> QED
      BY <2>3, <3>1, <3>2 DEF TaskStates
  <2> QED
    BY <2>1, <2>2, <2>3, <2>4, BatchKeeps DEF InBatch, InFile
<1> QED
  BY <1>1, <1>2

\* The helpers answer for the whole window.
LEMMA TranslateWindowKeeps ==
    ASSUME Counted, IInv, NEW j \in Jobs, TranslateWindow(j) PROVE IInv'
<1>1. CASE Finish(j, "error")
  BY <1>1, FinishKeeps DEF TranslateWindow, Finish, Outcomes
<1>2. CASE ~Finish(j, "error")
  <2> DEFINE t(r) == [k \in DOMAIN task[j] |-> IF task[j][k] = "spawned" THEN r ELSE task[j][k]]
  <2>1. PICK r \in {"translated", "marked failed"} : task' = [task EXCEPT ![j] = t(r)]
    BY <1>2 DEF TranslateWindow
  <2>2. /\ worker[j].pc = "window" /\ worker' = [worker EXCEPT ![j].pc = "write"]
        /\ UNCHANGED <<temp, result, output, cancelled, workers, service>>
    BY <1>2 DEF TranslateWindow, Goto, uiVars
  <2>3. /\ worker[j].line + Len(task[j]) <= FileLines[worker[j].file] /\ Len(task[j]) > 0
        /\ \A i \in 1..Len(task[j]) :
             /\ (task[j][i] = "original" <=> <<worker[j].file, worker[j].line + i>> \in Blank)
             /\ task[j][i] \in {"original", "spawned"}
    BY <2>2 DEF IInv, JobInv, TaskInv, InBatch
  <2>4. task[j] \in Seq(TaskStates)
    BY DEF IInv, Types
  <2>5. /\ r \in TaskStates /\ DOMAIN task[j] = 1..Len(task[j]) /\ Len(task[j]) \in Nat
        /\ \A i \in 1..Len(task[j]) : task[j][i] \in TaskStates
    BY <2>4, LenProperties DEF TaskStates, Results
  <2>6. /\ t(r) \in Seq(TaskStates) /\ Len(t(r)) = Len(task[j])
        /\ \A i \in 1..Len(task[j]) :
             t(r)[i] = (IF task[j][i] = "spawned" THEN r ELSE task[j][i])
    <3>1. t(r) \in [1..Len(task[j]) -> TaskStates]
      BY <2>5
    <3>2. t(r) \in Seq(TaskStates) /\ Len(t(r)) = Len(task[j])
      BY <2>5, <3>1, FunctionIsSeq
    <3> QED
      BY <2>5, <3>2
  <2> HIDE DEF t
  <2>7. \A i \in 1..Len(t(r)) :
          /\ (t(r)[i] = "original" <=> <<worker[j].file, worker[j].line + i>> \in Blank)
          /\ t(r)[i] \in Results
    BY <2>3, <2>6 DEF Results
  <2> QED
    BY <2>1, <2>2, <2>3, <2>6, <2>7, BatchKeeps DEF InBatch, InFile
<1> QED
  BY <1>1, <1>2

\* A line goes to the end of the temporary file, and the rest of the batch moves up.
LEMMA WriteLineKeeps ==
    ASSUME Counted, IInv, NEW j \in Jobs, WriteLine(j) PROVE IInv'
<1> DEFINE f == worker[j].file
           n == worker[j].line + 1
           s == temp[j] \o <<Head(task[j])>>
           t == Tail(task[j])
           pc == IF t = << >> THEN "read" ELSE "write"
<1>0. worker[j].pc = "write"
  BY DEF WriteLine
<1>1. CASE \E sent : FinishAfter(j, sent, "error") \/ FinishAfter(j, sent, "cancelled")
  BY <1>0, <1>1, FinishKeeps DEF Outcomes
<1>2. CASE ~\E sent : FinishAfter(j, sent, "error") \/ FinishAfter(j, sent, "cancelled")
  <2>1. /\ temp' = [temp EXCEPT ![j] = s] /\ task' = [task EXCEPT ![j] = t]
        /\ worker' = [worker EXCEPT ![j].line = n, ![j].pc = pc]
        /\ UNCHANGED <<result, output, cancelled, workers, service>>
    BY <1>2 DEF WriteLine, Written, uiVars
  <2>2. /\ worker'[j].pc = pc /\ worker'[j].file = f /\ worker'[j].line = n
        /\ temp'[j] = s /\ task'[j] = t
    BY <2>1 DEF IInv, Types
  <2>3. /\ f \in Files /\ worker[j].line \in Nat /\ FileLines[f] \in Nat
        /\ Lines(temp[j], f, worker[j].line)
        /\ temp[j] \in Seq(Stored) /\ task[j] \in Seq(TaskStates)
        /\ worker[j].line + Len(task[j]) <= FileLines[f] /\ Len(task[j]) > 0
        /\ \A k \in 1..Len(task[j]) :
             /\ (task[j][k] = "original" <=> <<f, worker[j].line + k>> \in Blank)
             /\ task[j][k] \in Results
    <3>1. /\ f \in Files /\ Lines(temp[j], f, worker[j].line)
          /\ worker[j].line + Len(task[j]) <= FileLines[f] /\ Len(task[j]) > 0
      BY <1>0 DEF IInv, JobInv, TempInv, TaskInv, InFile, InBatch
    <3>2. /\ worker[j].line \in Nat
          /\ temp[j] \in Seq(Stored) /\ task[j] \in Seq(TaskStates)
      BY DEF IInv, Types
    <3>3. FileLines[f] \in Nat
      BY <3>1 DEF Counted, Files
    <3>4. \A k \in 1..Len(task[j]) :
            /\ (task[j][k] = "original" <=> <<f, worker[j].line + k>> \in Blank)
            /\ task[j][k] \in Results
      BY <1>0 DEF IInv, JobInv, TaskInv, InBatch
    <3> QED
      BY <3>1, <3>2, <3>3, <3>4
  <2>4. /\ Head(task[j]) = task[j][1] /\ 1 \in 1..Len(task[j])
        /\ Head(task[j]) \in Results /\ Head(task[j]) \in Stored
    <3>1. Head(task[j]) = task[j][1] /\ 1 \in 1..Len(task[j])
      BY <2>3
    <3> QED
      BY <2>3, <3>1 DEF Stored
  <2>5. /\ t \in Seq(TaskStates) /\ Len(t) = Len(task[j]) - 1
        /\ \A k \in 1..Len(t) : t[k] = task[j][k + 1] /\ k + 1 \in 1..Len(task[j])
        /\ (t = << >> <=> Len(t) = 0)
    <3>1. t \in Seq(TaskStates) /\ Len(t) = Len(task[j]) - 1
      BY <2>3
    <3>2. \A k \in 1..Len(t) : t[k] = task[j][k + 1] /\ k + 1 \in 1..Len(task[j])
      BY <2>3, <3>1
    <3>3. t = << >> <=> Len(t) = 0
      <4> HIDE DEF t
      <4> QED
        BY <3>1, EmptySeq
    <3> QED
      BY <3>1, <3>2, <3>3
  <2>6. /\ s \in Seq(Stored) /\ Len(s) = n
        /\ \A k \in 1..(n - 1) : s[k] = temp[j][k]
        /\ s[n] = Head(task[j])
    <3> DEFINE h == <<Head(task[j])>>
    <3>1. h \in Seq(Stored) /\ Len(h) = 1 /\ h[1] = Head(task[j])
      BY <2>4
    <3>2. Len(temp[j]) = n - 1 /\ n \in Nat
      BY <2>3 DEF Lines
    <3> HIDE DEF h
    <3>3. /\ temp[j] \o h \in Seq(Stored) /\ Len(temp[j] \o h) = Len(temp[j]) + Len(h)
          /\ \A k \in 1..(n - 1) : (temp[j] \o h)[k] = temp[j][k]
          /\ (temp[j] \o h)[n] = h[1]
      <4>1. /\ temp[j] \in Seq(Stored) /\ Len(temp[j]) \in Nat
            /\ n \in 1..(Len(temp[j]) + Len(h)) /\ n - Len(temp[j]) = 1 /\ ~(n <= Len(temp[j]))
            /\ \A k \in 1..(n - 1) : k \in 1..(Len(temp[j]) + Len(h)) /\ k <= Len(temp[j])
        <5>1. temp[j] \in Seq(Stored) /\ Len(temp[j]) \in Nat
          BY <2>3, LenProperties
        <5> HIDE DEF n
        <5> QED
          BY <3>1, <3>2, <5>1
      <4> HIDE DEF n
      <4>2. /\ temp[j] \o h \in Seq(Stored) /\ Len(temp[j] \o h) = Len(temp[j]) + Len(h)
            /\ \A i \in 1..(Len(temp[j]) + Len(h)) : (temp[j] \o h)[i] =
                   IF i <= Len(temp[j]) THEN temp[j][i] ELSE h[i - Len(temp[j])]
        BY <3>1, <4>1, ConcatProperties
      <4> QED
        BY <4>1, <4>2
    <3> QED
      BY <3>1, <3>2, <3>3 DEF h
  <2>7. Lines(s, f, n)
    <3> SUFFICES ASSUME NEW k \in 1..n
                 PROVE  s[k] \in Results /\ (s[k] = "original" <=> <<f, k>> \in Blank)
      BY <2>6 DEF Lines
    <3>1. CASE k = n
      BY <2>3, <2>4, <2>6, <3>1
    <3>2. CASE k # n
      <4>1. k \in 1..worker[j].line
        BY <2>3, <3>2
      <4> QED
        BY <2>3, <2>6, <4>1 DEF Lines
    <3> QED
      BY <3>1, <3>2
  <2>8. pc \in {"read", "write"} /\ (pc = "write" => Len(t) > 0)
    BY <2>5
  <2>9. \A k \in 1..Len(t) : t[k] \in Results /\ (t[k] = "original" <=> <<f, n + k>> \in Blank)
    <3> SUFFICES ASSUME NEW k \in 1..Len(t)
                 PROVE  t[k] \in Results /\ (t[k] = "original" <=> <<f, n + k>> \in Blank)
      OBVIOUS
    <3>1. worker[j].line + (k + 1) = n + k
      BY <2>3
    <3> QED
      BY <2>3, <2>5, <3>1
  <2>10. n \in Nat /\ n <= FileLines[f] /\ n + Len(t) <= FileLines[f]
    BY <2>3, <2>5
  <2> HIDE DEF s, t, pc, n
  <2>11. Types'
    <3>1. pc \in Places
      BY <2>8 DEF Places
    <3>2. /\ worker' \in [Jobs -> [pc : Places, file : 0..Len(FileLines), line : Nat]]
          /\ task' \in [Jobs -> Seq(TaskStates)] /\ temp' \in [Jobs -> Seq(Stored)]
      <4>1. /\ worker \in [Jobs -> [pc : Places, file : 0..Len(FileLines), line : Nat]]
            /\ task \in [Jobs -> Seq(TaskStates)] /\ temp \in [Jobs -> Seq(Stored)]
        BY DEF IInv, Types
      <4>2. worker' \in [Jobs -> [pc : Places, file : 0..Len(FileLines), line : Nat]]
        BY <2>1, <2>10, <3>1, <4>1
      <4>3. task' \in [Jobs -> Seq(TaskStates)]
        BY <2>1, <2>5, <4>1
      <4>4. temp' \in [Jobs -> Seq(Stored)]
        BY <2>1, <2>6, <4>1
      <4> QED
        BY <4>2, <4>3, <4>4
    <3> QED
      BY <2>1, <3>2 DEF IInv, Types
  <2>12. Alone(j)
    BY <1>0, <2>1 DEF Alone, IInv, Types
  <2>13. TempInv(j)'
    BY <2>2, <2>3, <2>7, <2>10 DEF TempInv
  <2>14. TaskInv(j)'
    BY <2>2, <2>8, <2>9, <2>10 DEF TaskInv, InBatch
  <2>15. WrittenInv(j)'
    BY <1>0, <2>1, <2>2, <2>8 DEF IInv, JobInv, WrittenInv, InFile, InBatch
  <2>16. OutputInv'
    BY <2>1 DEF IInv, OutputInv
  <2> QED
    BY <2>1, <2>11, <2>12, <2>13, <2>14, <2>15, <2>16, OneJob DEF JobInv
<1> QED
  BY <1>1, <1>2

\* The output is replaced by a file that has all its lines.
LEMMA PersistKeeps ==
    ASSUME Counted, IInv, NEW j \in Jobs, Persist(j) PROVE IInv'
<1> DEFINE f == worker[j].file
<1>0. worker[j].pc = "read" /\ LinesLeft(j) = 0
  BY DEF Persist
<1>1. CASE Finish(j, "error")
  BY <1>0, <1>1, FinishKeeps DEF Finish, Outcomes
<1>2. CASE ~Finish(j, "error")
  <2>1. /\ output' = [output EXCEPT ![f] = temp[j]]
        /\ temp' = [temp EXCEPT ![j] = NoFile]
        /\ worker' = [worker EXCEPT ![j].pc = "file"]
        /\ UNCHANGED <<task, result, cancelled, workers, service>>
    BY <1>2 DEF Persist, Goto, uiVars
  <2>2. /\ f \in Files /\ worker[j].line \in Nat /\ FileLines[f] \in Nat
        /\ Lines(temp[j], f, worker[j].line) /\ temp[j] \in Seq(Stored)
    BY <1>0 DEF IInv, Types, JobInv, TempInv, InFile, Counted, Files
  <2>3. worker[j].line = FileLines[f]
    BY <1>0, <2>2 DEF LinesLeft
  <2>4. temp[j] # Old
    BY <2>2, LinesAreNew
  <2>5. \A g \in Files : output'[g] = IF g = f THEN temp[j] ELSE output[g]
    BY <2>1 DEF IInv, Types
  <2>6. OutputInv'
    BY <2>2, <2>3, <2>5 DEF IInv, OutputInv
  <2>7. worker'[j].pc = "file" /\ worker'[j].file = f /\ result'[j] = result[j]
    BY <2>1 DEF IInv, Types
  <2>8. WrittenInv(j)'
    <3>1. \A g \in 1..f : output'[g] # Old
      <4>1. \A g \in 1..(f - 1) : output[g] # Old
        BY <1>0 DEF IInv, JobInv, WrittenInv, InFile
      <4>2. f \in Nat /\ f <= Len(FileLines) /\ Len(FileLines) \in Nat
        BY <2>2 DEF Files, Counted
      <4> QED
        BY <2>4, <2>5, <4>1, <4>2 DEF Files
    <3>2. result[j] = "ok" => \A g \in Files : output'[g] # Old
      BY <2>4, <2>5 DEF IInv, JobInv, WrittenInv
    <3> QED
      BY <2>7, <3>1, <3>2 DEF WrittenInv, InFile, InBatch
  <2>9. TempInv(j)' /\ TaskInv(j)'
    BY <2>7 DEF TempInv, TaskInv, InFile, InBatch
  <2>10. Types'
    <3>1. NoFile \in Seq(Stored) /\ "file" \in Places
      BY StoredTypes DEF Places
    <3> QED
      BY <2>1, <2>2, <3>1 DEF IInv, Types
  <2>11. Alone(j)
    BY <1>0, <2>1 DEF Alone, IInv, Types
  <2>12. \A g \in Files : output[g] # Old => output'[g] # Old
    BY <2>4, <2>5
  <2> QED
    BY <2>6, <2>8, <2>9, <2>10, <2>11, <2>12, OneJob DEF JobInv
<1> QED
  BY <1>1, <1>2

\* The checks and the pool before the first file, and the end of the thread.
LEMMA EndsKeep ==
    ASSUME IInv, NEW j \in Jobs,
           Preflight(j) \/ GetPool(j) \/ DropPool(j) \/ LinesCancelled(j) \/ Exit(j)
    PROVE  IInv'
<1>1. CASE /\ worker[j].pc \notin {"none", "exited"}
           /\ Finish(j, "error") \/ Finish(j, "cancelled")
  BY <1>1, FinishKeeps DEF Finish, Outcomes
<1> DEFINE Ends(pc) == worker[j].pc \in IF pc \in {"pool", "file"} THEN {"preflight", "pool"}
                                        ELSE {"drop", "finished"}
<1>2. CASE \E pc \in {"pool", "file", "finished", "exited"} :
             /\ Ends(pc)
             /\ worker' = [worker EXCEPT ![j].pc = pc]
             /\ UNCHANGED <<task, temp, result, output, cancelled, workers, service>>
  <2>1. PICK pc \in {"pool", "file", "finished", "exited"} :
             /\ Ends(pc)
             /\ worker' = [worker EXCEPT ![j].pc = pc]
             /\ UNCHANGED <<task, temp, result, output, cancelled, workers, service>>
    BY <1>2
  <2>2. /\ worker'[j].pc = pc /\ worker'[j].file = worker[j].file /\ result'[j] = result[j]
        /\ pc \in {"pool", "file"} => worker[j].file = 0
    BY <2>1 DEF IInv, Types, JobInv, WrittenInv
  <2>3. Types'
    BY <2>1 DEF IInv, Types, Places
  <2>4. Alone(j)
    BY <2>1 DEF Alone, IInv, Types
  <2>5. JobInv(j)'
    <3>1. TempInv(j)' /\ TaskInv(j)'
      BY <2>1, <2>2 DEF TempInv, TaskInv, InFile, InBatch
    <3>2. WrittenInv(j)'
      BY <2>1, <2>2 DEF IInv, JobInv, WrittenInv, InFile, InBatch
    <3> QED
      BY <3>1, <3>2 DEF JobInv
  <2>6. OutputInv'
    BY <2>1 DEF IInv, OutputInv
  <2> QED
    BY <2>1, <2>3, <2>4, <2>5, <2>6, OneJob
<1> QED
  BY <1>1, <1>2 DEF Preflight, GetPool, DropPool, LinesCancelled, Exit, Goto, uiVars

\* A job that has no file left has written them all; otherwise it starts on the next.
LEMMA NextFileKeeps ==
    ASSUME Counted, IInv, NEW j \in Jobs, NextFile(j) PROVE IInv'
<1> DEFINE f == worker[j].file + 1
<1>0. /\ worker[j].pc = "file" /\ worker[j].file \in 0..Len(FileLines) /\ Len(FileLines) \in Nat
      /\ \A g \in 1..worker[j].file : output[g] # Old
  BY DEF NextFile, IInv, Types, JobInv, WrittenInv, Counted
<1>1. CASE f > Len(FileLines) /\ Finish(j, "ok")
  <2>1. \A g \in Files : output[g] # Old
    BY <1>0, <1>1 DEF Files
  <2> QED
    BY <1>0, <1>1, <2>1, FinishKeeps DEF Finish, Outcomes
<1>2. CASE Finish(j, "cancelled") \/ FinishAfter(j, <<Event("FileName", f, 0)>>, "error")
  BY <1>0, <1>2, FinishKeeps DEF Finish, Outcomes
<1>3. CASE /\ f <= Len(FileLines)
           /\ worker' = [worker EXCEPT ![j] = [pc |-> "read", file |-> f, line |-> 0]]
           /\ temp' = [temp EXCEPT ![j] = << >>]
           /\ UNCHANGED <<task, result, output, cancelled, workers, service>>
  <2>1. /\ worker'[j] = [pc |-> "read", file |-> f, line |-> 0] /\ temp'[j] = << >>
        /\ f \in Files /\ f - 1 = worker[j].file /\ FileLines[f] \in Nat
    BY <1>0, <1>3 DEF IInv, Types, Files, Counted
  <2>2. Types'
    <3>1. << >> \in Seq(Stored) /\ f \in 0..Len(FileLines)
      BY <2>1, <1>0, StoredTypes DEF Files
    <3>2. [pc |-> "read", file |-> f, line |-> 0]
            \in [pc : Places, file : 0..Len(FileLines), line : Nat]
      BY <3>1 DEF Places
    <3> QED
      BY <1>3, <3>1, <3>2 DEF IInv, Types
  <2>3. Alone(j)
    BY <1>0, <1>3 DEF Alone, IInv, Types
  <2>4. TempInv(j)'
    BY <2>1 DEF TempInv, Lines
  <2>5. TaskInv(j)'
    BY <2>1 DEF TaskInv, InBatch
  <2>6. WrittenInv(j)'
    BY <1>0, <1>3, <2>1 DEF IInv, JobInv, WrittenInv
  <2>7. OutputInv'
    BY <1>3 DEF IInv, OutputInv
  <2> QED
    BY <1>3, <2>2, <2>3, <2>4, <2>5, <2>6, <2>7, OneJob DEF JobInv
<1> QED
  BY <1>1, <1>2, <1>3 DEF NextFile, uiVars

\* A job is started with its thread in the map.
LEMMA StartKeeps ==
    ASSUME IInv, NEW j \in Jobs, StartTranslation(j) PROVE IInv'
<1>1. /\ service = "open" /\ worker[j].pc = "none"
      /\ worker' = [worker EXCEPT ![j].pc = "preflight"]
      /\ workers' = (workers \ Reaped) \cup {j}
      /\ cancelled' = cancelled \/ cancelled' = [cancelled EXCEPT ![j] = TRUE]
      /\ UNCHANGED <<task, temp, result, output, service>>
  BY DEF StartTranslation, Goto
<1>2. Types'
  <2>1. /\ worker \in [Jobs -> [pc : Places, file : 0..Len(FileLines), line : Nat]]
        /\ cancelled \in [Jobs -> BOOLEAN] /\ workers \subseteq Jobs
    BY DEF IInv, Types
  <2>2. worker' \in [Jobs -> [pc : Places, file : 0..Len(FileLines), line : Nat]]
    BY <1>1, <2>1 DEF Places
  <2>3. cancelled' \in [Jobs -> BOOLEAN] /\ workers' \subseteq Jobs
    BY <1>1, <2>1
  <2> QED
    BY <1>1, <2>2, <2>3 DEF IInv, Types
<1>3. \A i \in Jobs : (cancelled[i] => cancelled'[i]) /\ (i # j => worker'[i] = worker[i])
  BY <1>1 DEF IInv, Types
<1>4. worker'[j].pc = "preflight" /\ worker'[j].file = worker[j].file
  BY <1>1 DEF IInv, Types
<1>5. JobInv(j)'
  BY <1>1, <1>4 DEF IInv, JobInv, TempInv, TaskInv, WrittenInv, InFile, InBatch
<1>6. \A i \in Jobs \ {j} : JobInv(i)'
  BY <1>1, <1>3, OthersKeep DEF IInv
<1>7. OutputInv'
  BY <1>1 DEF IInv, OutputInv
<1>8. NoThreadForgotten'
  BY <1>1, <1>3 DEF IInv, NoThreadForgotten, Reaped, Exited
<1> QED
  BY <1>2, <1>5, <1>6, <1>7, <1>8 DEF IInv

\* The user interface cancels jobs and joins threads that ended.
LEMMA InterfaceKeeps ==
    ASSUME IInv,
           \/ CancelClicked \/ PollEvents \/ CloseProgress
           \/ BeginShutdown \/ ShutdownTurn \/ ShutdownDeadline
    PROVE  IInv'
<1>1. /\ UNCHANGED <<worker, task, temp, result, output>>
      /\ cancelled' \in [Jobs -> BOOLEAN] /\ \A j \in Jobs : cancelled[j] => cancelled'[j]
  <2>1. CASE CancelClicked
    BY <2>1 DEF CancelClicked, workerVars, IInv, Types
  <2>2. CASE PollEvents \/ ShutdownDeadline
    BY <2>2 DEF PollEvents, ShutdownDeadline, workerVars, IInv, Types
  <2>3. CASE CloseProgress
    BY <2>3 DEF CloseProgress, workerVars, IInv, Types
  <2>4. CASE BeginShutdown
    BY <2>4 DEF BeginShutdown, workerVars, IInv, Types
  <2>5. CASE ShutdownTurn
    BY <2>5 DEF ShutdownTurn, workerVars, IInv, Types
  <2> QED
    BY <2>1, <2>2, <2>3, <2>4, <2>5
<1>2. workers' \subseteq workers /\ NoThreadForgotten'
  <2>1. CASE CancelClicked \/ PollEvents \/ CloseProgress
    BY <1>1, <2>1 DEF CancelClicked, PollEvents, CloseProgress, uiVars, IInv, NoThreadForgotten
  <2>2. CASE BeginShutdown
    BY <1>1, <2>2 DEF BeginShutdown, IInv, NoThreadForgotten
  <2>3. CASE ShutdownTurn
    BY <1>1, <2>3 DEF ShutdownTurn, Reaped, Exited, IInv, NoThreadForgotten
  <2>4. CASE ShutdownDeadline
    BY <1>1, <2>4 DEF ShutdownDeadline, NoThreadForgotten
  <2> QED
    BY <2>1, <2>2, <2>3, <2>4
<1>3. Types'
  BY <1>1, <1>2 DEF IInv, Types
<1>4. \A j \in Jobs : JobInv(j)'
  BY <1>1, OthersKeep DEF IInv
<1>5. OutputInv'
  BY <1>1 DEF IInv, OutputInv
<1> QED
  BY <1>2, <1>3, <1>4, <1>5 DEF IInv

\* Every action keeps the invariant.
LEMMA FilesStep == Counted /\ IInv /\ [Next]_vars => IInv'
<1> SUFFICES ASSUME Counted, IInv, [Next]_vars PROVE IInv'
  OBVIOUS
<1>1. ASSUME NEW j \in Jobs, WorkerStep(j) PROVE IInv'
  BY <1>1, EndsKeep, NextFileKeeps, StartBatchKeeps, TranslateWindowKeeps, LinesDrainedKeeps,
     WriteLineKeeps, PersistKeeps, LineKeeps DEF WorkerStep
<1>2. ASSUME NEW j \in Jobs, \/ GetPool(j) \/ DropPool(j)
                              \/ \E k \in DOMAIN task[j] : EndLine(j, k)
      PROVE  IInv'
  BY <1>2, EndsKeep, LineKeeps
<1>3. ASSUME NEW j \in Jobs, StartTranslation(j) PROVE IInv'
  BY <1>3, StartKeeps
<1>4. CASE UNCHANGED vars
  <2>1. \A j \in Jobs : JobInv(j)'
    BY <1>4, OthersKeep DEF IInv, vars, workerVars
  <2> QED
    BY <1>4, <2>1 DEF IInv, vars, workerVars, uiVars, Types, OutputInv, NoThreadForgotten
<1> QED
  BY <1>1, <1>2, <1>3, <1>4, InterfaceKeeps DEF Next

-----------------------------------------------------------------------------
(* What the progress window shows.                                         *)

Sums ==
    /\ BatchLines \in Nat \ {0}
    /\ FileEnds \in Seq(Nat)
    /\ \A f \in 2..Len(FileEnds) : FileEnds[f - 1] <= FileEnds[f]

\* Files have whole numbers of lines, and the totals add them up.
LEMMA TotalsAdd ==
    ASSUME Sums
    PROVE  /\ Counted /\ TotalLines(0) = 0
           /\ \A f \in Files : /\ TotalLines(f - 1) \in Nat
                               /\ TotalLines(f - 1) + FileLines[f] = TotalLines(f)
<1>1. Len(FileEnds) \in Nat /\ \A f \in 1..Len(FileEnds) : FileEnds[f] \in Nat
  BY DEF Sums
<1>2. \A f \in 1..Len(FileEnds) : TotalLines(f) \in Nat /\ TotalLines(f - 1) \in Nat
                                  /\ TotalLines(f) - TotalLines(f - 1) \in Nat
  BY <1>1 DEF Sums, TotalLines
<1>3. FileLines \in [1..Len(FileEnds) -> Nat]
  BY <1>2 DEF FileLines
<1>4. FileLines \in Seq(Nat) /\ Len(FileLines) = Len(FileEnds)
  BY <1>1, <1>3, FunctionIsSeq
<1>5. ASSUME NEW f \in Files
      PROVE  /\ TotalLines(f - 1) \in Nat
             /\ TotalLines(f - 1) + FileLines[f] = TotalLines(f)
  <2>1. f \in 1..Len(FileEnds)
    BY <1>4 DEF Files
  <2>2. FileLines[f] = TotalLines(f) - TotalLines(f - 1)
    BY <2>1 DEF FileLines
  <2> QED
    BY <1>2, <2>1, <2>2
<1> QED
  BY <1>4, <1>5 DEF Sums, Counted, TotalLines

Events ==
    [kind : {"FileName", "FileProgress", "TotalProgress", "Finished"}, file : Int, value : Int]

\* A window that shows `total` will show x when it has drained q.
Leads(q, total, x) ==
    \/ \E i \in 1..Len(q) : IsLatest(q, i, "TotalProgress") /\ q[i].value = x
    \/ ~Any(q, "TotalProgress") /\ total = x

Awaits(j, x) == Leads(events[j], dialog.total, x)

Ended == {"finished", "exited"}
Done == Ended \cup {"drop"}

\* A job that is between two files, or at the end of one, has reported all lines so far.
Reported(j) ==
    /\ worker[j].pc \in {"preflight", "pool"} => Awaits(j, 0) /\ worker[j].file = 0
    /\ worker[j].pc = "file" => Awaits(j, TotalLines(worker[j].file))
    /\ worker[j].pc \in InFile /\ worker[j].line = FileLines[worker[j].file] =>
         Awaits(j, TotalLines(worker[j].file))
    /\ worker[j].pc \in Done /\ result[j] = "ok" => Awaits(j, TotalLines(Len(FileLines)))

\* The end is reported once, behind everything else.
EndIsLast(j) ==
    \A i \in 1..Len(events[j]) :
        events[j][i].kind = "Finished" => i = Len(events[j]) /\ worker[j].pc \in Ended

Channel(j) ==
    /\ EndIsLast(j)
    /\ worker[j].pc = "none" => events[j] = << >> /\ result[j] = "none"
    /\ result[j] = "ok" => worker[j].pc \in Done

DialogInv ==
    /\ DOMAIN dialog = DOMAIN NoDialog
    /\ dialog.state \in {"none", "running", "finished", "stuck"}
    /\ dialog.state # "none" => dialog.job \in Jobs /\ worker[dialog.job].pc # "none"
    /\ dialog.state = "running" => Reported(dialog.job)
    /\ dialog.state = "finished" => worker[dialog.job].pc \in Ended
    /\ EndShowsTotal

ShownInv == events \in [Jobs -> Seq(Events)] /\ (\A j \in Jobs : Channel(j)) /\ DialogInv

\* A further event leaves what the window will show, unless it says how far the job is.
LEMMA LeadsAppend ==
    ASSUME NEW q \in Seq(Events), NEW e \in Events, NEW total, NEW x
    PROVE  /\ Append(q, e) \in Seq(Events)
           /\ e.kind # "TotalProgress" /\ Leads(q, total, x) => Leads(Append(q, e), total, x)
           /\ e.kind = "TotalProgress" => Leads(Append(q, e), total, e.value)
<1>1. /\ Append(q, e) \in Seq(Events) /\ Len(Append(q, e)) = Len(q) + 1 /\ Len(q) \in Nat
      /\ Append(q, e)[Len(q) + 1] = e
      /\ \A i \in 1..Len(q) : Append(q, e)[i] = q[i]
  OBVIOUS
<1>2. ASSUME e.kind # "TotalProgress", Leads(q, total, x) PROVE Leads(Append(q, e), total, x)
  <2>1. CASE \E i \in 1..Len(q) : IsLatest(q, i, "TotalProgress") /\ q[i].value = x
    <3>1. PICK i \in 1..Len(q) : IsLatest(q, i, "TotalProgress") /\ q[i].value = x
      BY <2>1
    <3>2. \A m \in (i + 1)..(Len(q) + 1) :
                 (m \in (i + 1)..Len(q) /\ m \in 1..Len(q)) \/ m = Len(q) + 1
      BY <1>1
    <3>3. IsLatest(Append(q, e), i, "TotalProgress") /\ Append(q, e)[i].value = x
      BY <1>1, <1>2, <3>1, <3>2 DEF IsLatest
    <3>4. i \in 1..Len(Append(q, e))
      BY <1>1
    <3> QED
      BY <3>3, <3>4 DEF Leads
  <2>2. CASE ~Any(q, "TotalProgress") /\ total = x
    BY <1>1, <1>2, <2>2 DEF Any, Leads
  <2> QED
    BY <1>2, <2>1, <2>2 DEF Leads
<1>3. e.kind = "TotalProgress" => Leads(Append(q, e), total, e.value)
  BY <1>1 DEF Leads, IsLatest
<1> QED
  BY <1>1, <1>2, <1>3

\* Neither does draining a part of the channel.
LEMMA LeadsDrained ==
    ASSUME NEW q \in Seq(Events), NEW d, "total" \in DOMAIN d, NEW x, NEW n \in 1..Len(q),
           Leads(q, d.total, x)
    PROVE  Leads(SubSeq(q, n + 1, Len(q)), Shown(d, SubSeq(q, 1, n)).total, x)
<1> DEFINE s == SubSeq(q, 1, n)
           r == SubSeq(q, n + 1, Len(q))
<1>1. /\ Len(q) \in Nat /\ Len(s) = n /\ Len(r) = Len(q) - n
      /\ \A i \in 1..n : s[i] = q[i]
      /\ \A i \in 1..(Len(q) - n) : r[i] = q[n + i]
  OBVIOUS
<1>2. Shown(d, s).total =
        IF Any(s, "TotalProgress") THEN Latest(s, "TotalProgress").value ELSE d.total
  BY DEF Shown
<1> HIDE DEF s, r
<1>3. CASE \E i \in 1..Len(q) : IsLatest(q, i, "TotalProgress") /\ q[i].value = x
  <2>1. PICK i \in 1..Len(q) : IsLatest(q, i, "TotalProgress") /\ q[i].value = x
    BY <1>3
  <2>2. CASE i <= n
    <3>1. \A m \in 1..(Len(q) - n) : n + m \in (i + 1)..Len(q)
      BY <1>1, <2>2
    <3>2. ~Any(r, "TotalProgress")
      BY <1>1, <2>1, <3>1 DEF Any, IsLatest
    <3>3. \A m \in (i + 1)..n : m \in (i + 1)..Len(q) /\ m \in 1..n
      BY <1>1, <2>2
    <3>4. i \in 1..Len(s) /\ IsLatest(s, i, "TotalProgress")
      BY <1>1, <2>1, <2>2, <3>3 DEF IsLatest
    <3>5. \A m \in 1..Len(s) : IsLatest(s, m, "TotalProgress") => m = i
      <4> SUFFICES ASSUME NEW m \in 1..Len(s), IsLatest(s, m, "TotalProgress"), m # i
                   PROVE  FALSE
        OBVIOUS
      <4>1. i \in (m + 1)..Len(s) \/ m \in (i + 1)..Len(s)
        BY <1>1, <3>4
      <4> QED
        BY <3>4, <4>1 DEF IsLatest
    <3>6. Latest(s, "TotalProgress") = q[i]
      BY <1>1, <2>2, <3>4, <3>5 DEF Latest
    <3>7. Any(s, "TotalProgress")
      BY <3>4 DEF Any, IsLatest
    <3> QED
      BY <1>2, <2>1, <3>2, <3>6, <3>7 DEF Leads, r, s
  <2>3. CASE i > n
    <3>1. i - n \in 1..(Len(q) - n) /\ r[i - n] = q[i]
      BY <1>1, <2>3
    <3>2. \A m \in (i - n + 1)..(Len(q) - n) : n + m \in (i + 1)..Len(q) /\ r[m] = q[n + m]
      BY <1>1, <2>3
    <3>3. IsLatest(r, i - n, "TotalProgress") /\ r[i - n].value = x
      BY <1>1, <2>1, <3>1, <3>2 DEF IsLatest
    <3> QED
      BY <1>1, <3>1, <3>3 DEF Leads, r, s
  <2> QED
    BY <1>1, <2>2, <2>3
<1>4. CASE ~Any(q, "TotalProgress") /\ d.total = x
  <2>0. \A i \in 1..Len(q) : q[i].kind # "TotalProgress"
    BY <1>4 DEF Any
  <2>1. ~Any(s, "TotalProgress") /\ ~Any(r, "TotalProgress")
    <3>1. \A i \in 1..n : i \in 1..Len(q)
      OBVIOUS
    <3>2. \A i \in 1..(Len(q) - n) : n + i \in 1..Len(q)
      BY <1>1
    <3>3. \A i \in 1..Len(s) : s[i].kind # "TotalProgress"
      BY <1>1, <2>0, <3>1
    <3>4. \A i \in 1..Len(r) : r[i].kind # "TotalProgress"
      BY <1>1, <2>0, <3>2
    <3> QED
      BY <3>3, <3>4 DEF Any
  <2> QED
    BY <1>2, <1>4, <2>1 DEF Leads, r, s
<1> QED
  BY <1>3, <1>4 DEF Leads

\* A step of the thread of one job, as far as the window and the other jobs see it.
LEMMA OneJobShows ==
    ASSUME ShownInv, IInv, NEW j \in Jobs, NEW q \in Seq(Events), dialog' = dialog,
           events' = [events EXCEPT ![j] = q],
           \A i \in Jobs \ {j} : worker'[i] = worker[i] /\ result'[i] = result[i],
           Channel(j)', worker'[j].pc # "none",
           worker[j].pc \in Ended => worker'[j].pc \in Ended /\ result'[j] = result[j],
           Reported(j) => Reported(j)'
    PROVE  ShownInv'
<1>1. events' \in [Jobs -> Seq(Events)] /\ \A i \in Jobs \ {j} : events'[i] = events[i]
  BY DEF ShownInv
<1>2. \A i \in Jobs \ {j} : Channel(i)'
  BY <1>1 DEF ShownInv, Channel, EndIsLast
<1>3. \A i \in Jobs \ {j} : Reported(i) => Reported(i)'
  BY <1>1 DEF Reported, Awaits
<1>4. DialogInv'
  <2>1. dialog.state # "none" => dialog.job \in Jobs
    BY DEF ShownInv, DialogInv
  <2>2. CASE dialog.state = "none"
    BY <2>2 DEF ShownInv, DialogInv, EndShowsTotal
  <2>3. CASE dialog.state # "none" /\ dialog.job = j
    BY <2>3 DEF ShownInv, DialogInv, EndShowsTotal
  <2>4. CASE dialog.state # "none" /\ dialog.job # j
    BY <1>3, <2>1, <2>4 DEF ShownInv, DialogInv, EndShowsTotal
  <2> QED
    BY <2>2, <2>3, <2>4
<1> QED
  BY <1>1, <1>2, <1>4 DEF ShownInv

\* A step that sends nothing.
LEMMA SilentShows ==
    ASSUME ShownInv, IInv, NEW j \in Jobs, NEW pc \in Places \ {"none"},
           worker[j].pc # "none", worker' = [worker EXCEPT ![j].pc = pc],
           worker[j].pc \in Ended => pc \in Ended,
           result[j] = "ok" => pc \in Done,
           UNCHANGED <<events, dialog, result>>,
           Reported(j) => Reported(j)'
    PROVE  ShownInv'
<1>1. worker'[j].pc = pc /\ \A i \in Jobs \ {j} : worker'[i] = worker[i]
  BY DEF IInv, Types
<1>2. events[j] \in Seq(Events) /\ events' = [events EXCEPT ![j] = events[j]]
  BY DEF ShownInv
<1>3. Channel(j)'
  <2>1. Channel(j)
    BY DEF ShownInv
  <2>2. \A i \in 1..Len(events[j]) : events[j][i].kind = "Finished" => i = Len(events[j]) /\ pc \in Ended
    BY <2>1 DEF Channel, EndIsLast
  <2> QED
    BY <1>1, <2>2 DEF Channel, EndIsLast
<1> QED
  BY <1>1, <1>2, <1>3, OneJobShows

\* Two events that are sent together.
LEMMA SentTogether ==
    ASSUME NEW S, NEW q \in Seq(S), NEW d \in S, NEW e \in S
    PROVE  q \o <<d, e>> = Append(Append(q, d), e)
  OBVIOUS

\* An event is sent behind others.
LEMMA SentBehind ==
    \A q \in Seq(Events), t \in Seq(Events), e \in Events :
        q \o (t \o <<e>>) = Append(q \o t, e)
  OBVIOUS

\* The thread's job ends: the end is sent behind everything else, and a success only when all
\* lines are reported.
LEMMA EndShows ==
    ASSUME ShownInv, IInv, NEW j \in Jobs, NEW sent \in Seq(Events),
           NEW r \in Outcomes,
           result' = [result EXCEPT ![j] = r], dialog' = dialog,
           worker' = [worker EXCEPT ![j].pc = "finished"],
           Send(j, sent \o <<Event("Finished", 0, 0)>>), worker[j].pc \notin Ended \cup {"none"},
           \A i \in 1..Len(sent) : sent[i].kind # "Finished",
           r = "ok" => sent = << >> /\ (Reported(j) => Awaits(j, TotalLines(Len(FileLines))))
    PROVE  ShownInv'
<1> DEFINE end == Event("Finished", 0, 0)
           q == Append(events[j] \o sent, end)
<1>1. events[j] \in Seq(Events) /\ end \in Events /\ Channel(j)
  BY DEF ShownInv, Events, Event
<1>2. events[j] \o sent \in Seq(Events) /\ q \in Seq(Events)
  BY <1>1
<1>3. events' = [events EXCEPT ![j] = q]
  <2>1. events' = [events EXCEPT ![j] = events[j] \o (sent \o <<end>>)]
    BY DEF Send
  <2>2. events[j] \o (sent \o <<end>>) = q
    <3> HIDE DEF end
    <3> QED
      BY <1>1, SentBehind, Zenon
  <2> QED
    BY <2>1, <2>2
<1>4. /\ worker' = [worker EXCEPT ![j].pc = "finished"] /\ result' = [result EXCEPT ![j] = r]
      /\ dialog' = dialog
  OBVIOUS
<1>5. /\ worker'[j].pc = "finished" /\ result'[j] = r
      /\ \A i \in Jobs \ {j} : worker'[i] = worker[i] /\ result'[i] = result[i]
  BY <1>4 DEF IInv, Types
<1>6. events'[j] = q
  BY <1>3 DEF ShownInv
<1>7. Channel(j)'
  <2>1. \A i \in 1..Len(events[j]) : events[j][i].kind # "Finished"
    BY <1>1 DEF Channel, EndIsLast
  <2>2. \A i \in 1..Len(events[j] \o sent) : (events[j] \o sent)[i].kind # "Finished"
    BY <1>1, <2>1
  <2>3. /\ Len(q) = Len(events[j] \o sent) + 1 /\ Len(events[j] \o sent) \in Nat
        /\ \A i \in 1..Len(events[j] \o sent) : q[i] = (events[j] \o sent)[i]
    BY <1>2
  <2>4. ASSUME NEW i \in 1..Len(q), i # Len(q) PROVE q[i].kind # "Finished"
    <3> DEFINE ahead == events[j] \o sent
    <3>1. Len(q) = Len(ahead) + 1 /\ Len(ahead) \in Nat
      BY <2>3
    <3>2. (\A k \in 1..Len(ahead) : q[k] = ahead[k]) /\ \A k \in 1..Len(ahead) : ahead[k].kind # "Finished"
      BY <2>2, <2>3
    <3> HIDE DEF ahead
    <3>3. i \in 1..Len(ahead)
      BY <2>4, <3>1
    <3> QED
      BY <3>2, <3>3
  <2> QED
    BY <1>5, <1>6, <2>4 DEF Channel, EndIsLast, Ended, Done
<1>8. Reported(j) => Reported(j)'
  <2> SUFFICES ASSUME Reported(j), r = "ok" PROVE Awaits(j, TotalLines(Len(FileLines)))'
    BY <1>5 DEF Reported, InFile, InBatch
  <2>1. sent = << >> /\ Leads(events[j], dialog.total, TotalLines(Len(FileLines)))
    BY DEF Awaits
  <2>2. q = Append(events[j], end)
    BY <1>1, <2>1
  <2>3. end.kind # "TotalProgress"
    BY DEF Event
  <2> HIDE DEF end, q
  <2>4. Leads(q, dialog.total, TotalLines(Len(FileLines)))
    BY <1>1, <2>1, <2>2, <2>3, LeadsAppend
  <2> QED
    BY <1>4, <1>6, <2>4 DEF Awaits
<1> QED
  BY <1>2, <1>3, <1>4, <1>5, <1>7, <1>8, OneJobShows DEF Ended, Done

\* A job that ends waits for the pool it drops, or sends its end at once.
LEMMA FinishShows ==
    ASSUME ShownInv, IInv, NEW j \in Jobs, NEW sent \in Seq(Events),
           NEW r \in Outcomes \ {"none"},
           FinishAfter(j, sent, r), worker[j].pc \notin Done \cup {"none"},
           \A i \in 1..Len(sent) : sent[i].kind # "Finished",
           r = "ok" => sent = << >> /\ (Reported(j) => Awaits(j, TotalLines(Len(FileLines))))
    PROVE  ShownInv'
<1>1. result' = [result EXCEPT ![j] = r] /\ dialog' = dialog
  BY DEF FinishAfter, uiVars
<1>2. CASE Goto(j, "finished") /\ Send(j, sent \o <<Event("Finished", 0, 0)>>)
  BY <1>1, <1>2, EndShows DEF Goto, Done
<1>3. CASE Goto(j, "drop") /\ Send(j, sent)
  <2> DEFINE q == events[j] \o sent
  <2>1. events[j] \in Seq(Events) /\ q \in Seq(Events) /\ Channel(j)
    BY DEF ShownInv
  <2>2. /\ worker'[j].pc = "drop" /\ result'[j] = r
        /\ \A i \in Jobs \ {j} : worker'[i] = worker[i] /\ result'[i] = result[i]
    BY <1>1, <1>3 DEF Goto, IInv, Types
  <2>3. events' = [events EXCEPT ![j] = q] /\ events'[j] = q
    BY <1>3 DEF Send, ShownInv
  <2>4. \A i \in 1..Len(q) : q[i].kind # "Finished"
    <3>1. \A i \in 1..Len(events[j]) : events[j][i].kind # "Finished"
      BY <2>1 DEF Channel, EndIsLast, Done
    <3> QED
      BY <2>1, <3>1
  <2> HIDE DEF q
  <2>5. Channel(j)'
    BY <2>2, <2>3, <2>4 DEF Channel, EndIsLast, Done
  <2>6. Reported(j) => Reported(j)'
    <3> SUFFICES ASSUME Reported(j), r = "ok" PROVE Awaits(j, TotalLines(Len(FileLines)))'
      BY <2>2 DEF Reported, InFile, InBatch
    <3>1. q = events[j]
      BY <2>1 DEF q
    <3> QED
      BY <1>1, <2>3, <3>1 DEF Awaits
  <2> QED
    BY <1>1, <2>1, <2>2, <2>3, <2>5, <2>6, OneJobShows DEF Done
<1> QED
  BY <1>2, <1>3 DEF FinishAfter

\* The pool is dropped and the end sent.
LEMMA DropShows ==
    ASSUME ShownInv, IInv, NEW j \in Jobs, DropPool(j) PROVE ShownInv'
<1>1. /\ worker[j].pc = "drop" /\ worker' = [worker EXCEPT ![j].pc = "finished"]
      /\ dialog' = dialog /\ result' = result
      /\ Send(j, << >> \o <<Event("Finished", 0, 0)>>)
  BY DEF DropPool, Goto, Send, uiVars
<1>2. result[j] \in Outcomes /\ result' = [result EXCEPT ![j] = result[j]]
  BY <1>1 DEF IInv, Types
<1>3. << >> \in Seq(Events) /\ \A i \in 1..Len(<< >>) : FALSE
  OBVIOUS
<1>4. result[j] = "ok" => (Reported(j) => Awaits(j, TotalLines(Len(FileLines))))
  BY <1>1 DEF Reported, Done
<1> QED
  BY <1>1, <1>2, <1>3, <1>4, EndShows DEF Ended

\* The same for the ends that send nothing but that.
LEMMA StopShows ==
    ASSUME ShownInv, IInv, NEW j \in Jobs, NEW r \in Outcomes \ {"none"}, Finish(j, r),
           worker[j].pc \notin Done \cup {"none"},
           r = "ok" => (Reported(j) => Awaits(j, TotalLines(Len(FileLines))))
    PROVE  ShownInv'
<1>1. << >> \in Seq(Events) /\ \A i \in 1..Len(<< >>) : FALSE
  OBVIOUS
<1> QED
  BY <1>1, FinishShows DEF Finish

\* The steps of a thread that send nothing, and the end.
LEMMA QuietStepsShow ==
    ASSUME Sums, ShownInv, IInv, NEW j \in Jobs,
           \/ Preflight(j) \/ GetPool(j) \/ StartBatch(j) \/ TranslateWindow(j) \/ LinesDrained(j)
           \/ LinesCancelled(j) \/ Persist(j) \/ Exit(j)
           \/ \E k \in DOMAIN task[j] : StartLine(j, k) \/ EndLine(j, k)
    PROVE  ShownInv'
<1>0. Counted /\ TotalLines(0) = 0
  BY TotalsAdd
<1>1. CASE /\ worker[j].pc \notin Done \cup {"none"}
           /\ Finish(j, "error") \/ Finish(j, "cancelled")
  BY <1>1, StopShows DEF Outcomes
<1>2. Channel(j) /\ worker[j].file \in 0..Len(FileLines) /\ worker[j].line \in Nat
  BY DEF ShownInv, IInv, Types
<1>3. ASSUME NEW pc \in Places \ {"none"}, worker' = [worker EXCEPT ![j].pc = pc]
      PROVE  /\ worker'[j].pc = pc /\ worker'[j].file = worker[j].file
             /\ worker'[j].line = worker[j].line
  BY <1>3 DEF IInv, Types
<1>4. CASE \E pc \in {"pool", "file"} :
             /\ worker[j].pc \in {"preflight", "pool"}
             /\ worker' = [worker EXCEPT ![j].pc = pc]
             /\ UNCHANGED <<events, dialog, result>>
  <2>1. PICK pc \in {"pool", "file"} :
             /\ worker[j].pc \in {"preflight", "pool"}
             /\ worker' = [worker EXCEPT ![j].pc = pc]
             /\ UNCHANGED <<events, dialog, result>>
    BY <1>4
  <2>2. pc \in Places \ {"none"}
    BY DEF Places
  <2>3. Reported(j) => Reported(j)'
    BY <1>0, <1>3, <2>1, <2>2 DEF Reported, Awaits, InFile, InBatch, Ended, Done
  <2> QED
    BY <1>2, <2>1, <2>2, <2>3, SilentShows DEF Channel, Ended, Done
<1>5. CASE \E pc \in InBatch :
             /\ worker[j].pc \in InFile
             /\ worker' = [worker EXCEPT ![j].pc = pc]
             /\ UNCHANGED <<events, dialog, result>>
  <2>1. PICK pc \in InBatch :
             /\ worker[j].pc \in InFile
             /\ worker' = [worker EXCEPT ![j].pc = pc]
             /\ UNCHANGED <<events, dialog, result>>
    BY <1>5
  <2>2. pc \in Places \ {"none"} /\ pc \in InFile
    BY DEF Places, InBatch, InFile
  <2>3. Reported(j) => Reported(j)'
    BY <1>3, <2>1, <2>2 DEF Reported, Awaits, InFile, InBatch, Ended, Done
  <2> QED
    BY <1>2, <2>1, <2>2, <2>3, SilentShows DEF Channel, Ended, Done, InFile, InBatch
<1>6. CASE UNCHANGED <<worker, events, dialog, result>>
  BY <1>6 DEF ShownInv, Channel, EndIsLast, DialogInv, Reported, Awaits, EndShowsTotal
<1>7. CASE /\ worker[j].pc = "read" /\ LinesLeft(j) = 0
           /\ worker' = [worker EXCEPT ![j].pc = "file"]
           /\ UNCHANGED <<events, dialog, result>>
  <2>1. "file" \in Places \ {"none"}
    BY DEF Places
  <2>2. worker[j].line = FileLines[worker[j].file]
    <3>1. worker[j].file \in Files /\ FileLines[worker[j].file] \in Nat
      BY <1>0, <1>7 DEF IInv, JobInv, TempInv, InFile, Counted, Files
    <3> QED
      BY <1>2, <1>7, <3>1 DEF LinesLeft
  <2>3. Reported(j) => Reported(j)'
    BY <1>3, <1>7, <2>1, <2>2 DEF Reported, Awaits, InFile, InBatch, Ended, Done
  <2> QED
    BY <1>2, <1>7, <2>1, <2>3, SilentShows DEF Channel, Ended, Done
<1>8. CASE /\ worker[j].pc = "finished"
           /\ worker' = [worker EXCEPT ![j].pc = "exited"]
           /\ UNCHANGED <<events, dialog, result>>
  <2>1. "exited" \in Places \ {"none"}
    BY DEF Places
  <2>2. Reported(j) => Reported(j)'
    BY <1>3, <1>8, <2>1 DEF Reported, Awaits, InFile, InBatch, Ended, Done
  <2> QED
    BY <1>2, <1>8, <2>1, <2>2, SilentShows DEF Channel, Ended, Done
<1>10. CASE Preflight(j) \/ GetPool(j)
  BY <1>1, <1>4, <1>10 DEF Preflight, GetPool, Goto, uiVars, Ended, Done
<1>11. CASE StartBatch(j)
  <2>1. CASE Finish(j, "error") \/ Finish(j, "cancelled")
    BY <1>1, <1>11, <2>1 DEF StartBatch, Ended, Done
  <2>2. CASE ~(Finish(j, "error") \/ Finish(j, "cancelled"))
    <3>1. \E pc \in InBatch : worker' = [worker EXCEPT ![j].pc = pc]
      BY <1>11, <2>2 DEF StartBatch, Goto, InBatch
    <3> QED
      BY <1>5, <1>11, <2>2, <3>1 DEF StartBatch, uiVars, InFile
  <2> QED
    BY <2>1, <2>2
<1>12. CASE TranslateWindow(j) \/ LinesDrained(j)
  <2>1. CASE Finish(j, "error") \/ Finish(j, "cancelled")
    BY <1>1, <1>12, <2>1 DEF TranslateWindow, LinesDrained, Ended, Done
  <2>2. CASE ~(Finish(j, "error") \/ Finish(j, "cancelled"))
    <3>1. /\ worker' = [worker EXCEPT ![j].pc = "write"] /\ worker[j].pc \in InFile
          /\ UNCHANGED <<events, dialog, result>>
      BY <1>12, <2>2 DEF TranslateWindow, LinesDrained, Goto, uiVars, InFile, InBatch
    <3> QED
      BY <1>5, <3>1 DEF InBatch
  <2> QED
    BY <2>1, <2>2
<1>13. CASE LinesCancelled(j)
  BY <1>1, <1>13 DEF LinesCancelled, Ended, Done
<1>14. CASE Persist(j)
  BY <1>1, <1>7, <1>14 DEF Persist, Goto, uiVars, Ended, Done
<1>15. CASE Exit(j)
  BY <1>8, <1>15 DEF Exit, Goto, uiVars
<1>16. CASE \E k \in DOMAIN task[j] : StartLine(j, k) \/ EndLine(j, k)
  BY <1>6, <1>16 DEF StartLine, EndLine, uiVars
<1> QED
  BY <1>10, <1>11, <1>12, <1>13, <1>14, <1>15, <1>16

\* A job names the file it starts on.
LEMMA NextFileShows ==
    ASSUME Sums, ShownInv, IInv, NEW j \in Jobs, NextFile(j)
    PROVE  ShownInv'
<1> DEFINE f == worker[j].file + 1
           name == Event("FileName", f, 0)
<1>0. /\ worker[j].pc = "file" /\ worker[j].file \in 0..Len(FileLines) /\ Len(FileLines) \in Nat
      /\ events[j] \in Seq(Events) /\ Channel(j)
  BY TotalsAdd DEF NextFile, IInv, Types, Counted, ShownInv
<1>1. CASE f > Len(FileLines) /\ Finish(j, "ok")
  <2>1. Reported(j) => Awaits(j, TotalLines(Len(FileLines)))
    BY <1>0, <1>1 DEF Reported
  <2> QED
    BY <1>0, <1>1, <2>1, StopShows DEF Outcomes, Ended, Done
<1>2. CASE Finish(j, "cancelled")
  BY <1>0, <1>2, StopShows DEF Outcomes, Ended, Done
<1>4. CASE FinishAfter(j, <<name>>, "error")
  <2>1. name \in Events /\ name.kind # "Finished"
    BY <1>0 DEF Events, Event
  <2> HIDE DEF name
  <2>2. <<name>> \in Seq(Events) /\ \A i \in 1..Len(<<name>>) : <<name>>[i].kind # "Finished"
    BY <2>1
  <2> QED
    BY <1>0, <1>4, <2>2, FinishShows DEF Outcomes, Ended, Done
<1>3. CASE /\ f <= Len(FileLines)
           /\ worker' = [worker EXCEPT ![j] = [pc |-> "read", file |-> f, line |-> 0]]
           /\ Send(j, <<name>>)
           /\ UNCHANGED <<dialog, result>>
  <2>1. /\ f \in Files /\ f - 1 = worker[j].file
        /\ TotalLines(f - 1) \in Nat /\ TotalLines(f - 1) + FileLines[f] = TotalLines(f)
    BY <1>0, <1>3, TotalsAdd DEF Files
  <2>2. /\ worker'[j] = [pc |-> "read", file |-> f, line |-> 0]
        /\ \A i \in Jobs \ {j} : worker'[i] = worker[i]
    BY <1>3 DEF IInv, Types
  <2>3. name \in Events /\ name.kind = "FileName"
    BY <1>0 DEF Events, Event
  <2>4. events' = [events EXCEPT ![j] = Append(events[j], name)]
        /\ Append(events[j], name) \in Seq(Events)
    <3> HIDE DEF name
    <3>1. events[j] \o <<name>> = Append(events[j], name)
      BY <1>0, <2>3
    <3> QED
      BY <1>0, <1>3, <2>3, <3>1, LeadsAppend DEF Send
  <2> HIDE DEF name
  <2>5. events'[j] = Append(events[j], name)
    BY <2>4 DEF ShownInv
  <2>6. Channel(j)'
    <3>1. \A i \in 1..Len(Append(events[j], name)) : Append(events[j], name)[i].kind # "Finished"
      <4>1. \A i \in 1..Len(events[j]) : events[j][i].kind # "Finished"
        BY <1>0 DEF Channel, EndIsLast, Ended, Done
      <4> QED
        BY <1>0, <2>3, <4>1
    <3> QED
      BY <1>0, <1>3, <2>2, <2>5, <3>1 DEF Channel, EndIsLast, Ended, Done
  <2>7. Reported(j) => Reported(j)'
    <3> SUFFICES ASSUME Reported(j), FileLines[f] = 0
                 PROVE  Leads(events'[j], dialog'.total, TotalLines(f))
      <4>1. worker'[j].pc = "read" /\ worker'[j].file = f /\ worker'[j].line = 0
        BY <2>2
      <4> HIDE DEF f
      <4> QED
        BY <4>1 DEF Reported, Awaits, InFile, InBatch, Ended, Done
    <3>1. TotalLines(f) = TotalLines(worker[j].file)
      BY <2>1
    <3>2. Leads(events[j], dialog.total, TotalLines(f))
      BY <1>0, <3>1 DEF Reported, Awaits
    <3>3. Leads(Append(events[j], name), dialog.total, TotalLines(f))
      BY <1>0, <2>3, <3>2, LeadsAppend
    <3> QED
      BY <1>3, <2>5, <3>3
  <2>8. worker[j].pc \notin Ended /\ worker'[j].pc # "none" /\ dialog' = dialog
    BY <1>0, <1>3, <2>2 DEF Ended, Done
  <2>9. \A i \in Jobs \ {j} : worker'[i] = worker[i] /\ result'[i] = result[i]
    BY <1>3, <2>2
  <2> QED
    BY <2>4, <2>6, <2>7, <2>8, <2>9, OneJobShows
<1> QED
  BY <1>1, <1>2, <1>3, <1>4 DEF NextFile, uiVars

\* A line is written, and at the end of a file its last line is reported.
LEMMA WriteLineShows ==
    ASSUME Sums, ShownInv, IInv, NEW j \in Jobs, WriteLine(j)
    PROVE  ShownInv'
<1> DEFINE f == worker[j].file
           n == worker[j].line + 1
           file == Event("FileProgress", f, n)
           total == Event("TotalProgress", f, TotalLines(f - 1) + n)
           progress == IF n = 1 \/ n = FileLines[f] \/ n % Interval = 0
                       THEN <<file, total>> ELSE << >>
<1>0. /\ worker[j].pc = "write" /\ f \in Files /\ n \in Nat
      /\ events[j] \in Seq(Events) /\ Channel(j)
      /\ TotalLines(f - 1) \in Nat /\ TotalLines(f - 1) + FileLines[f] = TotalLines(f)
  <2>1. worker[j].pc = "write" /\ f \in Files /\ n \in Nat
    BY DEF WriteLine, IInv, Types, JobInv, TempInv, InFile, InBatch
  <2> QED
    BY <2>1, TotalsAdd DEF ShownInv
<1>1. /\ file \in Events /\ total \in Events
      /\ file.kind = "FileProgress" /\ total.kind = "TotalProgress"
      /\ total.value = TotalLines(f - 1) + n
  <2>1. f \in Int /\ n \in Int /\ TotalLines(f - 1) + n \in Int
    BY <1>0 DEF Files
  <2> QED
    BY <2>1 DEF Events, Event
<1>2. progress \in Seq(Events) /\ \A i \in 1..Len(progress) : progress[i].kind # "Finished"
  <2> HIDE DEF file, total
  <2>1. <<file, total>> \in Seq(Events) /\ \A i \in 1..2 : <<file, total>>[i].kind # "Finished"
    BY <1>1
  <2> QED
    BY <2>1
<1>3. CASE FinishAfter(j, << >>, "error")
  BY <1>0, <1>3, StopShows DEF Finish, Outcomes, Ended, Done
<1>4. CASE FinishAfter(j, progress, "cancelled")
  <2> HIDE DEF progress
  <2> QED
    BY <1>0, <1>2, <1>4, FinishShows DEF Outcomes, Ended, Done
<1>5. CASE /\ worker' = [worker EXCEPT ![j].line = n,
                                ![j].pc = IF Tail(task[j]) = << >> THEN "read" ELSE "write"]
           /\ Send(j, progress)
           /\ UNCHANGED <<dialog, result>>
  <2>1. /\ worker'[j].pc \in {"read", "write"} /\ worker'[j].line = n /\ worker'[j].file = f
        /\ \A i \in Jobs \ {j} : worker'[i] = worker[i]
    BY <1>5 DEF IInv, Types
  <2> DEFINE q == events[j] \o progress
  <2>2. /\ q \in Seq(Events) /\ events' = [events EXCEPT ![j] = q]
    BY <1>0, <1>2, <1>5 DEF Send
  <2>3. events'[j] = q
    BY <2>2 DEF ShownInv
  <2>4. Channel(j)'
    <3>1. \A i \in 1..Len(events[j]) : events[j][i].kind # "Finished"
      BY <1>0 DEF Channel, EndIsLast, Ended, Done
    <3> HIDE DEF progress
    <3>2. \A i \in 1..Len(q) : q[i].kind # "Finished"
      BY <1>0, <1>2, <3>1
    <3> HIDE DEF q
    <3> QED
      BY <1>0, <1>5, <2>1, <2>3, <3>2 DEF Channel, EndIsLast, Ended, Done
  <2>5. n = FileLines[f] => Leads(q, dialog.total, TotalLines(f))
    <3> SUFFICES ASSUME n = FileLines[f] PROVE Leads(q, dialog.total, TotalLines(f))
      OBVIOUS
    <3>1. progress = <<file, total>> /\ total.value = TotalLines(f)
      BY <1>0, <1>1
    <3>2. q = Append(Append(events[j], file), total)
      <4> HIDE DEF file, total, progress
      <4> QED
        BY <1>0, <1>1, <3>1, SentTogether
    <3> HIDE DEF file, total, progress, q
    <3>3. Append(events[j], file) \in Seq(Events)
      BY <1>0, <1>1, LeadsAppend
    <3> QED
      BY <1>1, <3>1, <3>2, <3>3, LeadsAppend
  <2> HIDE DEF q
  <2>6. Reported(j) => Reported(j)'
    <3>1. worker'[j].line = FileLines[worker'[j].file] => Awaits(j, TotalLines(f))'
      BY <1>5, <2>1, <2>3, <2>5 DEF Awaits, TotalLines
    <3> QED
      BY <2>1, <3>1 DEF Reported, Ended, Done
  <2> QED
    BY <1>0, <1>5, <2>1, <2>2, <2>4, <2>6, OneJobShows DEF Ended, Done
<1> QED
  BY <1>3, <1>4, <1>5 DEF WriteLine, uiVars

\* A job is started with a window of its own, or with none.
LEMMA StartShows ==
    ASSUME Sums, ShownInv, IInv, NEW j \in Jobs, StartTranslation(j)
    PROVE  ShownInv'
<1>0. /\ worker[j].pc = "none" /\ worker' = [worker EXCEPT ![j].pc = "preflight"]
      /\ events' = events /\ result' = result /\ dialog.state = "none"
      /\ dialog' = [NoDialog EXCEPT !.job = j, !.state = "running"] \/ dialog' = dialog
  BY DEF StartTranslation, Goto
<1>1. /\ worker'[j].pc = "preflight" /\ worker'[j].file = 0
      /\ \A i \in Jobs \ {j} : worker'[i] = worker[i]
  BY <1>0 DEF IInv, Types, JobInv, WrittenInv
<1>2. Channel(j) /\ events[j] = << >>
  BY <1>0 DEF ShownInv, Channel
<1>3. \A i \in Jobs : Channel(i)'
  BY <1>0, <1>1, <1>2 DEF ShownInv, Channel, EndIsLast, Ended, Done
<1>4. DialogInv'
  <2>1. CASE dialog' = dialog
    BY <1>0, <2>1 DEF ShownInv, DialogInv, EndShowsTotal
  <2>2. CASE dialog' = [NoDialog EXCEPT !.job = j, !.state = "running"]
    <3>1. /\ dialog'.job = j /\ dialog'.state = "running" /\ dialog'.total = 0
          /\ DOMAIN dialog' = DOMAIN NoDialog
      BY <2>2 DEF NoDialog
    <3>2. Awaits(j, 0)'
      BY <1>0, <1>2, <3>1 DEF Awaits, Leads, Any
    <3>3. Reported(j)'
      BY <1>1, <3>2 DEF Reported, InFile, InBatch, Ended, Done
    <3> QED
      BY <1>1, <3>1, <3>3 DEF DialogInv, EndShowsTotal
  <2> QED
    BY <1>0, <2>1, <2>2
<1> QED
  BY <1>0, <1>3, <1>4 DEF ShownInv

\* The window takes part of what is in the channel.
LEMMA PollShows ==
    ASSUME Sums, ShownInv, IInv, Budget \in Nat, PollEvents
    PROVE  ShownInv'
<1> SUFFICES ASSUME NEW j, j = dialog.job PROVE ShownInv'
  OBVIOUS
<1> DEFINE q == events[j]
           n == IF Len(q) < Budget THEN Len(q) ELSE Budget
           s == SubSeq(q, 1, n)
           r == SubSeq(q, n + 1, Len(q))
<1>0. /\ dialog.state = "running" /\ n > 0
      /\ dialog' = Shown(dialog, s)
      /\ events' = [events EXCEPT ![j] = r]
      /\ UNCHANGED <<worker, result>>
  BY DEF PollEvents, workerVars
<1>1. /\ j \in Jobs /\ q \in Seq(Events) /\ Len(q) \in Nat /\ n \in 1..Len(q)
      /\ Channel(j) /\ Reported(j) /\ worker[j].pc # "none"
  BY <1>0 DEF ShownInv, DialogInv
<1> HIDE DEF n
<1>2. /\ r \in Seq(Events) /\ Len(r) = Len(q) - n
      /\ \A i \in 1..(Len(q) - n) : r[i] = q[n + i]
      /\ Len(s) = n /\ \A i \in 1..n : s[i] = q[i]
  BY <1>1
<1> HIDE DEF r, s
<1>3. events' \in [Jobs -> Seq(Events)] /\ events'[j] = r
      /\ \A i \in Jobs \ {j} : events'[i] = events[i]
  BY <1>0, <1>1, <1>2 DEF ShownInv
<1>4. \A i \in Jobs : Channel(i)'
  <2>1. \A i \in 1..Len(r) : r[i].kind = "Finished" => i = Len(r) /\ worker[j].pc \in Ended
    <3> SUFFICES ASSUME NEW i \in 1..Len(r), r[i].kind = "Finished"
                 PROVE  i = Len(r) /\ worker[j].pc \in Ended
      OBVIOUS
    <3>1. n + i \in 1..Len(q) /\ q[n + i].kind = "Finished"
      BY <1>1, <1>2
    <3> QED
      BY <1>1, <1>2, <3>1 DEF Channel, EndIsLast
  <2>2. Channel(j)'
    BY <1>0, <1>1, <1>3, <2>1 DEF Channel, EndIsLast
  <2> QED
    BY <1>0, <1>3, <2>2 DEF ShownInv, Channel, EndIsLast
<1>5. /\ dialog'.job = j
      /\ dialog'.state = IF Any(s, "Finished") THEN "finished" ELSE "running"
  BY <1>0 DEF Shown
<1>6. "total" \in DOMAIN dialog /\ DOMAIN dialog' = DOMAIN NoDialog
  BY <1>0 DEF ShownInv, DialogInv, NoDialog, Shown
<1>7. \A x : Awaits(j, x) => Awaits(j, x)'
  BY <1>0, <1>1, <1>3, <1>6, LeadsDrained DEF Awaits, r, s
<1>8. Reported(j)'
  BY <1>0, <1>1, <1>7 DEF Reported
<1>9. CASE Any(s, "Finished")
  <2>1. PICK i \in 1..n : q[i].kind = "Finished"
    BY <1>2, <1>9 DEF Any
  <2>2. i = Len(q) /\ worker[j].pc \in Ended /\ n = Len(q)
    BY <1>1, <2>1 DEF Channel, EndIsLast
  <2>3. result[j] = "ok" => dialog'.total = TotalLines(Len(FileLines))
    <3> SUFFICES ASSUME result[j] = "ok" PROVE dialog'.total = TotalLines(Len(FileLines))
      OBVIOUS
    <3>1. Leads(r, dialog'.total, TotalLines(Len(FileLines)))
      BY <1>0, <1>1, <1>3, <1>7, <2>2 DEF Reported, Awaits, Done
    <3>2. Len(r) = 0
      BY <1>1, <1>2, <2>2
    <3> QED
      BY <3>1, <3>2 DEF Leads
  <2>4. DialogInv'
    BY <1>0, <1>1, <1>5, <1>6, <1>9, <2>2, <2>3 DEF DialogInv, EndShowsTotal
  <2> QED
    BY <1>3, <1>4, <2>4 DEF ShownInv
<1>10. CASE ~Any(s, "Finished")
  BY <1>0, <1>1, <1>3, <1>4, <1>5, <1>6, <1>8, <1>10 DEF ShownInv, DialogInv, EndShowsTotal
<1> QED
  BY <1>9, <1>10

\* Every action keeps what the window will show.
LEMMA ShownStep ==
    ASSUME Sums, Budget \in Nat
    PROVE  IInv /\ ShownInv /\ [Next]_vars => ShownInv'
<1> SUFFICES ASSUME IInv, ShownInv, [Next]_vars PROVE ShownInv'
  OBVIOUS
<1>1. ASSUME NEW j \in Jobs, WorkerStep(j) PROVE ShownInv'
  BY <1>1, QuietStepsShow, NextFileShows, WriteLineShows DEF WorkerStep
<1>2. ASSUME NEW j \in Jobs, \/ GetPool(j) \/ DropPool(j)
                              \/ \E k \in DOMAIN task[j] : EndLine(j, k)
      PROVE  ShownInv'
  BY <1>2, QuietStepsShow, DropShows
<1>3. ASSUME NEW j \in Jobs, StartTranslation(j) PROVE ShownInv'
  BY <1>3, StartShows
<1>4. CASE CancelClicked \/ ShutdownTurn \/ ShutdownDeadline \/ UNCHANGED vars
  <2>1. UNCHANGED <<worker, result, events, dialog>>
    BY <1>4 DEF CancelClicked, ShutdownTurn, ShutdownDeadline, vars, workerVars, uiVars
  <2> QED
    BY <2>1 DEF ShownInv, Channel, EndIsLast, DialogInv, Reported, Awaits, EndShowsTotal
<1>5. CASE CloseProgress \/ BeginShutdown
  <2>1. /\ UNCHANGED <<worker, result, events>>
        /\ \/ dialog' = NoDialog
           \/ dialog.state = "finished" /\ dialog' = [dialog EXCEPT !.state = "stuck"]
    <3>1. CASE CloseProgress
      BY <3>1 DEF CloseProgress, workerVars
    <3>2. CASE BeginShutdown
      BY <3>2 DEF BeginShutdown, workerVars
    <3> QED
      BY <1>5, <3>1, <3>2
  <2>2. \A j \in Jobs : Channel(j)'
    BY <2>1 DEF ShownInv, Channel, EndIsLast
  <2>3. DialogInv'
    BY <2>1 DEF ShownInv, DialogInv, EndShowsTotal, NoDialog
  <2> QED
    BY <2>1, <2>2, <2>3 DEF ShownInv
<1> QED
  BY <1>1, <1>2, <1>3, <1>4, <1>5, PollShows DEF Next

LEMMA ShownStart == Init => ShownInv
<1> SUFFICES ASSUME Init PROVE ShownInv
  OBVIOUS
<1>1. << >> \in Seq(Events)
  OBVIOUS
<1>2. events \in [Jobs -> Seq(Events)] /\ \A j \in Jobs : events[j] = << >>
  BY <1>1 DEF Init
<1>3. \A j \in Jobs : Channel(j)
  BY <1>2 DEF Init, Channel, EndIsLast
<1>4. DialogInv
  BY DEF Init, DialogInv, EndShowsTotal, NoDialog
<1> QED
  BY <1>2, <1>3, <1>4 DEF ShownInv

\* Whatever is cancelled, fails or crashes, an output path holds what it held before or the whole
\* file, each line in its place, and a job that reports success has written all its files.
THEOREM OutputsAreWhole == ASSUME Counted PROVE Steps => []OutputsWhole
<1>1. IInv => OutputsWhole
  BY DEF IInv, OutputInv, Lines, OutputsWhole, JobInv, WrittenInv
<1>2. Init => IInv
  BY FilesInit
<1>3. IInv /\ [Next]_vars => IInv'
  BY FilesStep
<1> QED
  BY <1>1, <1>2, <1>3, PTL DEF Steps

\* A thread that has not ended is in the supervisor's map until the deadline of the shutdown
\* detaches it.
THEOREM ThreadsAreJoined == ASSUME Counted PROVE Steps => []NoThreadForgotten
<1>1. IInv => NoThreadForgotten
  BY DEF IInv
<1>2. Init => IInv
  BY FilesInit
<1>3. IInv /\ [Next]_vars => IInv'
  BY FilesStep
<1> QED
  BY <1>1, <1>2, <1>3, PTL DEF Steps

\* A window that reports the end of a job that succeeded shows all lines: the last progress is
\* not lost between the turns of its timer, nor among the events that are merged.
THEOREM EndIsShown == ASSUME Sums, Budget \in Nat PROVE Steps => []EndShowsTotal
<1>1. IInv /\ ShownInv => EndShowsTotal
  BY DEF ShownInv, DialogInv
<1>2. Init => IInv /\ ShownInv
  BY FilesInit, ShownStart, TotalsAdd
<1>3. IInv /\ ShownInv /\ [Next]_vars => IInv' /\ ShownInv'
  BY FilesStep, ShownStep, TotalsAdd
<1> QED
  BY <1>1, <1>2, <1>3, PTL DEF Steps

=============================================================================
