--------------------------- MODULE MCSafety_proofs ---------------------------
(***************************************************************************)
(* The parts that are checked side by side, for any values of the          *)
(* constants that bound them: the configuration file, the translation      *)
(* window, the hook management window, the magnetic mode, the files, the   *)
(* backlog, the merging of texts, and the settings of the translation.  A  *)
(* part runs alone, so the behaviours of all are behaviours of each, and   *)
(* what is proved of a part holds beside the others.                       *)
(***************************************************************************)
EXTENDS MCSafety, HookWorker_proofs, WellFoundedInduction

\* A part takes its own steps or none.
LEMMA FileAlone == SafetySpec => File!Spec
<1>1. SafetyInit => File!Init
  BY DEF SafetyInit
<1>2. [SafetyNext]_allVars => [File!Next]_File!vars
  BY DEF SafetyNext, allVars, fileVars, File!vars
<1> QED
  BY <1>1, <1>2, PTL DEF SafetySpec, File!Spec

LEMMA DialogAlone == SafetySpec => Dialog!Spec
<1>1. SafetyInit => Dialog!Init
  BY DEF SafetyInit
<1>2. [SafetyNext]_allVars => [Dialog!Next]_Dialog!vars
  BY DEF SafetyNext, allVars, dialogVars, Dialog!vars
<1> QED
  BY <1>1, <1>2, PTL DEF SafetySpec, Dialog!Spec

LEMMA FindAlone == SafetySpec => HFind!Spec
<1>1. SafetyInit => HFind!Init
  BY DEF SafetyInit
<1>2. [SafetyNext]_allVars => [HFind!Next]_HFind!vars
  BY DEF SafetyNext, allVars, findVars, HFind!vars
<1> QED
  BY <1>1, <1>2, PTL DEF SafetySpec, HFind!Spec

LEMMA MagnetAlone == SafetySpec => Magnet!Spec
<1>1. SafetyInit => Magnet!Init
  BY DEF SafetyInit
<1>2. [SafetyNext]_allVars => [Magnet!Next]_Magnet!vars
  BY DEF SafetyNext, allVars, magnetVars, Magnet!vars
<1> QED
  BY <1>1, <1>2, PTL DEF SafetySpec, Magnet!Spec

FileAnything ==
    [form : File!Forms \cup {"absent", "part"}, n : Nat, path : {"dat", "user", "elsewhere", "here"},
     api : {"single", "list"}]

FileProcesses ==
    [at : File!States, settings : FileAnything, seen : FileAnything, blind : BOOLEAN, last : BOOLEAN]

FileTypes ==
    /\ file \in FileAnything
    /\ temp \in [FileProcess -> FileAnything]
    /\ proc \in [FileProcess -> FileProcesses]
    /\ contents \in Nat

\* What is put in the file's place was written to its end.
FileComplete == \A p \in FileProcess : proc[p].at = "replacing" => temp[p].form = "ok"

\* A process that may save has read what it saw at the path, saw that nothing was there, or
\* knows that it runs blind.
FileHasRead ==
    \A p \in FileProcess :
        proc[p].at \in {"running", "creating", "writing", "replacing"} /\ ~proc[p].blind =>
            proc[p].seen.form \in {"absent", "ok", "legacy"}

FileInv == FileTypes /\ File!FileIsWhole /\ FileComplete /\ FileHasRead

\* The contents that the model makes are contents.
LEMMA FileContentsAreTyped ==
    /\ File!Absent \in FileAnything /\ File!Partial \in FileAnything /\ File!Defaults \in FileAnything
    /\ File!Absent.form = "absent" /\ File!Partial.form = "part"
    /\ \A n \in Nat : File!Contents(n) \subseteq FileAnything
    /\ \A c \in FileAnything : File!Migrated(c) \in FileAnything /\ File!Migrated(c).form = "ok"
    /\ File!NotRunning \in FileProcesses
    /\ File!NotRunning.at = "off" /\ File!NotRunning.seen = File!Absent
<1>1. File!Absent \in FileAnything /\ File!Absent.form = "absent" /\ File!Defaults \in FileAnything
  BY DEF FileAnything, File!Absent, File!Defaults, File!Forms
<1>2. File!Partial \in FileAnything /\ File!Partial.form = "part"
  BY DEF FileAnything, File!Absent, File!Partial, File!Forms
<1>3. \A n \in Nat : File!Contents(n) \subseteq FileAnything
  BY DEF FileAnything, File!Contents, File!Forms
<1>4. \A c \in FileAnything : File!Migrated(c) \in FileAnything /\ File!Migrated(c).form = "ok"
  BY DEF FileAnything, File!Migrated, File!Forms
<1>5. File!NotRunning.at = "off" /\ File!NotRunning.seen = File!Absent
  BY DEF File!NotRunning
<1>6. File!NotRunning \in FileProcesses
  BY <1>1 DEF File!NotRunning, File!States, FileProcesses
<1> QED
  BY <1>1, <1>2, <1>3, <1>4, <1>5, <1>6

\* No process runs at first, and no earlier contents are part of a save.
LEMMA FileInit == File!Init => FileInv
<1> SUFFICES ASSUME File!Init PROVE FileInv
  OBVIOUS
<1>1. file \in FileAnything /\ file.form # "part"
  <2>1. CASE file = File!Absent
    BY <2>1, FileContentsAreTyped
  <2>2. CASE file \in File!Contents(1)
    <3>1. file.form \in File!Forms
      BY <2>2 DEF File!Contents
    <3> QED
      BY <2>2, <3>1, FileContentsAreTyped DEF File!Forms
  <2> QED
    BY <2>1, <2>2 DEF File!Init
<1>2. FileTypes
  BY <1>1, FileContentsAreTyped DEF File!Init, FileTypes
<1>3. \A p \in FileProcess : proc[p].at = "off"
  BY FileContentsAreTyped DEF File!Init
<1> QED
  BY <1>1, <1>2, <1>3 DEF FileInv, File!FileIsWhole, FileComplete, FileHasRead

\* The action of one process changes its own state and temporary file only; what it must
\* establish for the invariant.
LEMMA FileOneProcess ==
    ASSUME FileInv, NEW p \in FileProcess, NEW s \in FileProcesses,
           proc' = [proc EXCEPT ![p] = s],
           temp' = temp \/ \E t \in FileAnything : temp' = [temp EXCEPT ![p] = t],
           s.at = "replacing" => temp'[p].form = "ok",
           s.at \in {"running", "creating", "writing", "replacing"} /\ ~s.blind =>
               s.seen.form \in {"absent", "ok", "legacy"},
           file' \in FileAnything, file'.form # "part", contents' \in Nat
    PROVE  FileInv'
<1>1. temp' \in [FileProcess -> FileAnything] /\ \A q \in FileProcess \ {p} : temp'[q] = temp[q]
  BY DEF FileInv, FileTypes
<1>2. proc' \in [FileProcess -> FileProcesses]
  BY DEF FileInv, FileTypes
<1>3. \A q \in FileProcess : proc'[q] = IF q = p THEN s ELSE proc[q]
  BY DEF FileInv, FileTypes
<1>4. FileComplete'
  BY <1>1, <1>3 DEF FileInv, FileComplete
<1>5. FileHasRead'
  BY <1>3 DEF FileInv, FileHasRead
<1> QED
  BY <1>1, <1>2, <1>4, <1>5 DEF FileInv, FileTypes, File!FileIsWhole

\* Every action keeps it.
LEMMA FileStep == FileInv /\ [File!Next]_File!vars => FileInv'
<1> SUFFICES ASSUME FileInv, [File!Next]_File!vars PROVE FileInv'
  OBVIOUS
<1>1. ASSUME NEW p \in FileProcess PROVE
      /\ proc[p] \in FileProcesses /\ temp[p] \in FileAnything
      /\ file \in FileAnything /\ file.form # "part" /\ contents \in Nat
      /\ proc[p].at = "replacing" => temp[p].form = "ok"
      /\ proc[p].at \in {"running", "creating", "writing", "replacing"} /\ ~proc[p].blind =>
             proc[p].seen.form \in {"absent", "ok", "legacy"}
  BY DEF FileInv, FileTypes, File!FileIsWhole, FileComplete, FileHasRead
<1>2. ASSUME NEW p \in FileProcess, File!Start(p) PROVE FileInv'
  <2>1. PICK pc \in {"creating", "reading"} :
            proc' = [proc EXCEPT ![p] = [File!NotRunning EXCEPT !.at = pc]]
    BY <1>2 DEF File!Start
  <2> DEFINE s == [File!NotRunning EXCEPT !.at = pc]
  <2>2. s \in FileProcesses /\ s.at = pc /\ s.seen = File!Absent
    BY FileContentsAreTyped DEF File!NotRunning, File!States, FileProcesses
  <2>3. UNCHANGED <<temp, file, contents>>
    BY <1>2 DEF File!Start
  <2> HIDE DEF s
  <2> QED
    BY <1>1, <2>1, <2>2, <2>3, FileOneProcess, FileContentsAreTyped DEF s
<1>3. ASSUME NEW p \in FileProcess, File!Read(p) PROVE FileInv'
  <2>1. UNCHANGED <<temp, file, contents>>
    BY <1>3 DEF File!Read
  <2>2. PICK pc \in {"running", "quarantine", "creating"}, settings \in FileAnything, blind \in BOOLEAN :
          /\ proc' = [proc EXCEPT ![p] = [@ EXCEPT !.at = pc, !.settings = settings,
                                               !.seen = file, !.blind = blind]]
          /\ pc = "quarantine" \/ blind \/ file.form \in {"ok", "legacy"}
    <3>1. [File!Migrated(file) EXCEPT !.path = "here"] \in FileAnything
      BY <1>1, <1>3, FileContentsAreTyped DEF FileAnything
    <3> QED
      BY <1>1, <1>3, <3>1, FileContentsAreTyped DEF File!Read, File!Decodes
  <2> DEFINE s == [proc[p] EXCEPT !.at = pc, !.settings = settings, !.seen = file, !.blind = blind]
  <2>3. s \in FileProcesses /\ s.at = pc /\ s.seen = file /\ s.blind = blind
    BY <1>1 DEF File!States, FileProcesses
  <2>4. proc' = [proc EXCEPT ![p] = s]
    BY <2>2
  <2> HIDE DEF s
  <2>5. /\ s.at # "replacing"
        /\ s.at = "quarantine" \/ s.blind \/ s.seen.form \in {"absent", "ok", "legacy"}
    BY <2>2, <2>3
  <2> QED
    BY <1>1, <2>1, <2>3, <2>4, <2>5, FileOneProcess
<1>4. ASSUME NEW p \in FileProcess, File!Quarantine(p) PROVE FileInv'
  <2> DEFINE s == [proc[p] EXCEPT !.at = "running", !.seen = File!Absent]
  <2>1. s \in FileProcesses /\ s.at = "running" /\ s.seen = File!Absent
    BY <1>1, FileContentsAreTyped DEF File!States, FileProcesses
  <2>2. proc' = [proc EXCEPT ![p] = s] /\ file' = File!Absent /\ UNCHANGED <<temp, contents>>
    BY <1>4 DEF File!Quarantine
  <2> HIDE DEF s
  <2> QED
    BY <1>1, <2>1, <2>2, FileOneProcess, FileContentsAreTyped
<1>5. ASSUME NEW p \in FileProcess, File!QuarantineFails(p) PROVE FileInv'
  <2> DEFINE s == [proc[p] EXCEPT !.at = "running", !.blind = TRUE]
  <2>1. s \in FileProcesses /\ s.at = "running" /\ s.blind
    BY <1>1 DEF File!States, FileProcesses
  <2>2. proc' = [proc EXCEPT ![p] = s] /\ UNCHANGED <<temp, file, contents>>
    BY <1>5 DEF File!QuarantineFails
  <2> HIDE DEF s
  <2> QED
    BY <1>1, <2>1, <2>2, FileOneProcess
<1>6. ASSUME NEW p \in FileProcess, File!Change(p) PROVE FileInv'
  <2>1. PICK path \in {proc[p].settings.path, "user"} :
          proc' = [proc EXCEPT ![p].settings.n = contents + 1, ![p].settings.path = path]
    BY <1>6 DEF File!Change
  <2> DEFINE settings == [proc[p].settings EXCEPT !.n = contents + 1, !.path = path]
             s == [proc[p] EXCEPT !.settings = settings]
  <2>2. settings \in FileAnything
    <3>1. proc[p].settings \in FileAnything
      BY <1>1 DEF FileProcesses
    <3>2. path \in {"dat", "user", "elsewhere", "here"} /\ contents + 1 \in Nat
      BY <1>1, <2>1, <3>1 DEF FileAnything
    <3> QED
      BY <3>1, <3>2 DEF FileAnything
  <2>3. proc' = [proc EXCEPT ![p] = s]
    <3> DEFINE counted == [proc[p].settings EXCEPT !.n = contents + 1]
               r == [proc[p] EXCEPT !.settings = counted]
    <3>1. proc' = [[proc EXCEPT ![p] = r] EXCEPT ![p].settings.path = path]
      BY <2>1
    <3>2. [proc EXCEPT ![p] = r][p] = r
      BY DEF FileInv, FileTypes
    <3>3. r.settings = counted
      BY <1>1 DEF FileProcesses
    <3>4. [r EXCEPT !.settings = settings] = s
      BY <1>1 DEF FileProcesses
    <3>5. settings = [counted EXCEPT !.path = path]
      OBVIOUS
    <3> HIDE DEF settings, counted, r, s
    <3>6. proc' = [[proc EXCEPT ![p] = r] EXCEPT ![p] = s]
      BY <3>1, <3>2, <3>3, <3>4, <3>5
    <3> QED
      BY <3>6 DEF FileInv, FileTypes
  <2> HIDE DEF settings
  <2>4. s \in FileProcesses /\ s.at = proc[p].at /\ s.seen = proc[p].seen /\ s.blind = proc[p].blind
    BY <1>1, <2>2 DEF FileProcesses
  <2>5. UNCHANGED <<temp, file>> /\ contents' \in Nat
    BY <1>1, <1>6 DEF File!Change
  <2> HIDE DEF s
  <2> QED
    BY <1>1, <2>3, <2>4, <2>5, FileOneProcess
<1>7. ASSUME NEW p \in FileProcess, File!BeginSave(p) PROVE FileInv'
  <2>1. PICK last \in BOOLEAN :
          /\ proc' = [proc EXCEPT ![p] = [proc[p] EXCEPT !.at = "writing", !.last = last]]
          /\ proc[p].at \in {"running", "creating"}
    <3>1. CASE proc[p].at = "creating" /\ File!Goes(p, "writing")
      <4>1. [proc[p] EXCEPT !.at = "writing"]
              = [proc[p] EXCEPT !.at = "writing", !.last = proc[p].last]
        BY <1>1 DEF FileProcesses
      <4>2. proc[p].last \in BOOLEAN
        BY <1>1 DEF FileProcesses
      <4> QED
        BY <3>1, <4>1, <4>2 DEF File!Goes
    <3>2. CASE proc[p].at = "running" /\ \E last \in BOOLEAN :
              proc' = [proc EXCEPT ![p].at = "writing", ![p].last = last]
      BY <1>1, <3>2 DEF FileInv, FileTypes, FileProcesses
    <3> QED
      BY <1>7, <3>1, <3>2 DEF File!BeginSave, File!Saves
  <2> DEFINE s == [proc[p] EXCEPT !.at = "writing", !.last = last]
  <2>2. s \in FileProcesses /\ s.at = "writing" /\ s.seen = proc[p].seen /\ s.blind = proc[p].blind
    BY <1>1 DEF File!States, FileProcesses
  <2>3. temp' = [temp EXCEPT ![p] = File!Partial] /\ UNCHANGED <<file, contents>>
    BY <1>7 DEF File!BeginSave
  <2>4. proc' = [proc EXCEPT ![p] = s]
    BY <2>1
  <2> HIDE DEF s
  <2> QED
    BY <1>1, <2>1, <2>2, <2>3, <2>4, FileOneProcess, FileContentsAreTyped
<1>8. ASSUME NEW p \in FileProcess, File!FinishWriting(p) PROVE FileInv'
  <2> DEFINE s == [proc[p] EXCEPT !.at = "replacing"]
  <2>1. s \in FileProcesses /\ s.seen = proc[p].seen /\ s.blind = proc[p].blind
    BY <1>1 DEF File!States, FileProcesses
  <2>2. /\ proc' = [proc EXCEPT ![p] = s] /\ UNCHANGED <<file, contents>>
        /\ temp' = [temp EXCEPT ![p] = File!Migrated(proc[p].settings)]
    BY <1>8 DEF File!FinishWriting, File!Goes
  <2>3. proc[p].settings \in FileAnything /\ proc[p].at = "writing"
    BY <1>1, <1>8 DEF File!FinishWriting, FileProcesses
  <2> HIDE DEF s
  <2>4. temp'[p].form = "ok" /\ File!Migrated(proc[p].settings) \in FileAnything
    BY <2>2, <2>3, FileContentsAreTyped DEF FileInv, FileTypes
  <2> QED
    BY <1>1, <2>1, <2>2, <2>3, <2>4, FileOneProcess
<1>9. ASSUME NEW p \in FileProcess, File!Replace(p) PROVE FileInv'
  <2>1. /\ proc[p].at = "replacing" /\ file' = temp[p] /\ temp[p].form = "ok"
        /\ temp' = [temp EXCEPT ![p] = File!Absent] /\ UNCHANGED contents
    BY <1>1, <1>9 DEF File!Replace
  <2>2. CASE proc[p].last
    <3>1. proc' = [proc EXCEPT ![p] = File!NotRunning]
      BY <1>9, <2>2 DEF File!Replace
    <3> QED
      BY <1>1, <2>1, <3>1, FileOneProcess, FileContentsAreTyped
  <2>3. CASE ~proc[p].last
    <3> DEFINE seen == IF proc[p].blind THEN proc[p].seen ELSE temp[p]
               s == [proc[p] EXCEPT !.at = "running", !.seen = seen]
    <3>1. proc' = [proc EXCEPT ![p] = s]
      BY <1>9, <2>3 DEF File!Replace
    <3>2. seen \in FileAnything /\ (~proc[p].blind => seen.form = "ok")
      BY <1>1, <2>1 DEF FileProcesses
    <3> HIDE DEF seen
    <3>3. s \in FileProcesses /\ s.at = "running" /\ s.seen = seen /\ s.blind = proc[p].blind
      BY <1>1, <3>2 DEF File!States, FileProcesses
    <3> HIDE DEF s
    <3> QED
      BY <1>1, <2>1, <3>1, <3>2, <3>3, FileOneProcess, FileContentsAreTyped
  <2> QED
    BY <2>2, <2>3
<1>10. ASSUME NEW p \in FileProcess, File!SaveFails(p) PROVE FileInv'
  <2>1. /\ proc[p].at \in {"writing", "replacing"}
        /\ temp' = [temp EXCEPT ![p] = File!Absent] /\ UNCHANGED <<file, contents>>
    BY <1>10 DEF File!SaveFails
  <2>2. CASE proc[p].last
    <3>1. proc' = [proc EXCEPT ![p] = File!NotRunning]
      BY <1>10, <2>2 DEF File!SaveFails
    <3> QED
      BY <1>1, <2>1, <3>1, FileOneProcess, FileContentsAreTyped
  <2>3. CASE ~proc[p].last
    <3> DEFINE s == [proc[p] EXCEPT !.at = "running"]
    <3>1. proc' = [proc EXCEPT ![p] = s]
      BY <1>10, <2>3 DEF File!SaveFails
    <3>2. s \in FileProcesses /\ s.at = "running" /\ s.seen = proc[p].seen /\ s.blind = proc[p].blind
      BY <1>1 DEF File!States, FileProcesses
    <3> HIDE DEF s
    <3> QED
      BY <1>1, <2>1, <3>1, <3>2, FileOneProcess, FileContentsAreTyped
  <2> QED
    BY <2>2, <2>3
<1>11. ASSUME NEW p \in FileProcess, File!End(p) \/ File!Crash(p) PROVE FileInv'
  <2>1. /\ proc' = [proc EXCEPT ![p] = File!NotRunning] /\ UNCHANGED <<file, contents>>
        /\ temp' = temp \/ temp' = [temp EXCEPT ![p] = File!Absent]
    BY <1>11 DEF File!End, File!Crash
  <2> QED
    BY <1>1, <2>1, FileOneProcess, FileContentsAreTyped
<1>12. CASE File!Hold \/ UNCHANGED File!vars
  BY <1>12 DEF File!Hold, File!vars, FileInv, FileTypes, File!FileIsWhole, FileComplete,
               FileHasRead
<1>13. CASE File!EditByHand
  <2>1. file' \in File!Contents(contents + 1)
    BY <1>13 DEF File!EditByHand, File!Contents, File!Forms
  <2>2. file' \in FileAnything /\ file'.form # "part"
    <3>1. contents + 1 \in Nat
      BY DEF FileInv, FileTypes
    <3>2. file'.form \in File!Forms
      BY <2>1 DEF File!Contents
    <3> QED
      BY <2>1, <3>1, <3>2, FileContentsAreTyped DEF File!Forms
  <2> QED
    BY <1>13, <2>2 DEF File!EditByHand, FileInv, FileTypes, File!FileIsWhole, FileComplete,
                       FileHasRead
<1> QED
  BY <1>2, <1>3, <1>4, <1>5, <1>6, <1>7, <1>8, <1>9, <1>10, <1>11, <1>12, <1>13 DEF File!Next

\* Whenever a process is killed or a step of a save fails, config.toml is one save or the other
\* from end to end.
THEOREM SavesAreAtomic == SafetySpec => []FileIsWhole
<1>1. FileInv => FileIsWhole
  BY DEF FileInv, FileIsWhole
<1> QED
  BY FileInit, FileStep, FileAlone, <1>1, PTL DEF File!Spec

\* Contents that a process saw and could not read are set aside before anything of its own takes
\* their place, however many processes run at once; only a process that could not open the file
\* or set it aside saves the defaults over it.
THEOREM UnreadIsSetAside == SafetySpec => ReplacedOnlyWhenRead
<1> DEFINE Kept == \/ file' = file \/ file.form = "absent" \/ (\E a \in aside' : a.n = file.n)
                   \/ contents' # contents
                   \/ \E p \in FileProcess :
                        /\ proc[p].at = "replacing" /\ temp'[p] = File!Absent
                        /\ proc[p].blind \/ proc[p].seen # file \/ file.form \in {"ok", "legacy"}
<1>1. ASSUME FileInv, [File!Next]_File!vars PROVE [Kept]_File!vars
  <2>1. ASSUME NEW p \in FileProcess, File!Quarantine(p) PROVE Kept
    <3> DEFINE rivals == {q \in FileProcess \ {p} : proc[q].at = "quarantine"}
               name == [n |-> file.n, rivals |-> rivals]
    <3>1. name \in aside'
      BY <2>1 DEF File!Quarantine
    <3>2. name.n = file.n
      OBVIOUS
    <3> QED
      BY <3>1, <3>2
  <2>2. ASSUME NEW p \in FileProcess, File!Replace(p) PROVE Kept
    <3>1. proc[p].at = "replacing" /\ temp'[p] = File!Absent
      BY <1>1, <2>2 DEF File!Replace, FileInv, FileTypes
    <3>2. proc[p].blind \/ proc[p].seen # file \/ file.form \in {"absent", "ok", "legacy"}
      BY <1>1, <3>1 DEF FileInv, FileHasRead
    <3> QED
      BY <3>1, <3>2
  <2>3. CASE File!EditByHand
    BY <1>1, <2>3 DEF File!EditByHand, FileInv, FileTypes
  <2>4. ASSUME NEW p \in FileProcess,
               \/ File!Start(p) \/ File!Read(p) \/ File!QuarantineFails(p) \/ File!Change(p) \/ File!BeginSave(p)
               \/ File!FinishWriting(p) \/ File!SaveFails(p) \/ File!End(p) \/ File!Crash(p)
        PROVE  file' = file
    BY <2>4 DEF File!Start, File!Read, File!QuarantineFails, File!Change, File!BeginSave,
                File!FinishWriting, File!SaveFails,
                File!End, File!Crash
  <2>5. CASE File!Hold
    BY <2>5 DEF File!Hold
  <2> QED
    BY <1>1, <2>1, <2>2, <2>3, <2>4, <2>5 DEF File!Next
<1>2. FileInv /\ [File!Next]_File!vars => [Kept]_File!vars
  BY <1>1
<1> QED
  BY FileInit, FileStep, FileAlone, <1>2, PTL
     DEF File!Spec, File!ReplacedOnlyWhenRead, ReplacedOnlyWhenRead

DialogRequests == [source : DialogText \cup {Dialog!Empty}, route : DialogRoute]
DialogIds == 1..Len(requested)

\* `wanted` and the answers are ids of requests, so an answer is never taken for "none".
DialogTypes ==
    /\ typed \in DialogText \cup {Dialog!Empty} /\ choice \in DialogRoute
    /\ requested \in Seq(DialogRequests)
    /\ in_flight_id \in 0..Len(requested) /\ wanted \in 0..Len(requested)
    /\ replies \in Seq(Nat \ {0})
    /\ posts \in Nat /\ trouble \in Nat

\* The request that the window waits for; a closed window waits for none.
DialogFits ==
    in_flight_id # 0 =>
        /\ shownDialog
        /\ requested[in_flight_id] = [source |-> typed, route |-> choice]
        /\ last_submitted_source = typed
        /\ wanted = in_flight_id \/ trouble > 0

DialogInv == DialogTypes /\ DialogFits /\ Dialog!AnswersHaveMessages /\ Dialog!TranslationFitsWindow

\* A new window waits for nothing.
LEMMA DialogInit == Dialog!Init => DialogInv
<1> SUFFICES ASSUME Dialog!Init PROVE DialogInv
  OBVIOUS
<1>1. DialogTypes
  BY DEF Dialog!Init, DialogTypes, DialogRequests
<1>2. DialogFits /\ Dialog!AnswersHaveMessages /\ Dialog!TranslationFitsWindow
  BY DEF Dialog!Init, DialogFits, Dialog!AnswersHaveMessages, Dialog!TranslationFitsWindow,
         Dialog!Notice
<1> QED
  BY <1>1, <1>2 DEF DialogInv

\* What every handler that translates does to what waits, whatever it changed before:
\* either the window waits for a request for its new fields, or for the one before, or for none.
LEMMA DialogTranslatingFits ==
    ASSUME DialogInv, NEW stale \in BOOLEAN, Dialog!DoTranslate(stale),
           typed' \in DialogText \cup {Dialog!Empty}, choice' \in DialogRoute,
           in_flight_id # 0 /\ ~stale => typed' = typed /\ choice' = choice,
           shownDialog, shownDialog'
    PROVE  DialogInv'
<1> USE DEF DialogInv, DialogTypes, DialogFits, Dialog!AnswersHaveMessages,
            Dialog!TranslationFitsWindow
<1>1. CASE typed' = Dialog!Empty /\ Dialog!Unless(stale) /\ UNCHANGED <<answer, trouble>>
  <2>1. CASE stale /\ in_flight_id # 0
    BY <1>1, <2>1 DEF Dialog!Unless, Dialog!Invalidate, Dialog!Cancel
  <2>2. CASE stale /\ in_flight_id = 0
    BY <1>1, <2>2 DEF Dialog!Unless, Dialog!Invalidate, Dialog!dispatcher
  <2>3. CASE ~stale
    BY <1>1, <2>3 DEF Dialog!Unless, Dialog!request, Dialog!dispatcher
  <2> QED
    BY <2>1, <2>2, <2>3
<1>2. CASE typed' # Dialog!Empty /\ Dialog!Fails /\ answer' = Dialog!Notice("error") /\ Dialog!Unless(stale)
  <2>1. trouble' \in Nat /\ trouble' > 0
    BY <1>2 DEF Dialog!Fails
  <2>2. Dialog!TranslationFitsWindow'
    BY <1>2 DEF Dialog!Notice
  <2>3. CASE stale /\ in_flight_id # 0
    BY <1>2, <2>1, <2>2, <2>3 DEF Dialog!Unless, Dialog!Invalidate, Dialog!Cancel
  <2>4. CASE stale /\ in_flight_id = 0
    BY <1>2, <2>1, <2>2, <2>4 DEF Dialog!Unless, Dialog!Invalidate, Dialog!dispatcher
  <2>5. CASE ~stale
    BY <1>2, <2>1, <2>2, <2>5 DEF Dialog!Unless, Dialog!request, Dialog!dispatcher
  <2> QED
    BY <2>3, <2>4, <2>5
<1>3. CASE /\ typed' # Dialog!Empty
           /\ requested' = Append(requested, [source |-> typed', route |-> choice'])
           /\ replies' = IF stale THEN << >> ELSE replies
           /\ UNCHANGED posts
           /\ \/ /\ answer' = Dialog!Notice("busy")
                 /\ wanted' = Len(requested') /\ in_flight_id' = wanted'
                 /\ last_submitted_source' = typed'
                 /\ UNCHANGED trouble
              \/ /\ Dialog!Fails
                 /\ answer' = Dialog!Notice("error")
                 /\ wanted' = 0 /\ in_flight_id' = 0
                 /\ last_submitted_source' = IF stale THEN Dialog!Empty ELSE last_submitted_source
  <2>1. /\ requested' \in Seq(DialogRequests) /\ Len(requested') = Len(requested) + 1
        /\ requested'[Len(requested')] = [source |-> typed', route |-> choice']
    BY <1>3 DEF DialogRequests
  <2>2. replies' \in Seq(Nat \ {0}) /\ Len(replies') <= posts /\ posts' = posts
    BY <1>3
  <2>3. Dialog!TranslationFitsWindow'
    BY <1>3 DEF Dialog!Notice
  <2>4. trouble' \in Nat
    BY <1>3 DEF Dialog!Fails
  <2> QED
    BY <1>3, <2>1, <2>2, <2>3, <2>4
<1> QED
  BY <1>1, <1>2, <1>3 DEF Dialog!DoTranslate

\* A step gives the request up, or keeps it for the same fields.
LEMMA DialogGivingUpFits ==
    ASSUME DialogInv, NEW stale \in BOOLEAN, Dialog!Unless(stale), UNCHANGED <<answer, trouble>>,
           typed' \in DialogText \cup {Dialog!Empty}, choice' \in DialogRoute,
           in_flight_id # 0 /\ ~stale => typed' = typed /\ choice' = choice,
           shownDialog, shownDialog'
    PROVE  DialogInv'
<1> USE DEF DialogInv, DialogTypes, DialogFits, Dialog!AnswersHaveMessages,
            Dialog!TranslationFitsWindow
<1>1. CASE stale /\ in_flight_id # 0
  BY <1>1 DEF Dialog!Unless, Dialog!Invalidate, Dialog!Cancel
<1>2. CASE stale /\ in_flight_id = 0
  BY <1>2 DEF Dialog!Unless, Dialog!Invalidate, Dialog!dispatcher
<1>3. CASE ~stale
  BY <1>3 DEF Dialog!Unless, Dialog!request, Dialog!dispatcher
<1> QED
  BY <1>1, <1>2, <1>3

\* Every step of the user, the timer and the dispatcher keeps it.
LEMMA DialogStep == DialogInv /\ [Dialog!Next]_Dialog!vars => DialogInv'
<1> SUFFICES ASSUME DialogInv, [Dialog!Next]_Dialog!vars PROVE DialogInv'
  OBVIOUS
<1> USE DEF DialogInv, DialogTypes, DialogFits
<1>1. ASSUME NEW text \in DialogText, Dialog!Edit(text) PROVE DialogInv'
  <2> DEFINE stale == in_flight_id # 0 /\ text # last_submitted_source
  <2>1. /\ stale \in BOOLEAN /\ typed' = text /\ choice' = choice
        /\ in_flight_id # 0 => stale
        /\ shownDialog /\ shownDialog'
    BY <1>1 DEF Dialog!Edit, Dialog!Acts
  <2>2. CASE Dialog!DoTranslate(stale)
    BY <2>1, <2>2, DialogTranslatingFits
  <2>3. CASE Dialog!Unless(stale) /\ UNCHANGED <<answer, trouble>>
    BY <2>1, <2>3, DialogGivingUpFits
  <2> QED
    BY <1>1, <2>2, <2>3 DEF Dialog!Edit
<1>2. ASSUME NEW r \in DialogRoute, Dialog!ChangeRoute(r) PROVE DialogInv'
  <2>1. /\ Dialog!Unless(TRUE) /\ UNCHANGED <<answer, trouble, typed>>
        /\ choice' = r /\ shownDialog /\ shownDialog'
    BY <1>2 DEF Dialog!ChangeRoute, Dialog!Unless, Dialog!Acts
  <2> QED
    BY <2>1, DialogGivingUpFits
<1>3. CASE Dialog!ClickTranslate
  <2>1. Dialog!DoTranslate(FALSE) /\ UNCHANGED <<typed, choice>> /\ shownDialog /\ shownDialog'
    BY <1>3 DEF Dialog!ClickTranslate, Dialog!Acts
  <2> QED
    BY <2>1, DialogTranslatingFits
<1>4. CASE Dialog!Timer
  <2>1. Dialog!DoTranslate(FALSE) /\ UNCHANGED <<typed, choice>> /\ shownDialog /\ shownDialog'
    BY <1>4 DEF Dialog!Timer
  <2> QED
    BY <2>1, DialogTranslatingFits
<1>5. CASE Dialog!ToggleOneGo \/ UNCHANGED Dialog!vars
  BY <1>5 DEF Dialog!ToggleOneGo, Dialog!vars, Dialog!request, Dialog!dispatcher,
              Dialog!AnswersHaveMessages, Dialog!TranslationFitsWindow
<1>6. CASE Dialog!ClearText
  <2>1. Dialog!TranslationFitsWindow'
    BY <1>6 DEF Dialog!ClearText, Dialog!TranslationFitsWindow, Dialog!Notice
  <2>2. CASE in_flight_id # 0
    BY <1>6, <2>1, <2>2 DEF Dialog!ClearText, Dialog!Invalidate, Dialog!Cancel,
                        Dialog!AnswersHaveMessages
  <2>3. CASE in_flight_id = 0
    BY <1>6, <2>1, <2>3 DEF Dialog!ClearText, Dialog!Invalidate, Dialog!dispatcher,
                        Dialog!AnswersHaveMessages
  <2> QED
    BY <2>2, <2>3
<1>7. CASE Dialog!Close
  <2>1. Dialog!TranslationFitsWindow'
    BY <1>7 DEF Dialog!Close, Dialog!TranslationFitsWindow, Dialog!Notice
  <2> QED
    BY <1>7, <2>1 DEF Dialog!Close, Dialog!AnswersHaveMessages
<1>8. CASE Dialog!Open
  BY <1>8 DEF Dialog!Open, Dialog!request, Dialog!dispatcher, Dialog!AnswersHaveMessages,
              Dialog!TranslationFitsWindow
<1>9. CASE Dialog!Answer
  <2>1. replies' \in Seq(Nat \ {0}) /\ Len(replies') <= posts' /\ posts' \in Nat
    <3>1. wanted \in Nat \ {0}
      BY <1>9 DEF Dialog!Answer
    <3>2. \/ replies' = Append(replies, wanted) /\ posts' = posts + 1
          \/ UNCHANGED <<replies, posts>>
      BY <1>9 DEF Dialog!Answer
    <3>3. CASE replies' = Append(replies, wanted) /\ posts' = posts + 1
      <4>1. Append(replies, wanted) \in Seq(Nat \ {0})
        BY <3>1
      <4>2. Len(Append(replies, wanted)) = Len(replies) + 1
        BY <3>1
      <4> QED
        BY <3>3, <4>1, <4>2 DEF Dialog!AnswersHaveMessages
    <3> QED
      BY <3>2, <3>3 DEF Dialog!AnswersHaveMessages
  <2>2. /\ UNCHANGED <<shownDialog, typed, choice, requested, Dialog!request, answer>>
        /\ \/ UNCHANGED <<wanted, trouble>>
           \/ wanted' = 0 /\ trouble' \in Nat /\ trouble' > 0
    BY <1>9 DEF Dialog!Answer, Dialog!Fails
  <2> QED
    BY <2>1, <2>2 DEF Dialog!request, Dialog!AnswersHaveMessages, Dialog!TranslationFitsWindow
<1>10. CASE Dialog!Complete
  <2>1. /\ posts > 0 /\ posts' = posts - 1
        /\ UNCHANGED <<shownDialog, typed, choice, requested, last_submitted_source, trouble>>
    BY <1>10 DEF Dialog!Complete
  <2>2. CASE replies = << >>
    BY <1>10, <2>1, <2>2 DEF Dialog!Complete, Dialog!AnswersHaveMessages,
                        Dialog!TranslationFitsWindow
  <2>3. CASE replies # << >>
    <3>0. /\ Head(replies) \in Nat \ {0} /\ Tail(replies) \in Seq(Nat \ {0})
          /\ Len(Tail(replies)) = Len(replies) - 1
      BY <2>3
    <3>1. /\ replies' = Tail(replies)
          /\ wanted' = IF wanted = Head(replies) THEN 0 ELSE wanted
      BY <1>10, <2>3 DEF Dialog!Complete
    <3>2. Dialog!AnswersHaveMessages'
      BY <2>1, <3>0, <3>1 DEF Dialog!AnswersHaveMessages
    <3>3. CASE Head(replies) # in_flight_id
      <4>1. UNCHANGED <<answer, in_flight_id>>
        BY <1>10, <2>3, <3>3 DEF Dialog!Complete
      <4> QED
        BY <2>1, <3>0, <3>1, <3>2, <3>3, <4>1 DEF Dialog!TranslationFitsWindow
    <3>4. CASE Head(replies) = in_flight_id
      <4>1. /\ in_flight_id' = 0
            /\ answer' = IF typed # last_submitted_source THEN answer
                       ELSE [kind |-> "translation", of |-> requested[Head(replies)],
                             beside |-> [source |-> typed, route |-> choice]]
        BY <1>10, <2>3, <3>4 DEF Dialog!Complete
      <4>2. requested[Head(replies)] = [source |-> typed, route |-> choice]
        BY <3>0, <3>4
      <4>3. Dialog!TranslationFitsWindow'
        BY <4>1, <4>2 DEF Dialog!TranslationFitsWindow
      <4> QED
        BY <2>1, <3>0, <3>1, <3>2, <4>1, <4>3
    <3> QED
      BY <3>3, <3>4
  <2> QED
    BY <2>2, <2>3
<1> QED
  BY <1>1, <1>2, <1>3, <1>4, <1>5, <1>6, <1>7, <1>8, <1>9, <1>10 DEF Dialog!Next

\* A window that waits has asked for what its fields and its selection say, and is still served
\* unless a call failed; an answer has its message; and the translation that it shows was beside
\* the text that it is of.  Whatever is edited, selected, closed or late.
THEOREM WaitsForWhatItShows == SafetySpec => []DialogTranslates
<1>1. DialogInv => DialogTranslates
  BY DEF DialogInv, DialogFits, DialogTranslates, Dialog!RequestFitsWindow
<1> QED
  BY DialogInit, DialogStep, DialogAlone, <1>1, PTL DEF Dialog!Spec

\* The list of candidates shows what the search in the window found, nothing of a search before
\* it, if the user waits for the answer to what was asked for.
THEOREM ListsItsOwnSearch == SafetySpec => []CandidatesOfThisSearch
<1>1. WindowInductive => CandidatesOfThisSearch
  BY DEF WindowInductive, WindowAlone, WindowOneSearch, CandidatesOfThisSearch,
         HFind!CandidatesOfThisSearch
<1> QED
  BY <1>1, WindowInvariant, FindAlone, PTL

\* A choice of thread belongs to the session it was made in, a hook reaches the game it was asked
\* for, an exchange of hooks leaves no moment without one, and every thread seen is listed: whatever
\* the order in which sessions end, begin and fail while events are queued, and whatever the user
\* does meanwhile.  Excepted are the hooks asked for behind a connection that is under way, and what
\* follows on an event that met a box of the window.
THEOREM WindowKeepsToItsGame == SafetySpec => []WindowFollowsSessions
<1>1. WindowInductive => WindowFollowsSessions
  BY DEF WindowInductive, WindowInTurn, WindowInTurnOf, WindowSettled, WindowBelongs,
         WindowFollowsSessions, HFind!SessionsStayApart
<1> QED
  BY <1>1, WindowInvariant, FindAlone, PTL

MagnetManagers == {Magnet!NoManager} \cup [exists : {TRUE}, visible : BOOLEAN]
MagnetStates ==
    [exists : {TRUE}, target : MagnetTarget \cup {"none"}, selecting : BOOLEAN, moving : BOOLEAN,
     minimized : BOOLEAN, offset : Int, minimize : BOOLEAN, visible : BOOLEAN]
MagnetOverlays == [at : Int, shown : BOOLEAN, adrift : BOOLEAN, untold : BOOLEAN]
MagnetWindows == [at : Int, minimized : BOOLEAN, closed : BOOLEAN]
MagnetHeard == [kind : {"foreground", "location", "minimized", "restored"}, window : MagnetTarget]
MagnetMessages == {[kind |-> "reposition"]} \cup [kind : {"selected"}, window : MagnetTarget]

MagnetTypes ==
    /\ preferences \in Magnet!Configs
    /\ magnetic \in MagnetManagers
    /\ state \in {Magnet!NoState} \cup MagnetStates
    /\ follower \in MagnetOverlays
    /\ target \in [MagnetTarget -> MagnetWindows]
    /\ windowEvents \in Seq(MagnetHeard)
    /\ overlayPosts \in Seq(MagnetMessages)

\* The configuration, the manager and the state say the same of the mode, and of the window
\* unless the manager was not told.
MagnetAgree ==
    /\ preferences.magnetic_mode = magnetic.exists /\ state.exists = magnetic.exists
    /\ state.exists => state.visible = magnetic.visible
    /\ state.exists /\ ~follower.untold => state.visible = preferences.window_visible

\* An event that is on its way; a message of this kind is.
MagnetComing(s, e) == \E i \in 1..Len(s) : s[i] = e
MagnetOfKind(s, kind) == \E i \in 1..Len(s) : s[i].kind = kind

\* An overlay that is not where it belongs will be put there: by the message that is on its way
\* or by the one for the event that is.
MagnetTracks ==
    (state.exists /\ state.target # "none" /\ ~state.minimized
     /\ ~target[state.target].closed /\ ~follower.adrift)
        => \/ follower.at = Magnet!Rect(state.target) + state.offset
           \/ state.moving
           \/ MagnetComing(windowEvents, Magnet!Event("location", state.target))

\* Only a target that is minimized keeps an overlay hidden that should be visible.
MagnetHidden ==
    (preferences.window_visible /\ ~follower.shown /\ ~follower.untold)
        => state.exists /\ state.minimized

\* The mode takes the target for minimized only while it is, or until the event that ends it.
MagnetReturns ==
    (state.exists /\ state.minimized)
        => /\ state.target # "none"
           /\ \/ target[state.target].minimized
              \/ target[state.target].closed
              \/ MagnetComing(windowEvents, Magnet!Event("restored", state.target))

\* A minimizing on its way that nothing behind it ends is one that lasts.
MagnetUnended(s, w) ==
    \E i \in 1..Len(s) :
        /\ s[i] = Magnet!Event("minimized", w)
        /\ \A j \in (i + 1)..Len(s) : s[j] # Magnet!Event("restored", w)

MagnetTruthful == \A w \in MagnetTarget : MagnetUnended(windowEvents, w) => target[w].minimized

MagnetInductive ==
    /\ MagnetTypes /\ MagnetAgree /\ Magnet!FlagsHavePosts
    /\ MagnetTracks /\ MagnetHidden /\ MagnetReturns /\ MagnetTruthful

\* What a further event, or a further message, adds to the queue.
LEMMA MagnetAppendComing ==
    ASSUME NEW S, NEW s \in Seq(S), NEW e \in S
    PROVE  /\ Append(s, e) \in Seq(S)
           /\ MagnetComing(Append(s, e), e) /\ MagnetOfKind(Append(s, e), e.kind)
           /\ \A x : MagnetComing(s, x) => MagnetComing(Append(s, e), x)
           /\ \A k : MagnetOfKind(s, k) => MagnetOfKind(Append(s, e), k)
<1>1. Append(s, e) \in Seq(S) /\ Len(Append(s, e)) = Len(s) + 1 /\ Len(s) \in Nat
      /\ Append(s, e)[Len(s) + 1] = e
      /\ \A i \in 1..Len(s) : Append(s, e)[i] = s[i]
  OBVIOUS
<1>2. MagnetComing(Append(s, e), e) /\ MagnetOfKind(Append(s, e), e.kind)
  BY <1>1 DEF MagnetComing, MagnetOfKind
<1>3. ASSUME NEW x, MagnetComing(s, x) PROVE MagnetComing(Append(s, e), x)
  BY <1>1, <1>3 DEF MagnetComing
<1>4. ASSUME NEW k, MagnetOfKind(s, k) PROVE MagnetOfKind(Append(s, e), k)
  BY <1>1, <1>4 DEF MagnetOfKind
<1> QED
  BY <1>1, <1>2, <1>3, <1>4

\* What the first event, or the first message, takes from the queue.
LEMMA MagnetTailComing ==
    ASSUME NEW S, NEW s \in Seq(S), s # << >>
    PROVE  /\ Tail(s) \in Seq(S) /\ Head(s) \in S
           /\ \A x : MagnetComing(s, x) /\ Head(s) # x => MagnetComing(Tail(s), x)
           /\ \A k : MagnetOfKind(s, k) /\ Head(s).kind # k => MagnetOfKind(Tail(s), k)
<1>1. Tail(s) \in Seq(S) /\ Head(s) \in S /\ Head(s) = s[1] /\ Len(s) \in Nat \ {0}
      /\ Len(Tail(s)) = Len(s) - 1
      /\ \A i \in 1..(Len(s) - 1) : Tail(s)[i] = s[i + 1]
  OBVIOUS
<1>2. ASSUME NEW x, MagnetComing(s, x), Head(s) # x PROVE MagnetComing(Tail(s), x)
  <2>1. PICK i \in 1..Len(s) : s[i] = x
    BY <1>2 DEF MagnetComing
  <2>2. i # 1 /\ i - 1 \in 1..(Len(s) - 1)
    BY <1>1, <1>2, <2>1
  <2>3. Tail(s)[i - 1] = x
    BY <1>1, <2>1, <2>2
  <2> QED
    BY <1>1, <2>2, <2>3 DEF MagnetComing
<1>3. ASSUME NEW k, MagnetOfKind(s, k), Head(s).kind # k PROVE MagnetOfKind(Tail(s), k)
  <2>1. PICK i \in 1..Len(s) : s[i].kind = k
    BY <1>3 DEF MagnetOfKind
  <2>2. i # 1 /\ i - 1 \in 1..(Len(s) - 1)
    BY <1>1, <1>3, <2>1
  <2>3. Tail(s)[i - 1].kind = k
    BY <1>1, <2>1, <2>2
  <2> QED
    BY <1>1, <2>2, <2>3 DEF MagnetOfKind
<1> QED
  BY <1>1, <1>2, <1>3

\* The same of minimizings that nothing ends.
LEMMA MagnetUnendedKept ==
    ASSUME NEW S, NEW s \in Seq(S), NEW w
    PROVE  /\ \A e \in S : MagnetUnended(Append(s, e), w) =>
                /\ e # Magnet!Event("restored", w)
                /\ MagnetUnended(s, w) \/ e = Magnet!Event("minimized", w)
           /\ s # << >> =>
                /\ MagnetUnended(Tail(s), w) => MagnetUnended(s, w)
                /\ Head(s) = Magnet!Event("minimized", w) =>
                     MagnetUnended(s, w) \/ MagnetComing(Tail(s), Magnet!Event("restored", w))
<1>1. Len(s) \in Nat
  OBVIOUS
<1>2. ASSUME NEW e \in S, MagnetUnended(Append(s, e), w)
      PROVE  e # Magnet!Event("restored", w) /\ (MagnetUnended(s, w) \/ e = Magnet!Event("minimized", w))
  <2>1. /\ Len(Append(s, e)) = Len(s) + 1 /\ Append(s, e)[Len(s) + 1] = e
        /\ \A i \in 1..Len(s) : Append(s, e)[i] = s[i]
    BY <1>2
  <2>2. PICK i \in 1..(Len(s) + 1) :
          /\ Append(s, e)[i] = Magnet!Event("minimized", w)
          /\ \A j \in (i + 1)..(Len(s) + 1) : Append(s, e)[j] # Magnet!Event("restored", w)
    BY <1>2, <2>1 DEF MagnetUnended
  <2>3. CASE i = Len(s) + 1
    BY <2>1, <2>2, <2>3 DEF Magnet!Event
  <2>4. CASE i \in 1..Len(s)
    <3>1. Len(s) + 1 \in (i + 1)..(Len(s) + 1)
        /\ \A j \in (i + 1)..Len(s) : j \in (i + 1)..(Len(s) + 1) /\ j \in 1..Len(s)
      BY <1>1, <2>4
    <3>2. s[i] = Magnet!Event("minimized", w) /\ \A j \in (i + 1)..Len(s) : s[j] # Magnet!Event("restored", w)
      BY <2>1, <2>2, <2>4, <3>1
    <3>3. MagnetUnended(s, w)
      BY <2>4, <3>2 DEF MagnetUnended
    <3> QED
      BY <2>1, <2>2, <3>1, <3>3
  <2> QED
    BY <1>1, <2>2, <2>3, <2>4
<1>3. ASSUME s # << >> PROVE
        /\ MagnetUnended(Tail(s), w) => MagnetUnended(s, w)
        /\ Head(s) = Magnet!Event("minimized", w) =>
             MagnetUnended(s, w) \/ MagnetComing(Tail(s), Magnet!Event("restored", w))
  <2>1. /\ Head(s) = s[1] /\ Len(s) \in Nat \ {0} /\ Len(Tail(s)) = Len(s) - 1
        /\ \A i \in 1..(Len(s) - 1) : Tail(s)[i] = s[i + 1]
    BY <1>3
  <2>2. ASSUME MagnetUnended(Tail(s), w) PROVE MagnetUnended(s, w)
    <3>1. PICK i \in 1..(Len(s) - 1) :
            /\ Tail(s)[i] = Magnet!Event("minimized", w)
            /\ \A j \in (i + 1)..(Len(s) - 1) : Tail(s)[j] # Magnet!Event("restored", w)
      BY <2>1, <2>2 DEF MagnetUnended
    <3>2. \A j \in ((i + 1) + 1)..Len(s) :
            j - 1 \in (i + 1)..(Len(s) - 1) /\ j - 1 \in 1..(Len(s) - 1) /\ (j - 1) + 1 = j
      BY <2>1, <3>1
    <3>3. ASSUME NEW j \in ((i + 1) + 1)..Len(s) PROVE s[j] # Magnet!Event("restored", w)
      <4>1. j - 1 \in (i + 1)..(Len(s) - 1) /\ j - 1 \in 1..(Len(s) - 1) /\ (j - 1) + 1 = j
        BY <3>2
      <4>2. Tail(s)[j - 1] = s[j]
        BY <2>1, <4>1
      <4>3. Tail(s)[j - 1] # Magnet!Event("restored", w)
        BY <3>1, <4>1
      <4> QED
        BY <4>2, <4>3
    <3>4. i + 1 \in 1..Len(s) /\ s[i + 1] = Magnet!Event("minimized", w)
      BY <2>1, <3>1
    <3> QED
      BY <3>3, <3>4 DEF MagnetUnended
  <2>3. ASSUME Head(s) = Magnet!Event("minimized", w), ~MagnetUnended(s, w)
        PROVE  MagnetComing(Tail(s), Magnet!Event("restored", w))
    <3>1. PICK j \in (1 + 1)..Len(s) : s[j] = Magnet!Event("restored", w)
      BY <2>1, <2>3 DEF MagnetUnended
    <3>2. j - 1 \in 1..(Len(s) - 1) /\ (j - 1) + 1 = j
      BY <2>1, <3>1
    <3> QED
      BY <2>1, <3>1, <3>2 DEF MagnetComing
  <2> QED
    BY <2>2, <2>3
<1> QED
  BY <1>2, <1>3

\* Nothing is on its way at first, and the mode is off.
LEMMA MagnetStart == Magnet!Init => MagnetInductive
<1> SUFFICES ASSUME Magnet!Init PROVE MagnetInductive
  OBVIOUS
<1>1. << >> \in Seq(MagnetHeard) /\ << >> \in Seq(MagnetMessages)
  OBVIOUS
<1>2. /\ preferences \in Magnet!Configs /\ magnetic \in MagnetManagers
      /\ follower \in MagnetOverlays /\ target \in [MagnetTarget -> MagnetWindows]
  <2>1. preferences \in Magnet!Configs
    BY DEF Magnet!Init, Magnet!Configs
  <2>2. magnetic \in MagnetManagers
    BY DEF Magnet!Init, MagnetManagers
  <2>3. follower \in MagnetOverlays
    BY DEF Magnet!Init, MagnetOverlays
  <2>4. [at |-> 1, minimized |-> FALSE, closed |-> FALSE] \in MagnetWindows
    BY DEF MagnetWindows
  <2>5. target \in [MagnetTarget -> MagnetWindows]
    BY <2>4 DEF Magnet!Init
  <2> QED
    BY <2>1, <2>2, <2>3, <2>5
<1>3. MagnetTypes
  BY <1>1, <1>2 DEF Magnet!Init, MagnetTypes
<1> QED
  <2>1. MagnetTruthful
    BY DEF Magnet!Init, MagnetTruthful, MagnetUnended
  <2>2. MagnetAgree /\ Magnet!FlagsHavePosts /\ MagnetTracks /\ MagnetHidden /\ MagnetReturns
    BY DEF Magnet!Init, MagnetAgree, Magnet!FlagsHavePosts, MagnetTracks, MagnetHidden,
           MagnetReturns, Magnet!NoManager, Magnet!NoState
  <2> QED
    BY <1>3, <2>1, <2>2 DEF MagnetInductive

\* What the user does to other windows.
LEMMA MagnetWorldSteps ==
    ASSUME MagnetInductive, Magnet!World
    PROVE  MagnetInductive'
<1> USE WindowsAssumption
<1>0. /\ MagnetTypes /\ MagnetAgree /\ Magnet!FlagsHavePosts
      /\ MagnetTracks /\ MagnetHidden /\ MagnetReturns /\ MagnetTruthful
  BY DEF MagnetInductive
<1>1. PICK w \in MagnetTarget :
        Magnet!ToFront(w)
        \/ (\E place \in MagnetPlaces : Magnet!MoveTarget(w, place))
        \/ Magnet!Minimize(w) \/ Magnet!Close(w)
  BY DEF Magnet!World
<1>2. UNCHANGED <<preferences, magnetic, state, notice, follower, overlayPosts>> /\ ~target[w].closed
  BY <1>1 DEF Magnet!ToFront, Magnet!MoveTarget, Magnet!Minimize, Magnet!Close, Magnet!Acts
<1>3. (MagnetAgree /\ Magnet!FlagsHavePosts /\ MagnetHidden)'
  BY <1>0, <1>2 DEF MagnetAgree, Magnet!FlagsHavePosts, Magnet!Awaited, MagnetHidden
<1>4. ASSUME NEW e \in MagnetHeard PROVE
        /\ Append(windowEvents, e) \in Seq(MagnetHeard)
        /\ MagnetComing(Append(windowEvents, e), e)
        /\ \A x : MagnetComing(windowEvents, x) => MagnetComing(Append(windowEvents, e), x)
        /\ \A v : MagnetUnended(Append(windowEvents, e), v) =>
             e # Magnet!Event("restored", v) /\ (MagnetUnended(windowEvents, v) \/ e = Magnet!Event("minimized", v))
  BY <1>0, MagnetAppendComing, MagnetUnendedKept DEF MagnetTypes
<1>5. \A kind \in {"foreground", "location", "minimized", "restored"} : Magnet!Event(kind, w) \in MagnetHeard
  BY DEF Magnet!Event, MagnetHeard
<1>6. state.exists => /\ state.target \in MagnetTarget \cup {"none"}
                      /\ state.offset \in Int /\ state.moving \in BOOLEAN
  <2>1. CASE state = Magnet!NoState
    BY <2>1 DEF Magnet!NoState
  <2>2. CASE state \in MagnetStates
    BY <2>2 DEF MagnetStates
  <2> QED
    BY <1>0, <2>1, <2>2 DEF MagnetTypes
<1>7. CASE Magnet!ToFront(w)
  <2>1. windowEvents' = Append(windowEvents, Magnet!Event("foreground", w)) /\ target' = target
    BY <1>7 DEF Magnet!ToFront
  <2>2. MagnetTruthful'
    BY <1>0, <1>4, <1>5, <2>1 DEF MagnetTruthful, Magnet!Event
  <2> QED
    BY <1>0, <1>2, <1>3, <1>4, <1>5, <2>1, <2>2
       DEF MagnetInductive, MagnetTypes, MagnetTracks, MagnetReturns, Magnet!Rect
<1>8. ASSUME NEW place \in MagnetPlaces, Magnet!MoveTarget(w, place) PROVE MagnetInductive'
  <2>1. /\ target' = [target EXCEPT ![w].at = place]
        /\ windowEvents' = Append(windowEvents, Magnet!Event("location", w))
    BY <1>8 DEF Magnet!MoveTarget
  <2>2. MagnetTypes'
    BY <1>0, <1>2, <1>4, <1>5, <2>1 DEF MagnetTypes, MagnetWindows
  <2>3. \A v \in MagnetTarget : /\ target'[v].closed = target[v].closed
                                /\ target'[v].minimized = target[v].minimized
                                /\ v # w => target'[v] = target[v]
    BY <1>0, <2>1 DEF MagnetTypes, MagnetWindows
  <2>4. MagnetTracks'
    BY <1>0, <1>2, <1>4, <1>5, <1>6, <2>1, <2>3 DEF MagnetTracks, Magnet!Rect
  <2>5. MagnetReturns'
    BY <1>0, <1>2, <1>4, <1>5, <1>6, <2>1, <2>3 DEF MagnetReturns
  <2>6. MagnetTruthful'
    BY <1>0, <1>4, <1>5, <2>1, <2>3 DEF MagnetTruthful, Magnet!Event
  <2> QED
    BY <1>3, <2>2, <2>4, <2>5, <2>6 DEF MagnetInductive
<1>9. CASE Magnet!Minimize(w)
  <2> DEFINE first == Magnet!Event(IF target[w].minimized THEN "restored" ELSE "minimized", w)
             second == Magnet!Event("location", w)
  <2>1. /\ target' = [target EXCEPT ![w].minimized = ~@]
        /\ windowEvents' = windowEvents \o <<first, second>>
    BY <1>9 DEF Magnet!Minimize
  <2>2. first \in MagnetHeard /\ second \in MagnetHeard
    BY <1>5
  <2>3. windowEvents' = Append(Append(windowEvents, first), second)
    BY <1>0, <2>1, <2>2 DEF MagnetTypes
  <2>4. /\ windowEvents' \in Seq(MagnetHeard) /\ MagnetComing(windowEvents', first) /\ MagnetComing(windowEvents', second)
        /\ \A x : MagnetComing(windowEvents, x) => MagnetComing(windowEvents', x)
    <3> DEFINE longer == Append(windowEvents, first)
    <3>1. longer \in Seq(MagnetHeard) /\ MagnetComing(longer, first)
          /\ \A x : MagnetComing(windowEvents, x) => MagnetComing(longer, x)
      BY <1>4, <2>2
    <3>2. Append(longer, second) \in Seq(MagnetHeard) /\ MagnetComing(Append(longer, second), second)
          /\ \A x : MagnetComing(longer, x) => MagnetComing(Append(longer, second), x)
      <4> HIDE DEF longer, second
      <4> QED
        BY <3>1, <2>2, MagnetAppendComing
    <3> QED
      BY <2>3, <3>1, <3>2
  <2>5. MagnetTypes'
    BY <1>0, <1>2, <2>1, <2>4 DEF MagnetTypes, MagnetWindows
  <2>6. \A v \in MagnetTarget : /\ target'[v].closed = target[v].closed
                                /\ v # w => target'[v] = target[v]
                                /\ v = w => target'[v].minimized = ~target[v].minimized
    BY <1>0, <2>1 DEF MagnetTypes, MagnetWindows
  <2>7. target[w].minimized => MagnetComing(windowEvents', Magnet!Event("restored", w))
    BY <2>4
  <2>8. MagnetComing(windowEvents', Magnet!Event("location", w))
        /\ \A x : MagnetComing(windowEvents, x) => MagnetComing(windowEvents', x)
    BY <2>4
  <2>11. ASSUME NEW v \in MagnetTarget, MagnetUnended(windowEvents', v) PROVE target'[v].minimized
    <3>1. Append(windowEvents, first) \in Seq(MagnetHeard)
      BY <1>4, <2>2
    <3>2. second # Magnet!Event("restored", v) /\ second # Magnet!Event("minimized", v)
      BY DEF Magnet!Event
    <3>3. MagnetUnended(Append(windowEvents, first), v)
      <4> HIDE DEF first, second
      <4> QED
        BY <2>2, <2>3, <2>11, <3>1, <3>2, MagnetUnendedKept
    <3>4. first # Magnet!Event("restored", v) /\ (MagnetUnended(windowEvents, v) \/ first = Magnet!Event("minimized", v))
      BY <1>4, <2>2, <3>3
    <3>5. CASE v = w
      BY <2>6, <3>4, <3>5 DEF Magnet!Event
    <3>6. CASE v # w
      BY <1>0, <2>6, <3>4, <3>6 DEF Magnet!Event, MagnetTruthful
    <3> QED
      BY <3>5, <3>6
  <2>12. MagnetTruthful'
    BY <2>11 DEF MagnetTruthful
  <2> HIDE DEF first, second
  <2>9. MagnetTracks'
    BY <1>0, <1>2, <1>6, <2>6, <2>8 DEF MagnetTracks, Magnet!Rect
  <2>10. MagnetReturns'
    BY <1>0, <1>2, <1>6, <2>6, <2>7, <2>8 DEF MagnetReturns
  <2> QED
    BY <1>3, <2>5, <2>9, <2>10, <2>12 DEF MagnetInductive
<1>10. CASE Magnet!Close(w)
  <2>1. target' = [target EXCEPT ![w].closed = TRUE] /\ windowEvents' = windowEvents
    BY <1>10 DEF Magnet!Close
  <2>2. MagnetTypes'
    BY <1>0, <1>2, <2>1 DEF MagnetTypes, MagnetWindows
  <2>3. \A v \in MagnetTarget : /\ target'[v].at = target[v].at
                                /\ target'[v].minimized = target[v].minimized
                                /\ v # w => target'[v] = target[v]
                                /\ v = w => target'[v].closed
    BY <1>0, <2>1 DEF MagnetTypes, MagnetWindows
  <2>4. MagnetTracks'
    BY <1>0, <1>2, <1>6, <2>1, <2>3 DEF MagnetTracks, Magnet!Rect
  <2>5. MagnetReturns'
    BY <1>0, <1>2, <1>6, <2>1, <2>3 DEF MagnetReturns
  <2>6. MagnetTruthful'
    BY <1>0, <2>1, <2>3 DEF MagnetTruthful
  <2> QED
    BY <1>3, <2>2, <2>4, <2>5, <2>6 DEF MagnetInductive
<1> QED
  BY <1>1, <1>7, <1>8, <1>9, <1>10

\* The types of what the manager and the system keep, for a mode that is on.
LEMMA MagnetStateTypes ==
    ASSUME MagnetTypes
    PROVE  /\ state.exists => state \in MagnetStates
           /\ state.exists \in BOOLEAN /\ magnetic.exists \in BOOLEAN
           /\ magnetic.exists => magnetic.visible \in BOOLEAN
           /\ Magnet!NoState.exists = FALSE /\ Magnet!NoManager.exists = FALSE
<1>1. Magnet!NoState.exists = FALSE /\ Magnet!NoManager.exists = FALSE
  BY DEF Magnet!NoState, Magnet!NoManager
<1>2. state \in MagnetStates => state.exists \in BOOLEAN
  BY DEF MagnetStates
<1>3. magnetic \in MagnetManagers => /\ magnetic.exists \in BOOLEAN
                                     /\ magnetic.exists => magnetic.visible \in BOOLEAN
  BY <1>1 DEF MagnetManagers
<1> QED
  BY <1>1, <1>2, <1>3 DEF MagnetTypes

\* A window is at some coordinate, also where the system puts a minimized one.
LEMMA MagnetPlacesTyped ==
    ASSUME MagnetTypes, NEW w \in MagnetTarget
    PROVE  Magnet!Rect(w) \in Int
BY DEF MagnetTypes, MagnetWindows, Magnet!Rect, Magnet!Away

\* The overlay beside its target.
LEMMA MagnetRepositionedTyped ==
    ASSUME MagnetTypes, state.exists, state.target # "none", NEW o \in MagnetOverlays
    PROVE  /\ Magnet!Repositioned(state, o) \in MagnetOverlays
           /\ Magnet!Repositioned(state, o).shown = o.shown
           /\ Magnet!Repositioned(state, o).untold = o.untold
           /\ ~target[state.target].closed =>
                Magnet!Repositioned(state, o).at = Magnet!Rect(state.target) + state.offset
<1>1. state.target \in MagnetTarget /\ state.offset \in Int
  BY MagnetStateTypes DEF MagnetStates
<1>2. Magnet!Rect(state.target) + state.offset \in Int
  BY <1>1, MagnetPlacesTyped
<1> QED
  BY <1>2 DEF Magnet!Repositioned, MagnetOverlays

\* The callback.
LEMMA MagnetCallbackSteps ==
    ASSUME MagnetInductive, Magnet!Callback
    PROVE  MagnetInductive'
<1> USE WindowsAssumption
<1>0. /\ MagnetTypes /\ MagnetAgree /\ Magnet!FlagsHavePosts
      /\ MagnetTracks /\ MagnetHidden /\ MagnetReturns /\ MagnetTruthful
  BY DEF MagnetInductive
<1> DEFINE event == Head(windowEvents)
           w == event.window
<1>1. /\ windowEvents # << >> /\ windowEvents' = Tail(windowEvents)
      /\ UNCHANGED <<preferences, magnetic, target>>
  BY DEF Magnet!Callback
<1>2. /\ Tail(windowEvents) \in Seq(MagnetHeard) /\ event \in MagnetHeard
      /\ \A x : MagnetComing(windowEvents, x) /\ event # x => MagnetComing(windowEvents', x)
  BY <1>0, <1>1, MagnetTailComing DEF MagnetTypes
<1>3. w \in MagnetTarget /\ event = Magnet!Event(event.kind, w)
  BY <1>2 DEF MagnetHeard, Magnet!Event
<1>4. \A k1, k2, v1, v2 : Magnet!Event(k1, v1) = Magnet!Event(k2, v2) => k1 = k2 /\ v1 = v2
  BY DEF Magnet!Event
<1>5. MagnetHeard = [kind : {"foreground", "location", "minimized", "restored"}, window : MagnetTarget]
  BY DEF MagnetHeard
<1> HIDE DEF event, w
<1>20. /\ MagnetTruthful'
       /\ event.kind = "minimized" =>
            target[w].minimized \/ MagnetComing(windowEvents', Magnet!Event("restored", w))
  <2>1. \A v : /\ MagnetUnended(windowEvents', v) => MagnetUnended(windowEvents, v)
               /\ event = Magnet!Event("minimized", v) =>
                    MagnetUnended(windowEvents, v) \/ MagnetComing(windowEvents', Magnet!Event("restored", v))
    BY <1>0, <1>1, MagnetUnendedKept DEF MagnetTypes, event
  <2> QED
    BY <1>0, <1>1, <1>3, <2>1 DEF MagnetTruthful
<1>6. CASE UNCHANGED <<state, follower, overlayPosts>> /\ (~state.exists \/ event.kind = "foreground" \/ event.kind = "minimized")
  <2>1. (MagnetTypes /\ MagnetAgree /\ Magnet!FlagsHavePosts /\ MagnetHidden)'
    BY <1>0, <1>1, <1>2, <1>6 DEF MagnetTypes, MagnetAgree, Magnet!FlagsHavePosts,
                        Magnet!Awaited, MagnetHidden
  <2>2. MagnetTracks'
    BY <1>0, <1>1, <1>2, <1>3, <1>4, <1>6 DEF MagnetTracks, Magnet!Rect
  <2>3. MagnetReturns'
    BY <1>0, <1>1, <1>2, <1>3, <1>4, <1>6 DEF MagnetReturns
  <2> QED
    BY <1>20, <2>1, <2>2, <2>3 DEF MagnetInductive
<1>7. CASE ~state.exists
  <2>1. UNCHANGED <<state, follower, overlayPosts>>
    BY <1>7 DEF Magnet!Callback
  <2> QED
    BY <1>6, <1>7, <2>1
<1>8. ASSUME state.exists, event.kind = "foreground", Magnet!Select(w) PROVE MagnetInductive'
  <2>1. CASE state.target # "none" \/ state.selecting \/ ~Magnet!Usable(w)
    BY <1>6, <1>8, <2>1 DEF Magnet!Select
  <2>2. CASE ~(state.target # "none" \/ state.selecting \/ ~Magnet!Usable(w))
    <3> DEFINE msg == [kind |-> "selected", window |-> w]
    <3>1. /\ state' = [state EXCEPT !.selecting = (overlayPosts' # overlayPosts)]
          /\ UNCHANGED follower
          /\ overlayPosts' = Append(overlayPosts, msg) \/ overlayPosts' = overlayPosts
      BY <1>8, <2>2 DEF Magnet!Select, Magnet!Post, Magnet!Posted
    <3>2. msg \in MagnetMessages /\ overlayPosts \in Seq(MagnetMessages)
      BY <1>0, <1>3 DEF MagnetMessages, MagnetTypes
    <3>3. /\ overlayPosts' \in Seq(MagnetMessages)
          /\ \A k : MagnetOfKind(overlayPosts, k) => MagnetOfKind(overlayPosts', k)
          /\ overlayPosts' # overlayPosts => MagnetOfKind(overlayPosts', "selected")
      <4>1. CASE overlayPosts' = overlayPosts
        BY <3>2, <4>1
      <4>2. CASE overlayPosts' = Append(overlayPosts, msg)
        BY <3>2, <4>2, MagnetAppendComing
      <4> QED
        BY <3>1, <4>1, <4>2
    <3>4. state \in MagnetStates /\ state' \in MagnetStates /\ state'.exists
          /\ state'.target = "none" /\ state'.moving = state.moving
          /\ state'.selecting = (overlayPosts' # overlayPosts)
          /\ state'.minimized = state.minimized /\ state'.visible = state.visible
      BY <1>0, <1>8, <2>2, <3>1, MagnetStateTypes DEF MagnetStates
    <3>5. MagnetTypes'
      BY <1>0, <1>1, <1>2, <3>1, <3>3, <3>4 DEF MagnetTypes
    <3>6. MagnetAgree' /\ MagnetHidden' /\ MagnetTracks' /\ MagnetReturns'
      BY <1>0, <1>1, <1>8, <2>2, <3>1, <3>4 DEF MagnetAgree, MagnetHidden, MagnetTracks,
                        MagnetReturns
    <3>7. Magnet!FlagsHavePosts'
      BY <1>0, <1>8, <3>3, <3>4 DEF Magnet!FlagsHavePosts, Magnet!Awaited, MagnetOfKind
    <3> QED
      BY <1>20, <3>5, <3>6, <3>7, <1>0 DEF MagnetInductive
  <2> QED
    BY <2>1, <2>2
<1>9. ASSUME state.exists, event.kind = "location", Magnet!LocationChanged(w) PROVE MagnetInductive'
  <2>1. CASE w # state.target \/ state.minimized \/ state.moving
    <3>1. UNCHANGED <<state, follower, overlayPosts>>
      BY <1>9, <2>1 DEF Magnet!LocationChanged
    <3>2. (MagnetTypes /\ MagnetAgree /\ Magnet!FlagsHavePosts /\ MagnetHidden)'
      BY <1>0, <1>1, <1>2, <3>1 DEF MagnetTypes, MagnetAgree, Magnet!FlagsHavePosts,
                        Magnet!Awaited, MagnetHidden
    <3>3. MagnetTracks'
      BY <1>0, <1>1, <1>2, <1>3, <1>4, <1>9, <2>1, <3>1 DEF MagnetTracks, Magnet!Rect
    <3>4. MagnetReturns'
      BY <1>0, <1>1, <1>2, <1>3, <1>4, <1>9, <2>1, <3>1 DEF MagnetReturns
    <3> QED
      BY <1>20, <3>2, <3>3, <3>4 DEF MagnetInductive
  <2>2. CASE ~(w # state.target \/ state.minimized \/ state.moving)
    <3> DEFINE msg == [kind |-> "reposition"]
    <3>1. /\ state' = [state EXCEPT !.moving = (overlayPosts' # overlayPosts)]
          /\ follower' = [follower EXCEPT !.adrift = @ \/ ~(overlayPosts' # overlayPosts)]
          /\ overlayPosts' = Append(overlayPosts, msg) \/ overlayPosts' = overlayPosts
      BY <1>9, <2>2 DEF Magnet!LocationChanged, Magnet!Post, Magnet!Posted
    <3>2. msg \in MagnetMessages /\ overlayPosts \in Seq(MagnetMessages) /\ follower \in MagnetOverlays
      BY <1>0 DEF MagnetMessages, MagnetTypes
    <3>3. /\ overlayPosts' \in Seq(MagnetMessages)
          /\ \A k : MagnetOfKind(overlayPosts, k) => MagnetOfKind(overlayPosts', k)
          /\ overlayPosts' # overlayPosts => MagnetOfKind(overlayPosts', "reposition")
      <4>1. CASE overlayPosts' = overlayPosts
        BY <3>2, <4>1
      <4>2. CASE overlayPosts' = Append(overlayPosts, msg)
        BY <3>2, <4>2, MagnetAppendComing
      <4> QED
        BY <3>1, <4>1, <4>2
    <3>4. state \in MagnetStates /\ state' \in MagnetStates /\ state'.exists
          /\ state'.target = state.target /\ state'.moving = (overlayPosts' # overlayPosts)
          /\ state'.selecting = state.selecting
          /\ ~state'.minimized /\ state'.visible = state.visible
      BY <1>0, <1>9, <2>2, <3>1, MagnetStateTypes DEF MagnetStates
    <3>5. /\ follower' \in MagnetOverlays /\ follower'.shown = follower.shown
          /\ follower'.untold = follower.untold /\ (follower'.adrift \/ overlayPosts' # overlayPosts)
      BY <3>1, <3>2 DEF MagnetOverlays
    <3>6. MagnetTypes'
      BY <1>0, <1>1, <1>2, <3>3, <3>4, <3>5 DEF MagnetTypes
    <3>7. MagnetAgree' /\ MagnetHidden' /\ MagnetTracks' /\ MagnetReturns'
      BY <1>0, <1>1, <1>9, <2>2, <3>4, <3>5 DEF MagnetAgree, MagnetHidden, MagnetTracks,
                        MagnetReturns
    <3>8. Magnet!FlagsHavePosts'
      BY <1>0, <1>9, <3>3, <3>4 DEF Magnet!FlagsHavePosts, Magnet!Awaited, MagnetOfKind
    <3> QED
      BY <1>20, <3>6, <3>7, <3>8 DEF MagnetInductive
  <2> QED
    BY <2>1, <2>2
<1>10. ASSUME state.exists, event.kind = "minimized", Magnet!MinimizeStart(w) PROVE MagnetInductive'
  <2>1. CASE w # state.target \/ ~state.minimize
    BY <1>6, <1>10, <2>1 DEF Magnet!MinimizeStart
  <2>2. CASE ~(w # state.target \/ ~state.minimize)
    <3>1. /\ state' = [state EXCEPT !.minimized = TRUE]
          /\ follower' = [follower EXCEPT !.shown = FALSE]
          /\ overlayPosts' = overlayPosts
      BY <1>10, <2>2 DEF Magnet!MinimizeStart
    <3>2. state \in MagnetStates /\ state' \in MagnetStates /\ state'.exists /\ state'.minimized
          /\ state'.target = state.target /\ state'.moving = state.moving
          /\ state'.selecting = state.selecting /\ state'.visible = state.visible
      BY <1>0, <1>10, <3>1, MagnetStateTypes DEF MagnetStates
    <3>3. follower' \in MagnetOverlays /\ follower'.untold = follower.untold
      BY <1>0, <3>1 DEF MagnetTypes, MagnetOverlays
    <3>4. MagnetTypes' /\ MagnetAgree' /\ MagnetHidden' /\ MagnetTracks' /\ Magnet!FlagsHavePosts'
      BY <1>0, <1>1, <1>2, <1>10, <3>1, <3>2, <3>3
         DEF MagnetTypes, MagnetAgree, MagnetHidden, MagnetTracks, Magnet!FlagsHavePosts,
             Magnet!Awaited
    <3>5. MagnetReturns'
      <4>1. state.target = w /\ w # "none"
        BY <1>3, <2>2
      <4> QED
        BY <1>1, <1>10, <1>20, <3>2, <4>1 DEF MagnetReturns
    <3> QED
      BY <1>20, <3>4, <3>5 DEF MagnetInductive
  <2> QED
    BY <2>1, <2>2
<1>11. ASSUME state.exists, event.kind = "restored", Magnet!MinimizeEnd(w) PROVE MagnetInductive'
  <2>1. CASE w # state.target \/ ~state.minimized
    <3>1. UNCHANGED <<state, follower, overlayPosts>>
      BY <1>11, <2>1 DEF Magnet!MinimizeEnd
    <3>2. (MagnetTypes /\ MagnetAgree /\ Magnet!FlagsHavePosts /\ MagnetHidden)'
      BY <1>0, <1>1, <1>2, <3>1 DEF MagnetTypes, MagnetAgree, Magnet!FlagsHavePosts,
                        Magnet!Awaited, MagnetHidden
    <3>3. MagnetTracks'
      BY <1>0, <1>1, <1>2, <1>3, <1>4, <1>11, <2>1, <3>1 DEF MagnetTracks, Magnet!Rect
    <3>4. MagnetReturns'
      BY <1>0, <1>1, <1>2, <1>3, <1>4, <1>11, <2>1, <3>1 DEF MagnetReturns
    <3> QED
      BY <1>20, <3>2, <3>3, <3>4 DEF MagnetInductive
  <2>2. CASE ~(w # state.target \/ ~state.minimized)
    <3> DEFINE o == [follower EXCEPT !.shown = @ \/ state.visible]
    <3>1. /\ state' = [state EXCEPT !.minimized = FALSE]
          /\ follower' = Magnet!Repositioned(state, o)
          /\ overlayPosts' = overlayPosts
      BY <1>11, <2>2 DEF Magnet!MinimizeEnd
    <3>2. state \in MagnetStates /\ state' \in MagnetStates /\ state'.exists /\ ~state'.minimized
          /\ state'.target = state.target /\ state'.moving = state.moving
          /\ state'.selecting = state.selecting /\ state'.visible = state.visible
          /\ state'.offset = state.offset
      BY <1>0, <1>11, <3>1, MagnetStateTypes DEF MagnetStates
    <3>3. state.target # "none" /\ state.visible \in BOOLEAN
      BY <1>3, <2>2, <3>2 DEF MagnetStates
    <3>4. /\ o \in MagnetOverlays /\ o.untold = follower.untold
          /\ o.shown = (follower.shown \/ state.visible)
      BY <1>0, <3>3 DEF MagnetTypes, MagnetOverlays
    <3>5. /\ follower' \in MagnetOverlays /\ follower'.untold = follower.untold
          /\ follower'.shown = (follower.shown \/ state.visible)
          /\ ~target[state.target].closed =>
               follower'.at = Magnet!Rect(state.target) + state.offset
      <4> HIDE DEF o
      <4> QED
        BY <1>0, <1>11, <3>1, <3>3, <3>4, MagnetRepositionedTyped
    <3> HIDE DEF o
    <3>6. MagnetTypes'
      BY <1>0, <1>1, <1>2, <3>1, <3>2, <3>5 DEF MagnetTypes
    <3>7. Magnet!FlagsHavePosts'
      BY <1>0, <1>11, <3>1, <3>2 DEF Magnet!FlagsHavePosts, Magnet!Awaited
    <3>8. MagnetAgree' /\ MagnetHidden' /\ MagnetReturns'
      BY <1>0, <1>1, <1>11, <3>2, <3>5 DEF MagnetAgree, MagnetHidden, MagnetReturns
    <3>9. MagnetTracks'
      BY <1>1, <1>11, <3>2, <3>5 DEF MagnetTracks, Magnet!Rect
    <3> QED
      BY <1>20, <3>6, <3>7, <3>8, <3>9 DEF MagnetInductive
  <2> QED
    BY <2>1, <2>2
<1> QED
  BY <1>7, <1>8, <1>9, <1>10, <1>11 DEF Magnet!Callback, event, w

\* Steps of the overlay's own thread leave the other windows alone.
LEMMA MagnetOwnSteps ==
    ASSUME MagnetInductive, UNCHANGED <<target, windowEvents>>,
           MagnetTypes', MagnetAgree', Magnet!FlagsHavePosts', MagnetHidden', MagnetTracks',
           state'.exists /\ state'.minimized
               => state.exists /\ state.minimized /\ state'.target = state.target
    PROVE  MagnetInductive'
<1>0. MagnetReturns /\ MagnetTruthful
  BY DEF MagnetInductive
<1>1. MagnetTruthful'
  BY <1>0 DEF MagnetTruthful
<1>2. MagnetReturns'
  BY <1>0 DEF MagnetReturns
<1> QED
  BY <1>1, <1>2 DEF MagnetInductive

\* A step that leaves the overlay and its offset alone leaves it beside its target.
LEMMA MagnetStaysBeside ==
    ASSUME MagnetTracks, UNCHANGED <<target, windowEvents>>,
           state'.exists =>
             /\ state.exists /\ state'.minimized = state.minimized
             /\ state'.target = state.target /\ state'.moving = state.moving
             /\ state'.offset = state.offset,
           follower'.adrift \/ (~follower.adrift /\ follower'.at = follower.at)
    PROVE  MagnetTracks'
BY DEF MagnetTracks, Magnet!Rect

\* The mode that is stopped, and the overlay that is shown again.
LEMMA MagnetStoppedShows ==
    ASSUME MagnetTypes, MagnetAgree, MagnetHidden, NEW o \in MagnetOverlays,
           o.untold = follower.untold, preferences'.window_visible = preferences.window_visible,
           o.shown = follower.shown \/ o.shown = preferences.window_visible
    PROVE  /\ Magnet!Stopped(o) \in MagnetOverlays /\ Magnet!Stopped(o).untold = follower.untold
           /\ (preferences.window_visible /\ ~follower.untold => Magnet!Stopped(o).shown)
           /\ Magnet!ClearedNotice(Magnet!Stopped(o)) \in MagnetOverlays
           /\ Magnet!ClearedNotice(Magnet!Stopped(o)).untold = follower.untold
           /\ preferences.window_visible /\ ~follower.untold => Magnet!ClearedNotice(Magnet!Stopped(o)).shown
<1>1. magnetic.exists \in BOOLEAN /\ (magnetic.exists => magnetic.visible \in BOOLEAN)
  BY MagnetStateTypes
<1>2. /\ Magnet!Stopped(o) \in MagnetOverlays /\ Magnet!Stopped(o).untold = follower.untold
      /\ Magnet!Stopped(o).shown = (o.shown \/ (magnetic.exists /\ magnetic.visible))
  BY <1>1 DEF Magnet!Stopped, MagnetOverlays
<1>3. preferences.window_visible \in BOOLEAN
  BY DEF MagnetTypes, Magnet!Configs
<1>4. preferences.window_visible /\ ~follower.untold => Magnet!Stopped(o).shown
  BY <1>2 DEF MagnetAgree, MagnetHidden
<1> QED
  BY <1>2, <1>3, <1>4 DEF Magnet!ClearedNotice, MagnetOverlays

\* The mode is turned on or off, or fails to be turned on.
LEMMA MagnetToggleSteps ==
    ASSUME MagnetInductive, Magnet!ToggleMagnetic
    PROVE  MagnetInductive'
<1>0. /\ MagnetTypes /\ MagnetAgree /\ Magnet!FlagsHavePosts
      /\ MagnetTracks /\ MagnetHidden /\ MagnetReturns
  BY DEF MagnetInductive
<1>1. /\ overlayPosts' = overlayPosts /\ preferences' \in Magnet!Configs
      /\ target' = target /\ windowEvents' = windowEvents
      /\ preferences'.window_visible = preferences.window_visible
      /\ Magnet!SetMagnetic(~preferences.magnetic_mode)
  BY DEF Magnet!ToggleMagnetic, Magnet!Request, Magnet!SameSettings, Magnet!world
<1>2. /\ preferences.window_visible \in BOOLEAN /\ preferences.magnetic_mode \in BOOLEAN
      /\ preferences'.magnetic_minimize \in BOOLEAN /\ preferences'.magnetic_mode \in BOOLEAN
      /\ follower \in MagnetOverlays /\ overlayPosts \in Seq(MagnetMessages)
  BY <1>0, <1>1 DEF MagnetTypes, Magnet!Configs
<1>3. /\ magnetic.exists = preferences.magnetic_mode /\ state.exists = preferences.magnetic_mode
      /\ Magnet!NoState.exists = FALSE /\ Magnet!NoManager.exists = FALSE
  BY <1>0, MagnetStateTypes DEF MagnetAgree
<1>4. CASE ~preferences.magnetic_mode
  <2>1. CASE /\ preferences'.magnetic_mode
             /\ magnetic' = [exists |-> TRUE, visible |-> preferences'.window_visible]
             /\ state' = Magnet!MagneticState
             /\ Magnet!ShowNotice("select", [follower EXCEPT !.untold = FALSE])
    <3>1. /\ state' \in MagnetStates /\ state'.exists /\ ~state'.minimized /\ state'.target = "none"
          /\ ~state'.moving /\ ~state'.selecting /\ state'.visible = preferences.window_visible
      BY <1>1, <1>2, <2>1 DEF Magnet!MagneticState, MagnetStates
    <3>2. /\ magnetic' \in MagnetManagers /\ magnetic'.exists
          /\ magnetic'.visible = preferences.window_visible
      BY <1>1, <1>2, <2>1 DEF MagnetManagers
    <3>3. follower' \in MagnetOverlays /\ follower'.shown
      BY <1>2, <2>1 DEF Magnet!ShowNotice, MagnetOverlays
    <3>4. MagnetTypes' /\ MagnetAgree' /\ Magnet!FlagsHavePosts' /\ MagnetHidden' /\ MagnetTracks'
      BY <1>0, <1>1, <2>1, <3>1, <3>2, <3>3
         DEF MagnetTypes, MagnetAgree, Magnet!FlagsHavePosts, MagnetHidden, MagnetTracks
    <3> QED
      BY <1>1, <3>1, <3>4, MagnetOwnSteps
  <2>2. CASE /\ ~preferences'.magnetic_mode
             /\ UNCHANGED <<magnetic, state>>
             /\ follower' = follower \/ follower' = [follower EXCEPT !.shown = preferences'.window_visible]
    <3>1. follower' \in MagnetOverlays /\ follower'.untold = follower.untold
          /\ (follower'.shown = follower.shown \/ follower'.shown = preferences.window_visible)
      BY <1>1, <1>2, <2>2 DEF MagnetOverlays
    <3>4. MagnetTypes'
      BY <1>0, <1>1, <2>2, <3>1 DEF MagnetTypes
    <3>5. MagnetAgree' /\ Magnet!FlagsHavePosts'
      BY <1>2, <1>3, <1>4, <2>2 DEF MagnetAgree, Magnet!FlagsHavePosts
    <3>6. MagnetHidden'
      BY <1>0, <1>1, <1>2, <1>3, <1>4, <2>2, <3>1 DEF MagnetHidden
    <3>2. MagnetTypes' /\ MagnetAgree' /\ Magnet!FlagsHavePosts' /\ MagnetHidden'
      BY <3>4, <3>5, <3>6
    <3>3. MagnetTracks'
      BY <1>3, <1>4, <2>2 DEF MagnetTracks
    <3> QED
      BY <1>1, <1>3, <1>4, <2>2, <3>2, <3>3, MagnetOwnSteps
  <2> QED
    BY <1>1, <1>3, <1>4, <2>1, <2>2 DEF Magnet!SetMagnetic
<1>5. CASE preferences.magnetic_mode
  <2>1. /\ ~preferences'.magnetic_mode /\ magnetic' = Magnet!NoManager /\ state' = Magnet!NoState
        /\ follower' = Magnet!ClearedNotice(Magnet!Stopped(follower))
    BY <1>1, <1>3, <1>5 DEF Magnet!SetMagnetic, Magnet!StopMagnetic
  <2>2. /\ follower' \in MagnetOverlays /\ follower'.untold = follower.untold
        /\ (preferences.window_visible /\ ~follower.untold => follower'.shown)
    BY <1>0, <1>1, <1>2, <2>1, MagnetStoppedShows
  <2>3. MagnetTypes' /\ MagnetAgree' /\ Magnet!FlagsHavePosts' /\ MagnetHidden'
    BY <1>0, <1>1, <1>2, <1>3, <2>1, <2>2
       DEF MagnetTypes, MagnetAgree, Magnet!FlagsHavePosts, MagnetHidden, MagnetManagers
  <2>4. MagnetTracks'
    BY <1>3, <2>1 DEF MagnetTracks
  <2> QED
    BY <1>1, <1>3, <2>1, <2>3, <2>4, MagnetOwnSteps
<1> QED
  BY <1>2, <1>4, <1>5

\* The visibility that the manager and the state are told.
LEMMA MagnetPolicyKept ==
    ASSUME MagnetTypes, MagnetAgree, NEW visible \in BOOLEAN, Magnet!Policy(visible),
           preferences' \in Magnet!Configs, preferences'.magnetic_mode = preferences.magnetic_mode
    PROVE  /\ magnetic' \in MagnetManagers /\ state' \in {Magnet!NoState} \cup MagnetStates
           /\ magnetic'.exists = preferences'.magnetic_mode /\ state'.exists = magnetic'.exists
           /\ state'.exists = state.exists
           /\ state.exists =>
                /\ state'.visible = visible /\ magnetic'.visible = visible
                /\ state'.minimized = state.minimized /\ state'.target = state.target
                /\ state'.moving = state.moving /\ state'.offset = state.offset
                /\ state'.selecting = state.selecting
<1>1. preferences'.magnetic_minimize \in BOOLEAN
  BY DEF Magnet!Configs
<1>2. CASE state.exists
  <2>1. state \in MagnetStates /\ magnetic.exists
    BY <1>2, MagnetStateTypes DEF MagnetAgree
  <2>2. magnetic \in [exists : {TRUE}, visible : BOOLEAN]
    BY <2>1, MagnetStateTypes DEF MagnetTypes, MagnetManagers
  <2>3. /\ state' = [state EXCEPT !.minimize = preferences'.magnetic_minimize, !.visible = visible]
        /\ magnetic' = [magnetic EXCEPT !.visible = visible]
    BY <1>2, <2>1 DEF Magnet!Policy
  <2>4. /\ state' \in MagnetStates /\ state'.exists /\ state'.visible = visible
        /\ state'.minimized = state.minimized /\ state'.target = state.target
        /\ state'.moving = state.moving /\ state'.offset = state.offset
        /\ state'.selecting = state.selecting
    BY <1>1, <2>1, <2>3 DEF MagnetStates
  <2>5. magnetic' \in MagnetManagers /\ magnetic'.exists /\ magnetic'.visible = visible
    BY <2>2, <2>3 DEF MagnetManagers
  <2> QED
    BY <1>2, <2>1, <2>4, <2>5 DEF MagnetAgree
<1>3. CASE ~state.exists
  BY <1>3, MagnetStateTypes DEF Magnet!Policy, MagnetAgree, MagnetTypes
<1> QED
  BY <1>2, <1>3

\* The other commands of the user.
LEMMA MagnetUserSteps ==
    ASSUME MagnetInductive,
           Magnet!ToggleVisible \/ Magnet!ChangeMinimize \/ Magnet!TrayClick \/ Magnet!DragOverlay
    PROVE  MagnetInductive'
<1>0. /\ MagnetTypes /\ MagnetAgree /\ Magnet!FlagsHavePosts
      /\ MagnetTracks /\ MagnetHidden /\ MagnetReturns
  BY DEF MagnetInductive
<1>1. overlayPosts' = overlayPosts /\ target' = target /\ windowEvents' = windowEvents
  BY DEF Magnet!ToggleVisible, Magnet!ChangeMinimize, Magnet!TrayClick, Magnet!DragOverlay,
         Magnet!Request, Magnet!world
<1>2. /\ preferences.window_visible \in BOOLEAN /\ preferences \in Magnet!Configs /\ follower \in MagnetOverlays
  BY <1>0 DEF MagnetTypes, Magnet!Configs
<1>3. ASSUME NEW visible \in BOOLEAN, Magnet!Policy(visible),
             preferences' \in Magnet!Configs, preferences'.magnetic_mode = preferences.magnetic_mode,
             preferences'.window_visible = visible,
             follower' \in MagnetOverlays, follower'.at = follower.at, follower'.adrift = follower.adrift,
             visible => follower'.shown
      PROVE  MagnetInductive'
  <2>1. /\ magnetic' \in MagnetManagers /\ state' \in {Magnet!NoState} \cup MagnetStates
        /\ magnetic'.exists = preferences'.magnetic_mode /\ state'.exists = magnetic'.exists
        /\ state'.exists = state.exists
        /\ state.exists =>
             /\ state'.visible = visible /\ magnetic'.visible = visible
             /\ state'.minimized = state.minimized /\ state'.target = state.target
             /\ state'.moving = state.moving /\ state'.offset = state.offset
             /\ state'.selecting = state.selecting
    BY <1>0, <1>3, MagnetPolicyKept
  <2>2. MagnetTypes' /\ MagnetAgree' /\ Magnet!FlagsHavePosts' /\ MagnetHidden'
    BY <1>0, <1>1, <1>3, <2>1 DEF MagnetTypes, MagnetAgree, Magnet!FlagsHavePosts,
                        Magnet!Awaited, MagnetHidden
  <2>3. follower'.adrift \in BOOLEAN
    BY <1>3 DEF MagnetOverlays
  <2>4. MagnetTracks'
    BY <1>0, <1>1, <1>3, <2>1, <2>3, MagnetStaysBeside
  <2> QED
    BY <1>1, <1>3, <2>1, <2>2, <2>4, MagnetOwnSteps
<1>4. CASE Magnet!ToggleVisible
  <2>1. /\ preferences' \in Magnet!Configs /\ preferences'.magnetic_mode = preferences.magnetic_mode
        /\ preferences'.window_visible \in BOOLEAN /\ Magnet!Policy(preferences'.window_visible)
    BY <1>2, <1>4 DEF Magnet!ToggleVisible, Magnet!Configs
  <2>2. /\ follower' \in MagnetOverlays /\ follower'.at = follower.at
        /\ follower'.adrift = follower.adrift /\ follower'.shown = preferences'.window_visible
    BY <1>2, <1>4, <2>1 DEF Magnet!ToggleVisible, MagnetOverlays
  <2> QED
    BY <1>3, <2>1, <2>2
<1>5. CASE Magnet!ChangeMinimize
  <2>1. /\ preferences' \in Magnet!Configs /\ preferences'.magnetic_mode = preferences.magnetic_mode
        /\ preferences'.window_visible = preferences.window_visible /\ Magnet!Policy(preferences.window_visible)
    BY <1>2, <1>5 DEF Magnet!ChangeMinimize, Magnet!Configs
  <2>2. /\ follower' \in MagnetOverlays /\ follower'.at = follower.at
        /\ follower'.adrift = follower.adrift /\ (preferences.window_visible => follower'.shown)
    BY <1>2, <1>5, <2>1 DEF Magnet!ChangeMinimize, MagnetOverlays
  <2> QED
    BY <1>2, <1>3, <2>1, <2>2
<1>6. CASE Magnet!TrayClick
  <2>1. /\ preferences' \in Magnet!Configs /\ preferences'.magnetic_mode = preferences.magnetic_mode
        /\ preferences'.window_visible /\ UNCHANGED <<magnetic, state>>
    BY <1>2, <1>6 DEF Magnet!TrayClick, Magnet!Configs
  <2>2. /\ follower' \in MagnetOverlays /\ follower'.at = follower.at
        /\ follower'.adrift = follower.adrift /\ follower'.shown
        /\ follower'.untold = (follower.untold \/ (magnetic.exists /\ ~magnetic.visible))
    <3>1. magnetic.exists \in BOOLEAN /\ (magnetic.exists => magnetic.visible \in BOOLEAN)
      BY <1>0, MagnetStateTypes
    <3> QED
      BY <1>2, <1>6, <3>1 DEF Magnet!TrayClick, MagnetOverlays
  <2>3. state.exists => state.visible \in BOOLEAN
    BY <1>0, MagnetStateTypes DEF MagnetStates
  <2>4. MagnetTypes' /\ MagnetAgree' /\ Magnet!FlagsHavePosts' /\ MagnetHidden'
    BY <1>0, <1>1, <1>2, <2>1, <2>2, <2>3
       DEF MagnetTypes, MagnetAgree, Magnet!FlagsHavePosts, Magnet!Awaited, MagnetHidden
  <2>5. state.exists \in BOOLEAN
    BY <1>0, MagnetStateTypes
  <2>6. follower'.adrift \in BOOLEAN
    BY <2>2 DEF MagnetOverlays
  <2>7. MagnetTracks'
    BY <1>0, <1>1, <2>1, <2>2, <2>5, <2>6, MagnetStaysBeside
  <2> QED
    BY <1>1, <2>1, <2>4, <2>5, <2>7, MagnetOwnSteps
<1>7. CASE Magnet!DragOverlay
  <2>0. /\ UNCHANGED <<preferences, magnetic, state>> /\ follower.shown
        /\ follower' = [follower EXCEPT !.at = follower.at + 1, !.adrift = TRUE]
    BY <1>7 DEF Magnet!DragOverlay
  <2>01. follower.at + 1 \in Int
    BY <1>2 DEF MagnetOverlays
  <2>1. UNCHANGED <<preferences, magnetic, state>> /\ follower.shown
        /\ follower' \in MagnetOverlays /\ follower'.untold = follower.untold
        /\ follower'.adrift /\ follower'.shown
    BY <1>2, <2>0, <2>01 DEF MagnetOverlays
  <2>4. MagnetTypes' /\ MagnetAgree' /\ Magnet!FlagsHavePosts' /\ MagnetHidden'
    BY <1>0, <1>1, <1>2, <2>1 DEF MagnetTypes, MagnetAgree, Magnet!FlagsHavePosts,
                        Magnet!Awaited, MagnetHidden
  <2>5. state.exists \in BOOLEAN
    BY <1>0, MagnetStateTypes
  <2>6. MagnetTracks'
    BY <2>1 DEF MagnetTracks
  <2> QED
    BY <1>1, <2>1, <2>4, <2>5, <2>6, MagnetOwnSteps
<1> QED
  BY <1>4, <1>5, <1>6, <1>7

\* The notice ends.
LEMMA MagnetTimerSteps ==
    ASSUME MagnetInductive, Magnet!NoticeTimer
    PROVE  MagnetInductive'
<1>0. /\ MagnetTypes /\ MagnetAgree /\ Magnet!FlagsHavePosts
      /\ MagnetTracks /\ MagnetHidden /\ MagnetReturns
  BY DEF MagnetInductive
<1>1. /\ UNCHANGED <<preferences, magnetic, state, overlayPosts>>
      /\ target' = target /\ windowEvents' = windowEvents
      /\ follower' = [follower EXCEPT !.shown = preferences.window_visible]
  BY DEF Magnet!NoticeTimer, Magnet!world
<1>2. /\ follower' \in MagnetOverlays /\ follower'.at = follower.at /\ follower'.adrift = follower.adrift
      /\ follower'.untold = follower.untold /\ follower'.shown = preferences.window_visible
  BY <1>0, <1>1 DEF MagnetTypes, MagnetOverlays, Magnet!Configs
<1>3. MagnetTypes' /\ MagnetAgree' /\ Magnet!FlagsHavePosts' /\ MagnetHidden'
  BY <1>0, <1>1, <1>2 DEF MagnetTypes, MagnetAgree, Magnet!FlagsHavePosts, Magnet!Awaited,
                        MagnetHidden
<1>4. state.exists \in BOOLEAN
  BY <1>0, MagnetStateTypes
<1>5. follower'.adrift \in BOOLEAN
  BY <1>2 DEF MagnetOverlays
<1>6. MagnetTracks'
  BY <1>0, <1>1, <1>2, <1>4, <1>5, MagnetStaysBeside
<1> QED
  BY <1>1, <1>3, <1>4, <1>6, MagnetOwnSteps

\* A message to the overlay.
LEMMA MagnetSelectedSteps ==
    ASSUME MagnetInductive, Magnet!TargetSelected
    PROVE  MagnetInductive'
<1> USE WindowsAssumption
<1>0. /\ MagnetTypes /\ MagnetAgree /\ Magnet!FlagsHavePosts
      /\ MagnetTracks /\ MagnetHidden /\ MagnetReturns
  BY DEF MagnetInductive
<1> DEFINE msg == Head(overlayPosts)
           w == msg.window
<1>1. /\ overlayPosts # << >> /\ overlayPosts' = Tail(overlayPosts) /\ msg.kind = "selected"
      /\ target' = target /\ windowEvents' = windowEvents
  BY DEF Magnet!TargetSelected, Magnet!Receive, Magnet!world
<1>2. /\ overlayPosts' \in Seq(MagnetMessages) /\ msg \in MagnetMessages
      /\ \A k : MagnetOfKind(overlayPosts, k) /\ msg.kind # k => MagnetOfKind(overlayPosts', k)
  BY <1>0, <1>1, MagnetTailComing DEF MagnetTypes
<1>3. w \in MagnetTarget
  BY <1>1, <1>2 DEF MagnetMessages
<1>4. /\ preferences.window_visible \in BOOLEAN /\ preferences \in Magnet!Configs /\ follower \in MagnetOverlays
      /\ Magnet!NoState.exists = FALSE /\ Magnet!NoManager.exists = FALSE
      /\ magnetic.exists = preferences.magnetic_mode /\ state.exists = preferences.magnetic_mode
      /\ state.exists => state \in MagnetStates
  BY <1>0, MagnetStateTypes DEF MagnetTypes, Magnet!Configs, MagnetAgree
<1>5. CASE ~preferences.magnetic_mode /\ UNCHANGED <<preferences, magnetic, state, follower>>
  <2>1. MagnetTypes' /\ MagnetAgree' /\ Magnet!FlagsHavePosts' /\ MagnetHidden'
    BY <1>0, <1>1, <1>2, <1>4, <1>5 DEF MagnetTypes, MagnetAgree, Magnet!FlagsHavePosts,
                        MagnetHidden
  <2>2. MagnetTracks'
    BY <1>4, <1>5 DEF MagnetTracks
  <2> QED
    BY <1>1, <1>4, <1>5, <2>1, <2>2, MagnetOwnSteps
<1>6. CASE /\ preferences.magnetic_mode
           /\ state' = Magnet!Attached(w)
           /\ UNCHANGED <<preferences, magnetic>>
           /\ Magnet!ShowNotice("attached", [follower EXCEPT !.adrift = FALSE])
  <2>1. Magnet!Rect(w) \in Int /\ follower.at \in Int
    BY <1>0, <1>3, <1>4, MagnetPlacesTyped DEF MagnetOverlays
  <2>2. /\ state' \in MagnetStates /\ state'.exists /\ state'.target = w /\ ~state'.minimized
        /\ ~state'.selecting /\ ~state'.moving
        /\ state'.offset = follower.at - Magnet!Rect(w) /\ state'.visible = state.visible
    <3>1. follower.at - Magnet!Rect(w) \in Int
      BY <2>1
    <3> QED
      BY <1>3, <1>4, <1>6, <3>1 DEF Magnet!Attached, MagnetStates
  <2>3. /\ follower' \in MagnetOverlays /\ follower'.at = follower.at /\ follower'.untold = follower.untold
        /\ preferences.window_visible => follower'.shown
    BY <1>4, <1>6 DEF Magnet!ShowNotice, MagnetOverlays
  <2>4. MagnetTypes' /\ MagnetAgree' /\ Magnet!FlagsHavePosts' /\ MagnetHidden'
    BY <1>0, <1>1, <1>2, <1>4, <1>6, <2>2, <2>3
       DEF MagnetTypes, MagnetAgree, Magnet!FlagsHavePosts, MagnetHidden
  <2>5. Magnet!Rect(w) + (follower.at - Magnet!Rect(w)) = follower.at
    BY <2>1
  <2>6. MagnetTracks'
    <3>1. Magnet!Rect(state.target)' = Magnet!Rect(w)
      BY <1>1, <2>2 DEF Magnet!Rect
    <3> QED
      BY <2>2, <2>3, <2>5, <3>1 DEF MagnetTracks
  <2> QED
    BY <1>1, <2>2, <2>4, <2>6, MagnetOwnSteps
<1>7. ASSUME /\ preferences.magnetic_mode
             /\ preferences' = [preferences EXCEPT !.magnetic_mode = FALSE]
             /\ magnetic' = Magnet!NoManager /\ state' = Magnet!NoState,
             follower' = Magnet!Stopped([follower EXCEPT !.shown = preferences'.window_visible])
             \/ follower' = Magnet!ClearedNotice(Magnet!Stopped(follower))
      PROVE  MagnetInductive'
  <2> DEFINE o == [follower EXCEPT !.shown = preferences'.window_visible]
  <2>1. /\ preferences' \in Magnet!Configs /\ preferences'.window_visible = preferences.window_visible
        /\ preferences'.magnetic_mode = FALSE
    BY <1>4, <1>7 DEF Magnet!Configs
  <2>2. o \in MagnetOverlays /\ o.untold = follower.untold /\ o.shown = preferences.window_visible
    BY <1>4, <2>1 DEF MagnetOverlays
  <2> HIDE DEF o
  <2>5. ASSUME follower' \in MagnetOverlays, follower'.untold = follower.untold,
               preferences.window_visible /\ ~follower.untold => follower'.shown
        PROVE  MagnetInductive'
    <3>1. MagnetTypes' /\ MagnetAgree' /\ Magnet!FlagsHavePosts' /\ MagnetHidden'
      BY <1>0, <1>1, <1>2, <1>4, <1>7, <2>1, <2>5
         DEF MagnetTypes, MagnetAgree, Magnet!FlagsHavePosts, MagnetHidden, MagnetManagers
    <3>2. MagnetTracks'
      BY <1>4, <1>7 DEF MagnetTracks
    <3> QED
      BY <1>1, <1>4, <1>7, <3>1, <3>2, MagnetOwnSteps
  <2>3. CASE follower' = Magnet!Stopped(o)
    <3>1. /\ follower' \in MagnetOverlays /\ follower'.untold = follower.untold
          /\ (preferences.window_visible /\ ~follower.untold => follower'.shown)
      BY <1>0, <1>4, <2>1, <2>2, <2>3, MagnetStoppedShows
    <3> QED
      BY <2>5, <3>1
  <2>4. CASE follower' = Magnet!ClearedNotice(Magnet!Stopped(follower))
    <3>1. /\ follower' \in MagnetOverlays /\ follower'.untold = follower.untold
          /\ (preferences.window_visible /\ ~follower.untold => follower'.shown)
      BY <1>0, <1>4, <2>1, <2>4, MagnetStoppedShows
    <3> QED
      BY <2>5, <3>1
  <2> QED
    BY <1>7, <2>3, <2>4 DEF o
<1> QED
  BY <1>5, <1>6, <1>7 DEF Magnet!TargetSelected, Magnet!StopMagnetic

\* The overlay is put beside its target.
LEMMA MagnetRepositionSteps ==
    ASSUME MagnetInductive, Magnet!ApplyReposition
    PROVE  MagnetInductive'
<1>0. /\ MagnetTypes /\ MagnetAgree /\ Magnet!FlagsHavePosts
      /\ MagnetTracks /\ MagnetHidden /\ MagnetReturns
  BY DEF MagnetInductive
<1>1. /\ overlayPosts # << >> /\ overlayPosts' = Tail(overlayPosts) /\ Head(overlayPosts).kind = "reposition"
      /\ target' = target /\ windowEvents' = windowEvents
      /\ UNCHANGED <<preferences, magnetic>>
  BY DEF Magnet!ApplyReposition, Magnet!Receive, Magnet!world
<1>2. /\ overlayPosts' \in Seq(MagnetMessages)
      /\ \A k : MagnetOfKind(overlayPosts, k) /\ Head(overlayPosts).kind # k => MagnetOfKind(overlayPosts', k)
  BY <1>0, <1>1, MagnetTailComing DEF MagnetTypes
<1>3. CASE ~state.exists
  <2>1. UNCHANGED <<state, follower>>
    BY <1>3 DEF Magnet!ApplyReposition
  <2>2. MagnetTypes' /\ MagnetAgree' /\ Magnet!FlagsHavePosts' /\ MagnetHidden'
    BY <1>0, <1>1, <1>2, <1>3, <2>1 DEF MagnetTypes, MagnetAgree, Magnet!FlagsHavePosts,
                        MagnetHidden
  <2>3. MagnetTracks'
    BY <1>3, <2>1 DEF MagnetTracks
  <2> QED
    BY <1>1, <1>3, <2>1, <2>2, <2>3, MagnetOwnSteps
<1>4. CASE state.exists
  <2>1. /\ state' = [state EXCEPT !.moving = FALSE]
        /\ follower' = IF state.minimized \/ state.target = "none" THEN follower
                      ELSE Magnet!Repositioned(state, follower)
    BY <1>4 DEF Magnet!ApplyReposition
  <2>2. state \in MagnetStates /\ state' \in MagnetStates /\ state'.exists /\ ~state'.moving
        /\ state'.target = state.target /\ state'.minimized = state.minimized
        /\ state'.selecting = state.selecting /\ state'.visible = state.visible
        /\ state'.offset = state.offset
    BY <1>0, <1>4, <2>1, MagnetStateTypes DEF MagnetStates
  <2>3. follower \in MagnetOverlays
    BY <1>0 DEF MagnetTypes
  <2>4. /\ follower' \in MagnetOverlays /\ follower'.untold = follower.untold
        /\ follower'.shown = follower.shown
        /\ (~state.minimized /\ state.target # "none" /\ ~target[state.target].closed =>
              follower'.at = Magnet!Rect(state.target) + state.offset)
    BY <1>0, <1>4, <2>1, <2>3, MagnetRepositionedTyped
  <2>5. MagnetTypes' /\ MagnetAgree' /\ MagnetHidden'
    BY <1>0, <1>1, <1>2, <1>4, <2>2, <2>4 DEF MagnetTypes, MagnetAgree, MagnetHidden
  <2>6. Magnet!FlagsHavePosts'
    BY <1>0, <1>1, <1>2, <1>4, <2>2 DEF Magnet!FlagsHavePosts, Magnet!Awaited, MagnetOfKind
  <2>7. MagnetTracks'
    <3>1. Magnet!Rect(state.target)' = Magnet!Rect(state.target)
      BY <1>1, <2>2 DEF Magnet!Rect
    <3> QED
      BY <1>1, <2>2, <2>4, <3>1 DEF MagnetTracks
  <2> QED
    BY <1>1, <1>4, <2>2, <2>5, <2>6, <2>7, MagnetOwnSteps
<1> QED
  BY <1>0, <1>3, <1>4, MagnetStateTypes

\* Every step of the part.
LEMMA MagnetStep == MagnetInductive /\ [Magnet!Next]_Magnet!vars => MagnetInductive'
<1> SUFFICES ASSUME MagnetInductive, [Magnet!Next]_Magnet!vars PROVE MagnetInductive'
  OBVIOUS
<1>1. CASE Magnet!Next
  BY <1>1, MagnetWorldSteps, MagnetCallbackSteps, MagnetToggleSteps, MagnetUserSteps,
     MagnetTimerSteps, MagnetSelectedSteps,
     MagnetRepositionSteps DEF Magnet!Next, Magnet!User
<1>2. CASE UNCHANGED Magnet!vars
  BY <1>2 DEF MagnetInductive, MagnetTypes, MagnetAgree, Magnet!FlagsHavePosts, Magnet!Awaited,
              MagnetTracks, MagnetHidden,
              MagnetReturns, MagnetTruthful, Magnet!vars, Magnet!Rect
<1> QED
  BY <1>1, <1>2

LEMMA MagnetInvariant == Magnet!Spec => []MagnetInductive
BY MagnetStart, MagnetStep, PTL DEF Magnet!Spec

\* What is checked follows from it.
LEMMA MagnetImplied ==
    MagnetInductive => Magnet!FollowsTarget /\ Magnet!ComesBack /\ Magnet!FlagsHavePosts
<1> SUFFICES ASSUME MagnetInductive PROVE Magnet!FollowsTarget /\ Magnet!ComesBack /\ Magnet!FlagsHavePosts
  OBVIOUS
<1>0. /\ MagnetTypes /\ MagnetAgree /\ Magnet!FlagsHavePosts
      /\ MagnetTracks /\ MagnetHidden /\ MagnetReturns
  BY DEF MagnetInductive
<1>1. windowEvents = << >> => \A x : ~MagnetComing(windowEvents, x)
  BY DEF MagnetComing
<1>2. overlayPosts = << >> => \A k : ~Magnet!Awaited(k)
  BY DEF Magnet!Awaited
<1>3. Magnet!FollowsTarget
  BY <1>0, <1>1, <1>2 DEF Magnet!FollowsTarget, MagnetTracks, Magnet!FlagsHavePosts
<1>4. Magnet!ComesBack
  BY <1>0, <1>1 DEF Magnet!ComesBack, MagnetHidden, MagnetReturns
<1> QED
  BY <1>0, <1>3, <1>4

\* The overlay follows its target wherever that goes, comes back with it, and no flag holds back
\* further messages for good: whatever the user does to the windows and to the mode while events
\* and messages are on their way.
THEOREM KeepsBesideItsTarget == SafetySpec => []MagnetHolds
<1>1. MagnetInductive => MagnetHolds
  BY MagnetImplied DEF MagnetHolds
<1> QED
  BY <1>1, MagnetInvariant, MagnetAlone, PTL
-----------------------------------------------------------------------------
(* The translation of files: what FileTranslation_proofs proves of it.     *)

TransP == INSTANCE FileTranslation_proofs WITH Jobs <- TransJobs, Engines <- TransEngines,
              FileEnds <- TransEnds, Blank <- TransBlank, BatchLines <- TransBatch,
              Permits <- TransPermits, Interval <- TransInterval, Budget <- TransBudget,
              MaxFaults <- TransFaults, worker <- runner, temp <- output, cancelled <- stopped,
              output <- outputs, events <- messages, dialog <- progress, faults <- failed

\* The module of the proofs extends that of the model: both names stand for the same.
LEMMA TransBegins == Trans!Init => TransP!Init
  BY DEF Trans!Init, TransP!Init, Trans!Files, TransP!Files, Trans!FileLines, TransP!FileLines,
     Trans!TotalLines, TransP!TotalLines, Trans!Old, TransP!Old, Trans!NoFile, TransP!NoFile,
     Trans!NoDialog, TransP!NoDialog, Trans!NoJob, TransP!NoJob

\* They name the same ends of a job.
LEMMA TransFinish == \A j, sent, r : Trans!FinishAfter(j, sent, r) <=> TransP!FinishAfter(j, sent, r)
  BY DEF Trans!FinishAfter, TransP!FinishAfter, Trans!PoolReplaced, TransP!PoolReplaced,
     Trans!Goto, TransP!Goto, Trans!Send, TransP!Send, Trans!Event, TransP!Event, Trans!NoFile,
     TransP!NoFile, Trans!uiVars, TransP!uiVars

\* The two name the same steps.
LEMMA TransSteps == [Trans!Next]_Trans!vars => [TransP!Next]_TransP!vars
<1>1. \A j : Trans!Preflight(j) => TransP!Preflight(j)
  BY TransFinish DEF Trans!Preflight, TransP!Preflight, Trans!Fault, TransP!Fault, Trans!Goto,
     TransP!Goto, Trans!Finish, TransP!Finish, Trans!uiVars, TransP!uiVars
<1>2. \A j : Trans!GetPool(j) => TransP!GetPool(j)
  BY TransFinish DEF Trans!GetPool, TransP!GetPool, Trans!Fault, TransP!Fault, Trans!Goto,
     TransP!Goto, Trans!Finish, TransP!Finish, Trans!uiVars, TransP!uiVars
<1>3. \A j : Trans!DropPool(j) => TransP!DropPool(j)
  BY DEF Trans!DropPool, TransP!DropPool, Trans!Goto, TransP!Goto, Trans!Send, TransP!Send,
     Trans!Event, TransP!Event, Trans!uiVars, TransP!uiVars
<1>4. \A j : Trans!NextFile(j) => TransP!NextFile(j)
  BY TransFinish DEF Trans!NextFile, TransP!NextFile, Trans!Fault, TransP!Fault, Trans!Finish,
     TransP!Finish, Trans!Goto, TransP!Goto, Trans!Send, TransP!Send, Trans!Event,
     TransP!Event, Trans!uiVars, TransP!uiVars, Trans!FileLines, TransP!FileLines,
     Trans!TotalLines, TransP!TotalLines
<1>5. \A j : Trans!StartBatch(j) => TransP!StartBatch(j)
  BY TransFinish DEF Trans!StartBatch, TransP!StartBatch, Trans!Fault, TransP!Fault,
     Trans!LinesLeft, TransP!LinesLeft, Trans!BatchCount, TransP!BatchCount, Trans!IsBlank,
     TransP!IsBlank, Trans!FileLines, TransP!FileLines, Trans!TotalLines, TransP!TotalLines,
     Trans!Finish, TransP!Finish, Trans!Goto, TransP!Goto, Trans!uiVars, TransP!uiVars
<1>6. \A j, k : Trans!StartLine(j, k) => TransP!StartLine(j, k)
  BY Zenon DEF Trans!StartLine, TransP!StartLine, Trans!Cardinality, TransP!Cardinality, Trans!uiVars, TransP!uiVars
<1>7. \A j, k : Trans!EndLine(j, k) => TransP!EndLine(j, k)
  BY DEF Trans!EndLine, TransP!EndLine, Trans!uiVars, TransP!uiVars
<1>8. \A j : Trans!LinesDrained(j) => TransP!LinesDrained(j)
  BY TransFinish DEF Trans!LinesDrained, TransP!LinesDrained, Trans!Pending, TransP!Pending,
     Trans!Finish, TransP!Finish, Trans!Goto, TransP!Goto, Trans!uiVars, TransP!uiVars
<1>9. \A j : Trans!LinesCancelled(j) => TransP!LinesCancelled(j)
  BY TransFinish DEF Trans!LinesCancelled, TransP!LinesCancelled, Trans!Finish, TransP!Finish,
     Trans!Goto, TransP!Goto, Trans!uiVars, TransP!uiVars
<1>10. \A j : Trans!TranslateWindow(j) => TransP!TranslateWindow(j)
  BY TransFinish DEF Trans!TranslateWindow, TransP!TranslateWindow, Trans!Fault, TransP!Fault,
     Trans!Finish, TransP!Finish, Trans!Goto, TransP!Goto, Trans!uiVars, TransP!uiVars
<1>11. \A j : Trans!WriteLine(j) => TransP!WriteLine(j)
  BY TransFinish DEF Trans!WriteLine, TransP!WriteLine, Trans!Fault, TransP!Fault, Trans!Goto,
     TransP!Goto, Trans!Send, TransP!Send, Trans!Event, TransP!Event, Trans!uiVars,
     TransP!uiVars, Trans!FileLines, TransP!FileLines, Trans!TotalLines, TransP!TotalLines,
     Trans!Written, TransP!Written
<1>12. \A j : Trans!Persist(j) => TransP!Persist(j)
  BY TransFinish DEF Trans!Persist, TransP!Persist, Trans!LinesLeft, TransP!LinesLeft,
     Trans!FileLines, TransP!FileLines, Trans!TotalLines, TransP!TotalLines, Trans!Fault,
     TransP!Fault, Trans!Finish, TransP!Finish, Trans!Goto, TransP!Goto, Trans!NoFile,
     TransP!NoFile, Trans!uiVars, TransP!uiVars
<1>13. \A j : Trans!Exit(j) => TransP!Exit(j)
  BY DEF Trans!Exit, TransP!Exit, Trans!Goto, TransP!Goto, Trans!uiVars, TransP!uiVars
<1>14. \A j : Trans!StartTranslation(j) => TransP!StartTranslation(j)
  BY DEF Trans!StartTranslation, TransP!StartTranslation, Trans!Fault, TransP!Fault,
     Trans!Goto, TransP!Goto, Trans!NoDialog, TransP!NoDialog, Trans!NoJob, TransP!NoJob,
     Trans!Reaped, TransP!Reaped, Trans!Exited, TransP!Exited
<1>15. Trans!CancelClicked => TransP!CancelClicked
  BY DEF Trans!CancelClicked, TransP!CancelClicked, Trans!uiVars, TransP!uiVars,
     Trans!workerVars, TransP!workerVars
<1>16. Trans!PollEvents => TransP!PollEvents
  BY DEF Trans!PollEvents, TransP!PollEvents, Trans!Shown, TransP!Shown, Trans!Any, TransP!Any,
     Trans!IsLatest, TransP!IsLatest, Trans!Latest, TransP!Latest, Trans!workerVars,
     TransP!workerVars
<1>17. Trans!CloseProgress => TransP!CloseProgress
  BY DEF Trans!CloseProgress, TransP!CloseProgress, Trans!Fault, TransP!Fault, Trans!NoDialog,
     TransP!NoDialog, Trans!NoJob, TransP!NoJob, Trans!workerVars, TransP!workerVars
<1>18. Trans!BeginShutdown => TransP!BeginShutdown
  BY DEF Trans!BeginShutdown, TransP!BeginShutdown, Trans!NoDialog, TransP!NoDialog,
     Trans!NoJob, TransP!NoJob, Trans!workerVars, TransP!workerVars
<1>19. Trans!ShutdownTurn => TransP!ShutdownTurn
  BY DEF Trans!ShutdownTurn, TransP!ShutdownTurn, Trans!Reaped, TransP!Reaped, Trans!Exited,
     TransP!Exited, Trans!workerVars, TransP!workerVars
<1>20. Trans!ShutdownDeadline => TransP!ShutdownDeadline
  BY DEF Trans!ShutdownDeadline, TransP!ShutdownDeadline, Trans!workerVars, TransP!workerVars
<1> QED
  BY <1>1, <1>2, <1>3, <1>4, <1>5, <1>6, <1>7, <1>8, <1>9, <1>10, <1>11, <1>12, <1>13, <1>14,
     <1>15, <1>16, <1>17, <1>18, <1>19, <1>20,
     Zenon DEF Trans!Next, TransP!Next, Trans!WorkerStep, TransP!WorkerStep,
               Trans!vars, TransP!vars, Trans!workerVars, TransP!workerVars, Trans!uiVars, TransP!uiVars

\* Translating files is one of the parts.
LEMMA TransAlone == SafetySpec => TransP!Steps
<1>1. SafetyInit => Trans!Init
  BY DEF SafetyInit, TransStart, TransRests
<1>2. SafetyInit => TransP!Init
  BY <1>1, TransBegins
<1>3. [SafetyNext]_allVars => [Trans!Next]_Trans!vars
  BY DEF SafetyNext, allVars, transVars, Trans!vars, Trans!workerVars, Trans!uiVars
<1>4. [SafetyNext]_allVars => [TransP!Next]_TransP!vars
  BY <1>3, TransSteps
<1> QED
  BY <1>2, <1>4, PTL DEF SafetySpec, TransP!Steps

\* A translated file is whole or the one that was there, the progress window ends on the total
\* it announced, and a thread that has not ended is joined or was detached at the deadline.
THEOREM FinishesWhole == SafetySpec => []FilesFinishWhole
<1>1. TransP!Sums /\ TransBudget \in Nat
  BY FilesAssumption DEF TransP!Sums
<1>2. TransP!Counted
  BY <1>1, TransP!TotalsAdd
<1>3. TransP!Steps => []TransP!OutputsWhole
  BY <1>2, TransP!OutputsAreWhole
<1>4. TransP!Steps => []TransP!NoThreadForgotten
  BY <1>2, TransP!ThreadsAreJoined
<1>5. TransP!Steps => []TransP!EndShowsTotal
  BY <1>1, TransP!EndIsShown
<1>6. /\ TransP!OutputsWhole => Trans!OutputsWhole
      /\ TransP!NoThreadForgotten => Trans!NoThreadForgotten
      /\ TransP!EndShowsTotal => Trans!EndShowsTotal
  BY DEF Trans!OutputsWhole, TransP!OutputsWhole, Trans!Results, TransP!Results, Trans!Old,
     TransP!Old, Trans!Files, TransP!Files, Trans!FileLines, TransP!FileLines, Trans!TotalLines,
     TransP!TotalLines, Trans!NoThreadForgotten, TransP!NoThreadForgotten, Trans!EndShowsTotal,
     TransP!EndShowsTotal
<1>7. TransP!OutputsWhole /\ TransP!NoThreadForgotten /\ TransP!EndShowsTotal => FilesFinishWhole
  BY <1>6 DEF FilesFinishWhole
<1> QED
  BY <1>3, <1>4, <1>5, <1>7, TransAlone, PTL

-----------------------------------------------------------------------------
(* The backlog: its window holds what the application holds.  The store is  *)
(* pushed to one text at a time, and what waited is pushed when a command   *)
(* ends; a push keeps the longest end that fits, so of two stores of which  *)
(* one ends the other it still does when both are pushed to.                *)

LEMMA LogAlone == SafetySpec => Log!Spec
<1>1. SafetyInit => Log!Init
  BY DEF SafetyInit
<1>2. [SafetyNext]_allVars => [Log!Next]_Log!vars
  BY DEF SafetyNext, allVars, backlogVars, Log!vars
<1> QED
  BY <1>1, <1>2, PTL DEF SafetySpec, Log!Spec

LEMMA SetInduction ==
    ASSUME NEW S \in SUBSET Nat, 0 \in S, \A n \in S : n + 1 \in S
    PROVE  S = Nat
<1> SUFFICES ASSUME Nat \ S # {} PROVE FALSE
  OBVIOUS
<1> DEFINE less == OpToRel(<,Nat)
           T == Nat \ S
<1>1. \A x, y \in Nat : y < x => <<y, x>> \in less
  BY DEF OpToRel
<1>2. IsWellFoundedOn(less, Nat) /\ T \subseteq Nat /\ T # {}
  BY NatLessThanWellFounded
<1> HIDE DEF less, T
<1>3. PICK x \in T : \A y \in T : ~ (<<y, x>> \in less)
  BY <1>2, WFMin
<1>4. x # 0 /\ x \in Nat /\ x - 1 \in Nat /\ x - 1 < x
  BY <1>2, <1>3 DEF T
<1>5. x - 1 \in S
  BY <1>1, <1>2, <1>3, <1>4 DEF T
<1>6. x \in S
  <2>1. (x - 1) + 1 \in S
    BY <1>5
  <2> QED
    BY <1>4, <2>1
<1> QED
  BY <1>3, <1>6 DEF T

\* Of the numbers of a set there is a least one.
LEMMA LeastNumber ==
    ASSUME NEW T \in SUBSET Nat, T # {}
    PROVE  \E n \in T : \A k \in T : n <= k
<1> DEFINE less == OpToRel(<,Nat)
<1>1. \A x, y \in Nat : y < x => <<y, x>> \in less
  BY DEF OpToRel
<1>2. IsWellFoundedOn(less, Nat)
  BY NatLessThanWellFounded
<1> HIDE DEF less
<1>3. PICK x \in T : \A y \in T : ~ (<<y, x>> \in less)
  BY <1>2, WFMin
<1>4. \A y \in T : ~(y < x)
  BY <1>1, <1>3
<1> QED
  BY <1>4

-----------------------------------------------------------------------------
(* Ends of sequences                                                       *)

LogEntry == [id : Nat, size : LogSizes]

\* s is the end of t.
LogEnd(s, t) == Len(s) <= Len(t) /\ \A i \in 1..Len(s) : s[i] = t[Len(t) - Len(s) + i]
LogAscending(s) == \A i, k \in 1..Len(s) : i < k => s[i].id < s[k].id
LogUpTo(s, n) == \A i \in 1..Len(s) : s[i].id <= n

LEMMA LogEndIsSuffix ==
    ASSUME NEW E, NEW s \in Seq(E), NEW t \in Seq(E), LogEnd(s, t)
    PROVE  Log!IsSuffix(s, t)
<1> DEFINE r == Log!Reverse(s)
           u == Log!Reverse(t)
<1>1. /\ Len(s) \in Nat /\ Len(t) \in Nat /\ Len(s) <= Len(t)
      /\ \A i \in 1..Len(s) : s[i] = t[Len(t) - Len(s) + i]
  BY DEF LogEnd
<1>2. /\ r \in Seq(E) /\ u \in Seq(E) /\ Len(r) = Len(s) /\ Len(u) = Len(t)
      /\ \A i \in 1..Len(s) : r[i] = s[Len(s) - i + 1]
      /\ \A i \in 1..Len(t) : u[i] = t[Len(t) - i + 1]
  BY DEF Log!Reverse
<1> HIDE DEF r, u
<1>3. ASSUME NEW i \in 1..Len(s) PROVE r[i] = u[i]
  <2> DEFINE k == Len(s) - i + 1
  <2>1. k \in 1..Len(s) /\ i \in 1..Len(t) /\ Len(t) - Len(s) + k = Len(t) - i + 1
    BY <1>1
  <2>2. r[i] = s[k] /\ u[i] = t[Len(t) - i + 1]
    BY <1>2, <2>1
  <2> QED
    BY <1>1, <2>1, <2>2
<1>4. SubSeq(r, 1, Len(r)) = SubSeq(u, 1, Len(r))
  BY <1>1, <1>2, <1>3
<1> QED
  BY <1>1, <1>2, <1>4 DEF Log!IsSuffix, Log!IsPrefix, r, u

LEMMA LogEndAppend ==
    ASSUME NEW E, NEW s \in Seq(E), NEW t \in Seq(E), NEW e \in E, LogEnd(s, t)
    PROVE  LogEnd(Append(s, e), Append(t, e))
<1> DEFINE a == Append(s, e)
           b == Append(t, e)
<1>1. /\ Len(s) \in Nat /\ Len(t) \in Nat /\ Len(s) <= Len(t)
      /\ Len(a) = Len(s) + 1 /\ Len(b) = Len(t) + 1
      /\ \A i \in 1..Len(s) : a[i] = s[i] /\ s[i] = t[Len(t) - Len(s) + i]
      /\ \A i \in 1..Len(t) : b[i] = t[i]
      /\ a[Len(s) + 1] = e /\ b[Len(t) + 1] = e
  BY DEF LogEnd
<1> HIDE DEF a, b
<1>2. ASSUME NEW i \in 1..Len(a) PROVE a[i] = b[Len(b) - Len(a) + i]
  <2>0. Len(b) - Len(a) = Len(t) - Len(s)
    BY <1>1
  <2>1. CASE i = Len(s) + 1
    <3>1. Len(t) - Len(s) + i = Len(t) + 1
      BY <1>1, <2>1
    <3> QED
      BY <1>1, <2>0, <2>1, <3>1
  <2>2. CASE i \in 1..Len(s)
    <3>1. Len(t) - Len(s) + i \in 1..Len(t)
      BY <1>1, <2>2
    <3> QED
      BY <1>1, <2>0, <2>2, <3>1
  <2> QED
    BY <1>1, <2>1, <2>2
<1>3. Len(a) <= Len(b)
  BY <1>1
<1>4. LogEnd(a, b)
  BY <1>2, <1>3 DEF LogEnd
<1> QED
  BY <1>4 DEF a, b

LEMMA LogEndInEnd ==
    ASSUME NEW E, NEW a \in Seq(E), NEW b \in Seq(E), NEW c \in Seq(E)
    PROVE  /\ LogEnd(a, b) /\ LogEnd(b, c) => LogEnd(a, c)
           /\ LogEnd(a, c) /\ LogEnd(b, c) /\ Len(a) <= Len(b) => LogEnd(a, b)
<1>0. Len(a) \in Nat /\ Len(b) \in Nat /\ Len(c) \in Nat
  OBVIOUS
<1>1. ASSUME LogEnd(a, b), LogEnd(b, c) PROVE LogEnd(a, c)
  <2>1. ASSUME NEW i \in 1..Len(a) PROVE a[i] = c[Len(c) - Len(a) + i]
    <3> DEFINE k == Len(b) - Len(a) + i
    <3>1. k \in 1..Len(b) /\ Len(c) - Len(b) + k = Len(c) - Len(a) + i
      BY <1>0, <1>1 DEF LogEnd
    <3>2. a[i] = b[k] /\ b[k] = c[Len(c) - Len(b) + k]
      BY <1>1, <3>1 DEF LogEnd
    <3> QED
      BY <3>1, <3>2
  <2> QED
    BY <1>0, <1>1, <2>1 DEF LogEnd
<1>2. ASSUME LogEnd(a, c), LogEnd(b, c), Len(a) <= Len(b) PROVE LogEnd(a, b)
  <2>1. ASSUME NEW i \in 1..Len(a) PROVE a[i] = b[Len(b) - Len(a) + i]
    <3> DEFINE k == Len(b) - Len(a) + i
    <3>1. k \in 1..Len(b) /\ Len(c) - Len(b) + k = Len(c) - Len(a) + i
      BY <1>0, <1>2
    <3>2. a[i] = c[Len(c) - Len(a) + i] /\ b[k] = c[Len(c) - Len(b) + k]
      BY <1>2, <3>1 DEF LogEnd
    <3> QED
      BY <3>1, <3>2
  <2> QED
    BY <1>2, <2>1 DEF LogEnd
<1> QED
  BY <1>1, <1>2

LEMMA LogEndAscends ==
    ASSUME NEW s \in Seq(LogEntry), NEW t \in Seq(LogEntry), LogEnd(s, t)
    PROVE  /\ LogAscending(t) => LogAscending(s)
           /\ \A n : LogUpTo(t, n) => LogUpTo(s, n)
<1>0. Len(s) \in Nat /\ Len(t) \in Nat /\ Len(s) <= Len(t)
  BY DEF LogEnd
<1>1. \A i \in 1..Len(s) : Len(t) - Len(s) + i \in 1..Len(t) /\ s[i] = t[Len(t) - Len(s) + i]
  BY <1>0 DEF LogEnd
<1>2. LogAscending(t) => LogAscending(s)
  <2> SUFFICES ASSUME LogAscending(t), NEW i \in 1..Len(s), NEW k \in 1..Len(s), i < k
               PROVE  s[i].id < s[k].id
    BY DEF LogAscending
  <2>1. Len(t) - Len(s) + i < Len(t) - Len(s) + k
    BY <1>0
  <2> QED
    BY <1>1, <2>1 DEF LogAscending
<1> QED
  BY <1>1, <1>2 DEF LogUpTo

LEMMA LogAppendAscends ==
    ASSUME NEW s \in Seq(LogEntry), NEW e \in LogEntry, NEW n \in Nat, LogAscending(s), LogUpTo(s, n), n < e.id
    PROVE  LogAscending(Append(s, e)) /\ LogUpTo(Append(s, e), e.id)
<1> DEFINE a == Append(s, e)
<1>1. /\ Len(s) \in Nat /\ Len(a) = Len(s) + 1 /\ a[Len(s) + 1] = e /\ e.id \in Nat
      /\ \A i \in 1..Len(s) : a[i] = s[i] /\ s[i].id \in Nat
  <2>1. /\ Len(s) \in Nat /\ Len(a) = Len(s) + 1 /\ a[Len(s) + 1] = e
        /\ \A i \in 1..Len(s) : a[i] = s[i] /\ s[i] \in LogEntry
    OBVIOUS
  <2>2. \A x \in LogEntry : x.id \in Nat
    BY DEF LogEntry
  <2> QED
    BY <2>1, <2>2
<1> HIDE DEF a
<1>2. \A i \in 1..Len(a) : i \in 1..Len(s) \/ i = Len(s) + 1
  BY <1>1
<1>3. \A i \in 1..Len(s) : a[i].id < e.id
  BY <1>1 DEF LogUpTo
<1>4. LogUpTo(a, e.id)
  BY <1>1, <1>2, <1>3 DEF LogUpTo
<1>5. ASSUME NEW i \in 1..Len(a), NEW k \in 1..Len(a), i < k PROVE a[i].id < a[k].id
  <2>1. i \in 1..Len(s)
    BY <1>1, <1>2, <1>5
  <2>2. CASE k \in 1..Len(s)
    BY <1>1, <1>5, <2>1, <2>2 DEF LogAscending
  <2>3. CASE k = Len(s) + 1
    BY <1>1, <1>3, <2>1, <2>3
  <2> QED
    BY <1>2, <2>2, <2>3
<1> QED
  BY <1>4, <1>5 DEF LogAscending, a

-----------------------------------------------------------------------------
(* The store                                                               *)

\* What is left is an end that fits, and no longer end fits.
LEMMA LogEvictKeeps ==
    ASSUME NEW s \in Seq(LogEntry), s # << >>
    PROVE  /\ Log!Evict(s) \in Seq(LogEntry) /\ Log!Evict(s) # << >> /\ LogEnd(Log!Evict(s), s) /\ Log!Fits(Log!Evict(s))
           /\ \A a \in Seq(LogEntry) : a # << >> /\ LogEnd(a, s) /\ Log!Fits(a) => LogEnd(a, Log!Evict(s))
<1> DEFINE Rest(i) == SubSeq(s, i, Len(s))
           T == {i \in 1..Len(s) : Log!Fits(Rest(i))}
           from == CHOOSE i \in 1..Len(s) :
                       Log!Fits(Rest(i)) /\ \A k \in 1..(i - 1) : ~Log!Fits(Rest(k))
<1>1. Len(s) \in Nat /\ Len(s) >= 1
  OBVIOUS
<1>2. Len(s) \in T
  <2>1. Len(Rest(Len(s))) = 1
    BY <1>1
  <2> QED
    BY <1>1, <2>1, BacklogAssumption DEF Log!Fits
<1>3. T \in SUBSET Nat /\ T # {}
  BY <1>1, <1>2
<1>4. PICK n \in T : \A k \in T : n <= k
  BY <1>3, LeastNumber
<1>5. \E i \in 1..Len(s) : Log!Fits(Rest(i)) /\ \A k \in 1..(i - 1) : ~Log!Fits(Rest(k))
  <2>1. n \in 1..Len(s) /\ Log!Fits(Rest(n))
    BY <1>4
  <2>2. ASSUME NEW k \in 1..(n - 1), Log!Fits(Rest(k)) PROVE FALSE
    <3>1. k \in 1..Len(s) /\ ~(n <= k)
      BY <1>1, <2>1
    <3> QED
      BY <1>4, <2>2, <3>1
  <2> QED
    BY <2>1, <2>2
<1>6. from \in 1..Len(s) /\ Log!Fits(Rest(from)) /\ \A k \in 1..(from - 1) : ~Log!Fits(Rest(k))
  BY <1>5, Zenon
<1>7. Log!Evict(s) = Rest(from)
  BY DEF Log!Evict
<1> HIDE DEF from, T
<1>8. ASSUME NEW i \in 1..Len(s)
      PROVE  /\ Rest(i) \in Seq(LogEntry) /\ Len(Rest(i)) = Len(s) - i + 1
             /\ \A k \in 1..Len(Rest(i)) : Rest(i)[k] = s[i + k - 1]
  BY <1>1
<1>9. \A i \in 1..Len(s) : LogEnd(Rest(i), s)
  <2> TAKE i \in 1..Len(s)
  <2>1. /\ Len(Rest(i)) = Len(s) - i + 1
        /\ \A k \in 1..Len(Rest(i)) : Rest(i)[k] = s[i + k - 1]
    BY <1>8
  <2> HIDE DEF Rest
  <2> QED
    BY <1>1, <2>1 DEF LogEnd
<1>10. ASSUME NEW a \in Seq(LogEntry), a # << >>, LogEnd(a, s), Log!Fits(a) PROVE LogEnd(a, Log!Evict(s))
  <2> DEFINE i == Len(s) - Len(a) + 1
  <2>1. i \in 1..Len(s) /\ Len(a) \in Nat /\ Len(a) <= Len(s)
    BY <1>1, <1>10 DEF LogEnd
  <2>2. Rest(i) = a
    <3>1. Len(Rest(i)) = Len(a) /\ Rest(i) \in Seq(LogEntry)
      BY <1>1, <1>8, <2>1
    <3>2. \A k \in 1..Len(a) : Rest(i)[k] = s[i + k - 1] /\ a[k] = s[Len(s) - Len(a) + k]
      BY <1>8, <1>10, <2>1, <3>1 DEF LogEnd
    <3>3. \A k \in 1..Len(a) : i + k - 1 = Len(s) - Len(a) + k
      BY <1>1, <2>1
    <3>4. \A k \in 1..Len(a) : Rest(i)[k] = a[k]
      BY <3>2, <3>3
    <3> HIDE DEF Rest, i
    <3> QED
      BY <3>1, <3>4
  <2>3. ~(i \in 1..(from - 1))
    BY <1>6, <1>10, <2>2
  <2>4. Len(a) <= Len(Rest(from))
    <3>1. i >= from
      BY <1>1, <1>6, <2>1, <2>3
    <3> QED
      BY <1>1, <1>6, <1>8, <2>1, <3>1
  <2> QED
    BY <1>6, <1>7, <1>8, <1>9, <1>10, <2>4, LogEndInEnd
<1>11. Log!Evict(s) # << >>
  <2>1. Len(Log!Evict(s)) >= 1
    BY <1>1, <1>6, <1>7, <1>8
  <2> QED
    BY <2>1
<1> QED
  BY <1>6, <1>7, <1>8, <1>9, <1>10, <1>11

\* What a push leaves is an end that fits.
LEMMA LogPushKeeps ==
    ASSUME NEW s \in Seq(LogEntry), NEW e \in LogEntry
    PROVE  /\ Log!Push(s, e) \in Seq(LogEntry) /\ Log!Push(s, e) # << >> /\ LogEnd(Log!Push(s, e), Append(s, e))
           /\ Log!Fits(Log!Push(s, e))
<1>1. Append(s, e) \in Seq(LogEntry) /\ Len(Append(s, e)) = Len(s) + 1 /\ Len(s) \in Nat
  OBVIOUS
<1>2. Append(s, e) # << >>
  <2> DEFINE a == Append(s, e)
  <2>1. a \in Seq(LogEntry) /\ Len(a) # 0
    BY <1>1
  <2> HIDE DEF a
  <2> QED
    BY <2>1
<1> QED
  BY <1>1, <1>2, LogEvictKeeps DEF Log!Push

\* Of two stores of which one ends the other, it still does after a push to both.
LEMMA LogPushToBoth ==
    ASSUME NEW s \in Seq(LogEntry), NEW t \in Seq(LogEntry), NEW e \in LogEntry, LogEnd(s, t)
    PROVE  LogEnd(Log!Push(s, e), Log!Push(t, e))
<1> DEFINE a == Log!Push(s, e)
<1>1. /\ Append(s, e) \in Seq(LogEntry) /\ Append(t, e) \in Seq(LogEntry) /\ Append(t, e) # << >>
      /\ LogEnd(Append(s, e), Append(t, e))
  BY LogEndAppend
<1>2. a \in Seq(LogEntry) /\ a # << >> /\ LogEnd(a, Append(s, e)) /\ Log!Fits(a)
  BY LogPushKeeps
<1> HIDE DEF a
<1>3. LogEnd(a, Append(t, e))
  BY <1>1, <1>2, LogEndInEnd
<1>4. LogEnd(a, Log!Evict(Append(t, e)))
  BY <1>1, <1>2, <1>3, LogEvictKeeps
<1> QED
  BY <1>4 DEF a, Log!Push

\* The order of the texts stays.
LEMMA LogPushAscends ==
    ASSUME NEW s \in Seq(LogEntry), NEW e \in LogEntry, NEW n \in Nat, LogAscending(s), LogUpTo(s, n), n < e.id
    PROVE  LogAscending(Log!Push(s, e)) /\ LogUpTo(Log!Push(s, e), e.id)
<1>1. Append(s, e) \in Seq(LogEntry)
  OBVIOUS
<1> QED
  BY <1>1, LogPushKeeps, LogAppendAscends, LogEndAscends

-----------------------------------------------------------------------------
(* What waits is pushed                                                    *)

LogPushedNext(s, entries, f, n) == IF n = 0 THEN s ELSE Log!Push(f[n - 1], entries[n])

\* The function that PushAll defines by recursion exists.
LEMMA LogPushedExists ==
    ASSUME NEW s, NEW entries \in Seq(LogEntry)
    PROVE  \E f : f = [n \in 0..Len(entries) |-> LogPushedNext(s, entries, f, n)]
<1> DEFINE Good(n) == \E f : f = [i \in 0..n |-> LogPushedNext(s, entries, f, i)]
           S == {n \in Nat : Good(n)}
<1>1. 0 \in S
  <2> DEFINE f == [i \in 0..0 |-> s]
  <2>1. f = [i \in 0..0 |-> LogPushedNext(s, entries, f, i)]
    BY DEF LogPushedNext
  <2> QED
    BY <2>1
<1>2. ASSUME NEW n \in S PROVE n + 1 \in S
  <2>1. PICK f : f = [i \in 0..n |-> LogPushedNext(s, entries, f, i)]
    OBVIOUS
  <2>4. \A i \in 0..n : f[i] = LogPushedNext(s, entries, f, i)
    BY <2>1, Zenon
  <2> DEFINE g == [i \in 0..(n + 1) |-> IF i = n + 1 THEN LogPushedNext(s, entries, f, i) ELSE f[i]]
  <2>2. ASSUME NEW i \in 0..(n + 1) PROVE g[i] = LogPushedNext(s, entries, g, i)
    <3>1. CASE i = n + 1
      BY <3>1 DEF LogPushedNext
    <3>2. CASE i = 0
      BY <2>1, <3>2 DEF LogPushedNext
    <3>3. CASE i \in 1..n
      <4>1. g[i] = f[i] /\ g[i - 1] = f[i - 1]
        BY <3>3
      <4>2. f[i] = LogPushedNext(s, entries, f, i)
        BY <2>4, <3>3
      <4> HIDE DEF g
      <4> QED
        BY <4>1, <4>2, <3>3 DEF LogPushedNext
    <3> QED
      BY <3>1, <3>2, <3>3
  <2>3. g = [i \in 0..(n + 1) |-> LogPushedNext(s, entries, g, i)]
    BY <2>2
  <2> QED
    BY <2>3
<1> HIDE DEF Good
<1>3. S = Nat
  BY <1>1, <1>2, SetInduction
<1>4. Good(Len(entries))
  BY <1>3
<1> QED
  BY <1>4 DEF Good

\* Its values: f[n] is what s is after the first n entries.
LogAfter(s, entries, f) ==
    f[0] = s /\ \A n \in 1..Len(entries) : f[n] = Log!Push(f[n - 1], entries[n])

LEMMA LogPushed ==
    ASSUME NEW s, NEW entries \in Seq(LogEntry)
    PROVE  \E f : Log!PushAll(s, entries) = f[Len(entries)] /\ LogAfter(s, entries, f)
<1> DEFINE f == CHOOSE pushed : pushed = [n \in 0..Len(entries) |-> LogPushedNext(s, entries, pushed, n)]
<1>1. f = [n \in 0..Len(entries) |-> LogPushedNext(s, entries, f, n)]
  BY LogPushedExists
<1>2. Log!PushAll(s, entries) = f[Len(entries)]
  BY DEF Log!PushAll, LogPushedNext
<1> HIDE DEF f
<1>3. \A n \in 0..Len(entries) : f[n] = LogPushedNext(s, entries, f, n)
  BY <1>1, Zenon
<1>4. Len(entries) \in Nat
  OBVIOUS
<1>5. f[0] = s
  BY <1>3, <1>4 DEF LogPushedNext
<1>6. \A n \in 1..Len(entries) : f[n] = Log!Push(f[n - 1], entries[n])
  BY <1>3, <1>4 DEF LogPushedNext
<1>7. LogAfter(s, entries, f)
  BY <1>5, <1>6 DEF LogAfter
<1> QED
  BY <1>2, <1>7

LEMMA LogPushNone == \A s : Log!PushAll(s, << >>) = s
<1> TAKE s
<1> DEFINE none == << >>
<1>1. none \in Seq(LogEntry) /\ Len(none) = 0
  OBVIOUS
<1> HIDE DEF none
<1>2. PICK f : Log!PushAll(s, none) = f[Len(none)] /\ LogAfter(s, none, f)
  BY <1>1, LogPushed
<1>3. Log!PushAll(s, none) = s
  BY <1>1, <1>2 DEF LogAfter
<1> QED
  BY <1>3 DEF none

\* One more that waits is pushed last.
LEMMA LogPushMore ==
    ASSUME NEW s, NEW entries \in Seq(LogEntry), NEW e \in LogEntry
    PROVE  Log!PushAll(s, Append(entries, e)) = Log!Push(Log!PushAll(s, entries), e)
<1> DEFINE more == Append(entries, e)
           l == Len(entries)
<1>1. /\ more \in Seq(LogEntry) /\ l \in Nat /\ Len(more) = l + 1 /\ more[l + 1] = e
      /\ \A n \in 1..l : more[n] = entries[n]
  OBVIOUS
<1>2. PICK f : Log!PushAll(s, entries) = f[l] /\ LogAfter(s, entries, f)
  BY LogPushed
<1> HIDE DEF more
<1>3. PICK g : Log!PushAll(s, more) = g[Len(more)] /\ LogAfter(s, more, g)
  BY <1>1, LogPushed
<1>4. /\ f[0] = s /\ \A n \in 1..l : f[n] = Log!Push(f[n - 1], entries[n])
      /\ g[0] = s /\ \A n \in 1..Len(more) : g[n] = Log!Push(g[n - 1], more[n])
  BY <1>2, <1>3 DEF LogAfter
<1> DEFINE S == {n \in Nat : n <= l => f[n] = g[n]}
<1> HIDE DEF l
<1>5. 0 \in S
  BY <1>4
<1>6. ASSUME NEW n \in S PROVE n + 1 \in S
  <2> SUFFICES ASSUME n + 1 <= l PROVE f[n + 1] = g[n + 1]
    OBVIOUS
  <2>1. n + 1 \in 1..l /\ n + 1 \in 1..Len(more) /\ (n + 1) - 1 = n /\ f[n] = g[n]
    BY <1>1
  <2>2. f[n + 1] = Log!Push(f[n], entries[n + 1]) /\ g[n + 1] = Log!Push(g[n], more[n + 1])
    BY <1>4, <2>1
  <2> QED
    BY <1>1, <2>1, <2>2
<1>7. S = Nat
  BY <1>5, <1>6, SetInduction
<1>8. f[l] = g[l]
  BY <1>1, <1>7
<1>9. g[l + 1] = Log!Push(g[l], e)
  <2>1. l + 1 \in 1..Len(more) /\ (l + 1) - 1 = l
    BY <1>1
  <2> QED
    BY <1>1, <1>4, <2>1
<1> QED
  BY <1>1, <1>2, <1>3, <1>8, <1>9 DEF more

-----------------------------------------------------------------------------
(* The control                                                             *)

\* The control shows the copy, or one entry more at its front.
LogOneMore(v, s) == LogEnd(s, v) /\ Len(v) <= Len(s) + 1

LEMMA LogTrimmedKeeps ==
    ASSUME NEW v \in Seq(LogEntry), NEW s \in Seq(LogEntry)
    PROVE  /\ Log!Trimmed(v, s) \in Seq(LogEntry) /\ LogEnd(Log!Trimmed(v, s), v)
           /\ Len(Log!Trimmed(v, s)) = IF Len(v) <= Len(s) THEN Len(v) ELSE Len(s)
<1>0. Len(v) \in Nat /\ Len(s) \in Nat
  OBVIOUS
<1>1. CASE Len(v) <= Len(s)
  BY <1>0, <1>1 DEF Log!Trimmed, LogEnd
<1>2. CASE Len(v) > Len(s)
  <2> DEFINE m == Len(v) - Len(s) + 1
             r == SubSeq(v, m, Len(v))
  <2>1. m \in 1..(Len(v) + 1) /\ Len(v) - m + 1 = Len(s)
    BY <1>0, <1>2
  <2>2. r \in Seq(LogEntry)
    BY <1>0, <2>1
  <2>3. Len(r) = Len(s) /\ \A i \in 1..Len(s) : r[i] = v[m + i - 1]
    BY <1>0, <2>1
  <2>4. \A i \in 1..Len(s) : m + i - 1 = Len(v) - Len(s) + i
    BY <1>0
  <2>5. Log!Trimmed(v, s) = r
    BY <1>0, <1>2 DEF Log!Trimmed
  <2> HIDE DEF r, m
  <2> QED
    BY <1>0, <1>2, <2>2, <2>3, <2>4, <2>5 DEF LogEnd
<1> QED
  BY <1>0, <1>1, <1>2

\* An entry that is appended to what is shown, trimmed, shows the store it is pushed to.
LEMMA LogAppendedShows ==
    ASSUME NEW v \in Seq(LogEntry), NEW s \in Seq(LogEntry), NEW e \in LogEntry, LogOneMore(v, s)
    PROVE  /\ Append(Log!Trimmed(v, Log!Push(s, e)), e) \in Seq(LogEntry)
           /\ LogOneMore(Append(Log!Trimmed(v, Log!Push(s, e)), e), Log!Push(s, e))
           /\ Len(Append(Log!Trimmed(v, Log!Push(s, e)), e)) = Len(Log!Push(s, e)) =>
                  Len(v) = Len(s) /\ Len(v) - Len(Log!Trimmed(v, Log!Push(s, e))) = 0
<1> DEFINE p == Log!Push(s, e)
           r == Log!Trimmed(v, p)
           all == Append(v, e)
<1>1. p \in Seq(LogEntry) /\ LogEnd(p, Append(s, e))
  BY LogPushKeeps
<1> HIDE DEF p
<1>2. /\ r \in Seq(LogEntry) /\ LogEnd(r, v)
      /\ Len(r) = IF Len(v) <= Len(p) THEN Len(v) ELSE Len(p)
  BY <1>1, LogTrimmedKeeps
<1> HIDE DEF r
<1>3. /\ Append(r, e) \in Seq(LogEntry) /\ all \in Seq(LogEntry) /\ Append(s, e) \in Seq(LogEntry)
      /\ Len(Append(r, e)) = Len(r) + 1 /\ Len(Append(s, e)) = Len(s) + 1
      /\ Len(s) \in Nat /\ Len(p) \in Nat /\ Len(v) \in Nat /\ Len(r) \in Nat
  BY <1>1, <1>2
<1>4. LogEnd(Append(r, e), all) /\ LogEnd(Append(s, e), all)
  BY <1>2, LogEndAppend DEF LogOneMore
<1>5. Len(p) <= Len(s) + 1 /\ Len(s) <= Len(v) /\ Len(v) <= Len(s) + 1
  BY <1>1, <1>3 DEF LogEnd, LogOneMore
<1>6. Len(p) <= Len(r) + 1 /\ Len(r) <= Len(p)
  BY <1>2, <1>3, <1>5
<1> HIDE DEF all
<1>7. LogEnd(p, all)
  BY <1>1, <1>3, <1>4, LogEndInEnd
<1>8. LogEnd(p, Append(r, e))
  BY <1>1, <1>3, <1>4, <1>6, <1>7, LogEndInEnd
<1>9. Len(Append(r, e)) = Len(p) => Len(v) = Len(s) /\ Len(v) - Len(r) = 0
  BY <1>2, <1>3, <1>5
<1> QED
  BY <1>3, <1>6, <1>8, <1>9 DEF LogOneMore, p, r

LEMMA LogOneMoreShown ==
    ASSUME NEW v \in Seq(LogEntry), NEW s \in Seq(LogEntry), LogOneMore(v, s)
    PROVE  (Len(v) = Len(s) /\ v = s) \/ (v # << >> /\ Tail(v) = s)
<1>0. Len(v) \in Nat /\ Len(s) \in Nat /\ Len(s) <= Len(v) /\ Len(v) <= Len(s) + 1
  BY DEF LogOneMore, LogEnd
<1>1. \A i \in 1..Len(s) : s[i] = v[Len(v) - Len(s) + i]
  BY DEF LogOneMore, LogEnd
<1>2. CASE Len(v) = Len(s)
  <2>1. \A i \in 1..Len(s) : Len(v) - Len(s) + i = i
    BY <1>0, <1>2
  <2>2. \A i \in 1..Len(s) : s[i] = v[i]
    BY <1>1, <2>1
  <2> QED
    BY <1>2, <2>2
<1>3. CASE Len(v) = Len(s) + 1
  <2>1. \A i \in 1..Len(s) : Len(v) - Len(s) + i = i + 1
    BY <1>0, <1>3
  <2>2. \A i \in 1..Len(s) : s[i] = v[i + 1]
    BY <1>1, <2>1
  <2>3. v # << >>
    BY <1>0, <1>3
  <2>4. /\ Tail(v) \in Seq(LogEntry) /\ Len(Tail(v)) = Len(s)
        /\ \A i \in 1..Len(s) : Tail(v)[i] = v[i + 1]
    BY <1>0, <1>3, <2>3
  <2> QED
    BY <2>2, <2>3, <2>4
<1> QED
  BY <1>0, <1>2, <1>3

LEMMA LogShownWhole == \A s \in Seq(LogEntry) : LogOneMore(s, s) /\ LogEnd(s, s) /\ LogEnd(<< >>, s)
BY DEF LogOneMore, LogEnd
-----------------------------------------------------------------------------
(* The invariant                                                           *)

LogCopy == Log!PushAll(store, waiting)
LogWaiting == Log!PushAll(<< >>, waiting)      \* what the copy becomes when the window is cleared

\* The first n texts, or some of them, in the order they came.
LogOrdered(s, n) == s \in Seq(LogEntry) /\ LogAscending(s) /\ LogUpTo(s, n)

\* As long as the control was given no entry more than the copy, nothing was cut from it.
LogShows == LogOneMore(shown, store) /\ (Len(shown) = Len(store) => lost = 0)

LogTextsOrdered ==
    /\ logged \in Nat /\ store \in Seq(LogEntry) /\ shown \in Seq(LogEntry) /\ waiting \in Seq(LogEntry)
    /\ LogOrdered(model, logged) /\ LogOrdered(LogCopy, logged) /\ LogOrdered(LogWaiting, logged)

\* While a box is open too.
LogHoldsModel ==
    /\ clears \in Nat
    /\ view # "closed" => LogShows /\ (clears = 0 => LogEnd(model, LogCopy))

LogInv == LogTextsOrdered /\ LogHoldsModel /\ lostResults \in Nat /\ Log!SavesSettle

LEMMA LogNothingOrdered == \A n : LogOrdered(<< >>, n)
BY DEF LogOrdered, LogAscending, LogUpTo

\* A text is pushed behind what is there.
LEMMA LogPushOrdered ==
    ASSUME NEW n \in Nat, NEW s, LogOrdered(s, n), NEW e \in LogEntry, e.id = n + 1
    PROVE  LogOrdered(Log!Push(s, e), n + 1)
<1>1. s \in Seq(LogEntry) /\ LogAscending(s) /\ LogUpTo(s, n) /\ n < e.id
  BY DEF LogOrdered
<1>2. Log!Push(s, e) \in Seq(LogEntry)
  BY <1>1, LogPushKeeps
<1>3. LogAscending(Log!Push(s, e)) /\ LogUpTo(Log!Push(s, e), e.id)
  BY <1>1, LogPushAscends
<1> QED
  BY <1>2, <1>3 DEF LogOrdered

\* The copy, or an emptied one, is drawn with what waited for it.
LEMMA LogDrawn ==
    ASSUME LogTextsOrdered, UNCHANGED <<model, logged>>, NEW s \in {store, << >>},
           store' = Log!PushAll(s, waiting), Log!Draw(store'), waiting' = << >>
    PROVE  LogTextsOrdered' /\ LogShows' /\ LogCopy' = store'
<1> DEFINE c == Log!PushAll(s, waiting)
<1>1. LogOrdered(c, logged) /\ << >> \in Seq(LogEntry)
  BY DEF LogTextsOrdered, LogCopy, LogWaiting
<1>2. store' = c /\ shown' = c /\ lost' = 0
  BY DEF Log!Draw
<1>3. LogCopy' = c /\ LogWaiting' = << >>
  BY <1>2, LogPushNone DEF LogCopy, LogWaiting
<1> HIDE DEF c
<1>4. c \in Seq(LogEntry)
  BY <1>1 DEF LogOrdered
<1>5. LogTextsOrdered'
  BY <1>1, <1>2, <1>3, <1>4, LogNothingOrdered DEF LogTextsOrdered
<1>6. LogShows'
  BY <1>2, <1>4, LogShownWhole DEF LogShows
<1> QED
  BY <1>2, <1>3, <1>5, <1>6

\* A command that ends draws the copy with what waited for it, one that only draws draws it
\* as it is.
LEMMA LogRefreshed ==
    ASSUME LogTextsOrdered, LogShows, UNCHANGED <<model, logged>>,
           Log!RefreshIfDirty \/ Log!Redrawn
    PROVE  LogTextsOrdered' /\ LogShows' /\ LogCopy' = LogCopy
<1>1. CASE dirty
  <2>1. store' = LogCopy /\ Log!Draw(store') /\ waiting' = << >>
    BY <1>1 DEF Log!RefreshIfDirty, Log!Redrawn, Log!Drained, LogCopy
  <2> QED
    BY <2>1, LogDrawn DEF LogCopy
<1>2. CASE ~dirty
  <2>1. UNCHANGED <<store, waiting>> /\ (UNCHANGED <<shown, lost>> \/ Log!Draw(store))
    BY <1>2 DEF Log!RefreshIfDirty, Log!Redrawn
  <2>2. LogCopy' = LogCopy /\ LogWaiting' = LogWaiting
    BY <2>1 DEF LogCopy, LogWaiting
  <2>3. shown' \in {shown, store} /\ LogTextsOrdered'
    BY <2>1, <2>2 DEF LogTextsOrdered, Log!Draw
  <2>4. LogShows'
    <3>1. CASE UNCHANGED <<shown, lost>>
      BY <2>1, <3>1 DEF LogShows
    <3>2. CASE Log!Draw(store)
      BY <2>1, <3>2, LogShownWhole DEF LogShows, Log!Draw, LogTextsOrdered
    <3> QED
      BY <2>1, <3>1, <3>2
  <2> QED
    BY <2>2, <2>3, <2>4
<1> QED
  BY <1>1, <1>2

\* A text that comes while no box is open.
LEMMA LogEntryAppended ==
    ASSUME LogTextsOrdered, NEW e \in LogEntry, e.id = logged + 1, logged' = e.id,
           model' = Log!Push(model, e), LogShows, Log!AppendEntry(e)
    PROVE  LogTextsOrdered' /\ LogShows' /\ LogCopy' = Log!Push(LogCopy, e)
<1> DEFINE p == Log!Push(LogCopy, e)
<1>1. store' = p /\ waiting' = << >>
  BY DEF Log!AppendEntry, Log!Drained, LogCopy
<1>2. LogOrdered(p, logged + 1) /\ LogOrdered(Log!Push(model, e), logged + 1)
  BY LogPushOrdered DEF LogTextsOrdered
<1>3. LogCopy' = p /\ LogWaiting' = << >>
  BY <1>1, LogPushNone DEF LogCopy, LogWaiting
<1>4. p \in Seq(LogEntry)
  BY <1>2 DEF LogOrdered
<1>5. shown' \in Seq(LogEntry) /\ LogShows'
  <2>1. CASE waiting # << >> \/ dirty
    <3>1. shown' = p /\ lost' = 0
      BY <1>1, <2>1 DEF Log!AppendEntry, Log!Draw
    <3> HIDE DEF p
    <3> QED
      BY <1>1, <1>4, <3>1, LogShownWhole DEF LogShows
  <2>2. CASE ~(waiting # << >> \/ dirty)
    <3>1. LogCopy = store
      BY <2>2, LogPushNone DEF LogCopy
    <3> DEFINE rest == Log!Trimmed(shown, Log!Push(store, e))
    <3>2. /\ shown' = Append(rest, e) /\ store' = Log!Push(store, e)
          /\ lost' = Log!Cut(rest, Len(shown) - Len(rest))
      BY <1>1, <2>2, <3>1 DEF Log!AppendEntry
    <3>3. shown \in Seq(LogEntry) /\ store \in Seq(LogEntry) /\ LogOneMore(shown, store)
      BY DEF LogTextsOrdered, LogShows
    <3>4. /\ Append(rest, e) \in Seq(LogEntry) /\ LogOneMore(Append(rest, e), Log!Push(store, e))
          /\ Len(Append(rest, e)) = Len(Log!Push(store, e)) =>
                 Len(shown) = Len(store) /\ Len(shown) - Len(rest) = 0
      BY <3>3, LogAppendedShows
    <3> HIDE DEF rest
    <3>5. Len(shown') = Len(store') => lost' = 0
      BY <3>2, <3>4 DEF Log!Cut, LogShows
    <3> QED
      BY <3>2, <3>4, <3>5 DEF LogShows
  <2> QED
    BY <2>1, <2>2
<1> HIDE DEF p
<1>6. LogTextsOrdered'
  <2>1. logged' \in Nat /\ logged' = logged + 1 /\ << >> \in Seq(LogEntry)
    BY DEF LogTextsOrdered
  <2> QED
    BY <1>1, <1>2, <1>3, <1>4, <1>5, <2>1, LogNothingOrdered DEF LogTextsOrdered
<1> QED
  BY <1>3, <1>5, <1>6 DEF p

\* A text that comes while a box is open waits, and one that comes while the window is
\* closed is not for it.
LEMMA LogEntryWaits ==
    ASSUME LogTextsOrdered, NEW e \in LogEntry, e.id = logged + 1, logged' = e.id,
           model' = Log!Push(model, e), UNCHANGED <<store, shown>>,
           waiting' \in {waiting, Append(waiting, e)}
    PROVE  /\ LogTextsOrdered'
           /\ waiting' # waiting => LogCopy' = Log!Push(LogCopy, e)
<1>1. logged \in Nat /\ waiting \in Seq(LogEntry) /\ store \in Seq(LogEntry) /\ shown \in Seq(LogEntry)
  BY DEF LogTextsOrdered
<1>2. logged' \in Nat /\ logged' = logged + 1
  BY <1>1
<1>3. /\ LogOrdered(Log!Push(model, e), logged + 1) /\ LogOrdered(Log!Push(LogCopy, e), logged + 1)
      /\ LogOrdered(Log!Push(LogWaiting, e), logged + 1)
  BY LogPushOrdered DEF LogTextsOrdered
<1>4. CASE waiting' = waiting
  <2>1. LogCopy' = LogCopy /\ LogWaiting' = LogWaiting
    BY <1>4 DEF LogCopy, LogWaiting
  <2>2. \A s : LogOrdered(s, logged) => LogOrdered(s, logged + 1)
    <3> SUFFICES ASSUME NEW s, LogOrdered(s, logged) PROVE LogOrdered(s, logged + 1)
      OBVIOUS
    <3>1. \A i \in 1..Len(s) : s[i].id \in Nat
      <4>1. \A x \in LogEntry : x.id \in Nat
        BY DEF LogEntry
      <4>2. \A i \in 1..Len(s) : s[i] \in LogEntry
        BY DEF LogOrdered
      <4> QED
        BY <4>1, <4>2
    <3>2. LogUpTo(s, logged + 1)
      BY <1>1, <3>1 DEF LogOrdered, LogUpTo
    <3> QED
      BY <3>2 DEF LogOrdered
  <2>3. LogOrdered(LogCopy, logged + 1) /\ LogOrdered(LogWaiting, logged + 1)
    BY <2>2 DEF LogTextsOrdered
  <2> QED
    BY <1>1, <1>2, <1>3, <1>4, <2>1, <2>3 DEF LogTextsOrdered
<1>5. CASE waiting' = Append(waiting, e)
  <2>1. LogCopy' = Log!Push(LogCopy, e) /\ LogWaiting' = Log!Push(LogWaiting, e)
    BY <1>1, <1>5, LogPushMore DEF LogCopy, LogWaiting
  <2>2. Append(waiting, e) \in Seq(LogEntry)
    BY <1>1
  <2> QED
    BY <1>1, <1>2, <1>3, <1>5, <2>1, <2>2 DEF LogTextsOrdered
<1> QED
  BY <1>4, <1>5

\* A step that leaves what the window holds and the texts.
LEMMA LogHeldStays ==
    ASSUME LogTextsOrdered, UNCHANGED <<store, shown, waiting, logged>>, LogOrdered(model', logged)
    PROVE  LogTextsOrdered' /\ LogCopy' = LogCopy
BY DEF LogTextsOrdered, LogCopy, LogWaiting

LEMMA LogInitial == Log!Init => LogInv
<1> SUFFICES ASSUME Log!Init PROVE LogInv
  OBVIOUS
<1>1. LogCopy = << >> /\ LogWaiting = << >>
  BY LogPushNone DEF Log!Init, LogCopy, LogWaiting
<1>2. << >> \in Seq(LogEntry)
  OBVIOUS
<1> QED
  BY <1>1, <1>2, LogNothingOrdered DEF Log!Init, LogInv, LogTextsOrdered, LogHoldsModel, Log!SavesSettle

LEMMA LogInvariant == Log!Spec => []LogInv
<1>1. LogInv /\ [Log!Next]_Log!vars => LogInv'
  <2> SUFFICES ASSUME LogInv, [Log!Next]_Log!vars PROVE LogInv'
    OBVIOUS
  <2> USE DEF LogInv
  <2>0. LogOrdered(model, logged) /\ model \in Seq(LogEntry) /\ << >> \in Seq(LogEntry)
    BY DEF LogTextsOrdered, LogOrdered
  <2>1. CASE Log!PushBacklog
    <3>1. PICK size \in LogSizes :
              LET e == [id |-> logged + 1, size |-> size]
              IN  /\ logged' = e.id
                  /\ model' = Log!Push(model, e)
                  /\ \/ view = "open" /\ Log!AppendEntry(e)
                     \/ /\ view \in {"command", "result"}
                        /\ waiting' = Append(waiting, e) /\ dirty' = TRUE
                        /\ UNCHANGED <<store, shown, lost>>
                     \/ view = "closed" /\ UNCHANGED <<store, shown, lost, waiting, dirty>>
      BY <2>1 DEF Log!PushBacklog, Log!control
    <3> DEFINE e == [id |-> logged + 1, size |-> size]
    <3>2. e \in LogEntry /\ e.id = logged + 1
      BY DEF LogTextsOrdered, LogEntry
    <3> HIDE DEF e
    <3>3. UNCHANGED <<clears, view, lostResults, saving, writers, written>>
      BY <2>1 DEF Log!PushBacklog, Log!saveVars
    <3>4. LogTextsOrdered' /\ (view # "closed" => LogShows' /\ LogCopy' = Log!Push(LogCopy, e))
      <4>1. CASE view = "open" /\ Log!AppendEntry(e)
        BY <3>1, <3>2, <4>1, LogEntryAppended DEF e, LogHoldsModel
      <4>2. CASE view \in {"command", "result"} /\ waiting' = Append(waiting, e)
                 /\ UNCHANGED <<store, shown, lost>>
        <5>1. waiting' # waiting
          <6>1. waiting \in Seq(LogEntry)
            BY DEF LogTextsOrdered
          <6>2. Len(Append(waiting, e)) # Len(waiting)
            BY <3>2, <6>1
          <6> QED
            BY <4>2, <6>2
        <5> QED
          BY <3>1, <3>2, <4>2, <5>1, LogEntryWaits DEF e, LogHoldsModel, LogShows
      <4>3. CASE view = "closed" /\ UNCHANGED <<store, shown, lost, waiting, dirty>>
        BY <3>1, <3>2, <4>3, LogEntryWaits DEF e
      <4> QED
        BY <3>1, <4>1, <4>2, <4>3 DEF e
    <3>5. view # "closed" /\ clears = 0 => LogEnd(model, LogCopy)'
      <4> SUFFICES ASSUME view # "closed", clears = 0 PROVE LogEnd(model, LogCopy)'
        OBVIOUS
      <4>1. LogCopy \in Seq(LogEntry) /\ LogEnd(model, LogCopy)
        BY DEF LogTextsOrdered, LogOrdered, LogHoldsModel
      <4>2. model' = Log!Push(model, e) /\ LogCopy' = Log!Push(LogCopy, e)
        BY <3>1, <3>4 DEF e
      <4> QED
        BY <2>0, <3>2, <4>1, <4>2, LogPushToBoth
    <3> QED
      BY <3>3, <3>4, <3>5 DEF LogHoldsModel, Log!SavesSettle
  <2>2. CASE Log!ClearBacklog
    <3>1. LogTextsOrdered' /\ LogCopy' = LogCopy
      BY <2>2, LogNothingOrdered, LogHeldStays DEF Log!ClearBacklog, Log!control
    <3>2. clears' \in Nat
      BY <2>2 DEF Log!ClearBacklog, LogHoldsModel
    <3>3. LogCopy \in Seq(LogEntry) /\ LogEnd(<< >>, LogCopy)
      BY LogShownWhole DEF LogTextsOrdered, LogOrdered
    <3> QED
      BY <2>2, <3>1, <3>2, <3>3
         DEF Log!ClearBacklog, LogHoldsModel, LogShows, Log!control, Log!SavesSettle, Log!saveVars
  <2>3. CASE Log!Open
    <3>1. LogCopy' = model /\ LogWaiting' = << >>
      BY <2>3, LogPushNone DEF Log!Open, LogCopy, LogWaiting
    <3>2. LogTextsOrdered'
      BY <2>0, <2>3, <3>1, LogNothingOrdered DEF Log!Open, Log!Draw, Log!Step, LogTextsOrdered
    <3>3. LogShows' /\ LogEnd(model, LogCopy)'
      BY <2>0, <2>3, <3>1, LogShownWhole DEF Log!Open, Log!Draw, LogShows
    <3> QED
      BY <2>3, <3>2, <3>3 DEF Log!Open, LogHoldsModel, Log!SavesSettle, Log!NoSave
  <2>4. CASE Log!Close
    <3>1. LogTextsOrdered'
      BY <2>0, <2>4, LogHeldStays DEF Log!Close, Log!Step, Log!control
    <3> QED
      BY <2>4, <3>1 DEF Log!Close, LogHoldsModel, Log!SavesSettle
  <2>5. CASE Log!Redraw
    <3>1. LogTextsOrdered' /\ LogShows' /\ LogCopy' = LogCopy
      BY <2>5, LogRefreshed DEF Log!Redraw, Log!Step, LogHoldsModel
    <3> QED
      BY <2>5, <3>1 DEF Log!Redraw, LogHoldsModel, Log!SavesSettle, Log!saveVars
  <2>6. CASE Log!ClearView
    <3>1. LogTextsOrdered' /\ LogShows'
      BY <2>0, <2>6, LogDrawn DEF Log!ClearView, Log!Step, Log!Drained
    <3>2. clears' \in Nat /\ clears' # 0
      BY <2>6 DEF Log!ClearView, LogHoldsModel
    <3> QED
      BY <2>6, <3>1, <3>2 DEF Log!ClearView, LogHoldsModel, Log!SavesSettle, Log!saveVars
  <2>7. CASE Log!OpenBox
    <3>1. LogTextsOrdered' /\ LogCopy' = LogCopy
      BY <2>0, <2>7, LogHeldStays DEF Log!OpenBox, Log!Step, Log!control
    <3> QED
      BY <2>7, <3>1 DEF Log!OpenBox, LogHoldsModel, LogShows, Log!control, Log!SavesSettle, Log!saveVars
  <2>8. CASE Log!BoxEnds
    <3>1. LogTextsOrdered' /\ LogShows' /\ LogCopy' = LogCopy
      BY <2>8, LogRefreshed DEF Log!BoxEnds, LogHoldsModel
    <3> QED
      BY <2>8, <3>1 DEF Log!BoxEnds, LogHoldsModel, Log!SavesSettle, Log!saveVars
  <2>9. CASE Log!StartSave
    <3>1. LogTextsOrdered' /\ LogShows' /\ LogCopy' = LogCopy
      BY <2>9, LogRefreshed DEF Log!StartSave, LogHoldsModel
    <3> QED
      BY <2>9, <3>1 DEF Log!StartSave, LogHoldsModel, Log!SavesSettle
  <2>10. CASE Log!ResultBoxEnds
    <3>1. LogTextsOrdered' /\ LogCopy' = LogCopy
      BY <2>0, <2>10, LogHeldStays DEF Log!ResultBoxEnds, Log!control
    <3> QED
      BY <2>10, <3>1 DEF Log!ResultBoxEnds, LogHoldsModel, LogShows, Log!control, Log!SavesSettle, Log!saveVars
  <2>11. ASSUME NEW t \in 1..tokens, Log!SaveEnds(t) PROVE LogInv'
    <3>1. LogTextsOrdered' /\ LogCopy' = LogCopy
      BY <2>0, <2>11, LogHeldStays DEF Log!SaveEnds, Log!control
    <3>2. LogHoldsModel' /\ lostResults' \in Nat
      BY <2>11, <3>1 DEF Log!SaveEnds, LogHoldsModel, LogShows, Log!control
    <3>3. Log!SavesSettle'
      BY <2>11 DEF Log!SaveEnds, Log!SavesSettle
    <3> QED
      BY <3>1, <3>2, <3>3
  <2>12. ASSUME NEW t \in 1..tokens, Log!SaveResult(t) PROVE LogInv'
    <3>1. LogTextsOrdered' /\ LogCopy' = LogCopy
      BY <2>0, <2>12, LogHeldStays DEF Log!SaveResult, Log!control
    <3>2. LogHoldsModel' /\ lostResults' \in Nat
      BY <2>12, <3>1 DEF Log!SaveResult, LogHoldsModel, LogShows, Log!control
    <3>3. Log!SavesSettle'
      <4>1. CASE t = saving.token
        <5>1. saving' = [saving EXCEPT !.running = FALSE]
          BY <2>12, <4>1 DEF Log!SaveResult
        <5> QED
          BY <5>1 DEF Log!SavesSettle
      <4>2. CASE t # saving.token
        BY <2>12, <4>2 DEF Log!SaveResult, Log!SavesSettle
      <4> QED
        BY <4>1, <4>2
    <3> QED
      BY <3>1, <3>2, <3>3
  <2>13. CASE UNCHANGED Log!vars
    <3>1. LogTextsOrdered' /\ LogCopy' = LogCopy
      BY <2>0, <2>13, LogHeldStays DEF Log!vars
    <3> QED
      BY <2>13, <3>1 DEF Log!vars, LogHoldsModel, LogShows, Log!SavesSettle
  <2> QED
    BY <2>1, <2>2, <2>3, <2>4, <2>5, <2>6, <2>7, <2>8, <2>9, <2>10, <2>11, <2>12, <2>13
       DEF Log!Next, Log!User
<1> QED
  BY <1>1, LogInitial, PTL DEF Log!Spec

\* The invariant says what is shown and held.
LEMMA LogKeeps == LogInv => Log!ControlShowsCopy /\ Log!CopyHoldsModel /\ Log!SavesSettle
<1> SUFFICES ASSUME LogInv PROVE Log!ControlShowsCopy /\ Log!CopyHoldsModel
  BY DEF LogInv
<1>1. Log!ControlShowsCopy
  BY LogOneMoreShown DEF Log!ControlShowsCopy, LogInv, LogTextsOrdered, LogHoldsModel, LogShows
<1>2. Log!CopyHoldsModel
  <2> SUFFICES ASSUME view # "closed"
               PROVE  /\ clears = 0 => Log!IsSuffix(model, LogCopy)
                      /\ \A i \in 1..(Len(LogCopy) - 1) : LogCopy[i].id < LogCopy[i + 1].id
    BY DEF Log!CopyHoldsModel, Log!Drained, LogCopy
  <2>1. model \in Seq(LogEntry) /\ LogCopy \in Seq(LogEntry) /\ LogAscending(LogCopy)
    BY DEF LogInv, LogTextsOrdered, LogOrdered
  <2>2. clears = 0 => Log!IsSuffix(model, LogCopy)
    BY <2>1, LogEndIsSuffix DEF LogInv, LogHoldsModel
  <2>3. ASSUME NEW i \in 1..(Len(LogCopy) - 1) PROVE LogCopy[i].id < LogCopy[i + 1].id
    <3>1. i \in 1..Len(LogCopy) /\ i + 1 \in 1..Len(LogCopy) /\ i < i + 1
      BY <2>1
    <3> QED
      BY <2>1, <3>1 DEF LogAscending
  <2> QED
    BY <2>2, <2>3
<1> QED
  BY <1>1, <1>2

\* The window of the backlog shows and holds, with what waits for it, all the texts the
\* application holds, in their order and once, however texts, clears, boxes and saves come
\* between each other.
THEOREM HoldsTheBacklog == SafetySpec => []BacklogComplete
<1>1. LogInv => BacklogComplete
  BY LogKeeps DEF BacklogComplete
<1> QED
  BY <1>1, LogInvariant, LogAlone, PTL

-----------------------------------------------------------------------------
(* The merging of texts: what a text thread printed is what is given out,   *)
(* then what is collected, then what is on its way; and of a sentence that  *)
(* its timer ended nothing that follows was received within the window.     *)

LEMMA TextAlone == SafetySpec => HText!Init /\ [][HText!Next]_HText!vars
<1>1. SafetyInit => HText!Init
  BY DEF SafetyInit
<1>2. [SafetyNext]_allVars => [HText!Next]_HText!vars
  BY DEF SafetyNext, allVars, textVars, HText!vars
<1> QED
  BY <1>1, <1>2, PTL DEF SafetySpec

-----------------------------------------------------------------------------
(* Types                                                                   *)

TextPieceId == TextSource \X Nat
TextPiece == [id : TextPieceId, at : Nat, window : Nat]
TextEvent == [source : TextSource, at : Nat, id : TextPieceId, broken : {FALSE}]
TextArrival == [source : {"attached", "detached"}] \cup TextEvent
TextMerger == [window : Nat, pending : [TextSource -> Seq(TextPiece)], deadlines : SUBSET (Nat \X TextSource),
           overLimit : SUBSET TextSource]
TextCuts == {"none", "gap", "expired", "replayed", "zero", "long", "raced", "discarded", "untimed"}
TextCut == [at : Nat, window : Nat, cut : TextCuts]
TextGiven == [TextSource -> [ids : Seq(TextPieceId), last : TextCut]]
TextGathered == [merger : TextMerger, sentences : TextGiven, timer : BOOLEAN]

TextTypes ==
    /\ now \in Nat /\ printed \in [TextSource -> Seq(TextPieceId)]
    /\ half \subseteq TextSource /\ session.lead = half /\ session.on \in BOOLEAN
    /\ session.hand \in {HText!None} \cup TextEvent
    /\ session.hand # HText!None => session.on /\ session.hand.at <= now
    /\ session = [on |-> session.on, lead |-> session.lead, hand |-> session.hand,
                  count |-> session.count]
    /\ events \in Seq(TextArrival)
    /\ announced \in BOOLEAN /\ lostTexts \in Nat
    /\ HText!State \in TextGathered

-----------------------------------------------------------------------------
(* The texts of a source                                                   *)

TextsNext(s, way, of, k) ==
    IF k = 0 THEN << >> ELSE IF way[k].source = s THEN Append(of[k - 1], way[k]) ELSE of[k - 1]

LEMMA TextsExist ==
    ASSUME NEW s, NEW way, NEW m \in Nat
    PROVE  \E of : of = [k \in 0..m |-> TextsNext(s, way, of, k)]
<1> DEFINE Good(n) == \E of : of = [k \in 0..n |-> TextsNext(s, way, of, k)]
           S == {n \in Nat : Good(n)}
<1>1. 0 \in S
  <2> DEFINE f == [k \in 0..0 |-> << >>]
  <2>1. f = [k \in 0..0 |-> TextsNext(s, way, f, k)]
    BY DEF TextsNext
  <2> QED
    BY <2>1
<1>2. ASSUME NEW n \in S PROVE n + 1 \in S
  <2>1. PICK f : f = [k \in 0..n |-> TextsNext(s, way, f, k)]
    OBVIOUS
  <2>4. \A k \in 0..n : f[k] = TextsNext(s, way, f, k)
    BY <2>1, Zenon
  <2> DEFINE g == [k \in 0..(n + 1) |-> IF k = n + 1 THEN TextsNext(s, way, f, k) ELSE f[k]]
  <2>2. ASSUME NEW k \in 0..(n + 1) PROVE g[k] = TextsNext(s, way, g, k)
    <3>1. CASE k = n + 1
      BY <3>1 DEF TextsNext
    <3>2. CASE k = 0
      BY <2>1, <3>2 DEF TextsNext
    <3>3. CASE k \in 1..n
      <4>1. g[k] = f[k] /\ g[k - 1] = f[k - 1]
        BY <3>3
      <4>2. f[k] = TextsNext(s, way, f, k)
        BY <2>4, <3>3
      <4> HIDE DEF g
      <4> QED
        BY <4>1, <4>2, <3>3 DEF TextsNext
    <3> QED
      BY <3>1, <3>2, <3>3
  <2>3. g = [k \in 0..(n + 1) |-> TextsNext(s, way, g, k)]
    BY <2>2
  <2> HIDE DEF g
  <2>5. Good(n + 1)
    BY <2>3
  <2> QED
    BY <2>5
<1> HIDE DEF Good
<1>3. S = Nat
  BY <1>1, <1>2, SetInduction
<1>4. Good(m)
  BY <1>3
<1> QED
  BY <1>4 DEF Good

\* Two functions defined so agree as far as their sequences do.
LEMMA TextsAgree ==
    ASSUME NEW s, NEW v, NEW w, NEW m \in Nat, NEW n \in Nat, NEW f, NEW g,
           f = [k \in 0..m |-> TextsNext(s, v, f, k)],
           g = [k \in 0..n |-> TextsNext(s, w, g, k)],
           NEW l \in Nat, l <= m, l <= n, \A k \in 1..l : v[k] = w[k]
    PROVE  f[l] = g[l]
<1>1. \A k \in 0..m : f[k] = TextsNext(s, v, f, k)
  BY Zenon
<1>2. \A k \in 0..n : g[k] = TextsNext(s, w, g, k)
  BY Zenon
<1> DEFINE S == {k \in Nat : k <= l => f[k] = g[k]}
<1>3. 0 \in S
  BY <1>1, <1>2 DEF TextsNext
<1>4. ASSUME NEW k \in S PROVE k + 1 \in S
  <2> SUFFICES ASSUME k + 1 <= l PROVE f[k + 1] = g[k + 1]
    OBVIOUS
  <2>1. k + 1 \in 0..m /\ k + 1 \in 0..n /\ k + 1 # 0 /\ (k + 1) - 1 = k /\ k + 1 \in 1..l
    OBVIOUS
  <2>2. f[k] = g[k]
    OBVIOUS
  <2>3. f[k + 1] = TextsNext(s, v, f, k + 1) /\ g[k + 1] = TextsNext(s, w, g, k + 1)
    BY <1>1, <1>2, <2>1
  <2> QED
    BY <2>1, <2>2, <2>3 DEF TextsNext
<1>5. S = Nat
  BY <1>3, <1>4, SetInduction
<1>6. l \in S
  BY <1>5
<1> QED
  BY <1>6

\* OfSource, one event at a time.
LEMMA TextOfNone == ASSUME NEW s PROVE HText!OfSource(s, << >>) = << >>
<1> DEFINE f == CHOOSE of : of = [k \in 0..0 |-> TextsNext(s, << >>, of, k)]
<1>1. f = [k \in 0..0 |-> TextsNext(s, << >>, f, k)]
  BY TextsExist
<1>2. HText!OfSource(s, << >>) = f[0]
  BY DEF HText!OfSource, TextsNext
<1> HIDE DEF f
<1>3. f[0] = TextsNext(s, << >>, f, 0)
  BY <1>1
<1> QED
  BY <1>2, <1>3 DEF TextsNext

LEMMA TextOfOneMore ==
    ASSUME NEW s, NEW S, NEW q \in Seq(S), NEW e \in S
    PROVE  HText!OfSource(s, Append(q, e)) =
               IF e.source = s THEN Append(HText!OfSource(s, q), e) ELSE HText!OfSource(s, q)
<1> DEFINE w == Append(q, e)
           m == Len(q)
           f == CHOOSE of : of = [k \in 0..m |-> TextsNext(s, q, of, k)]
           g == CHOOSE of : of = [k \in 0..(m + 1) |-> TextsNext(s, w, of, k)]
<1>1. m \in Nat /\ Len(w) = m + 1 /\ w[m + 1] = e /\ \A k \in 1..m : q[k] = w[k]
  OBVIOUS
<1>2. f = [k \in 0..m |-> TextsNext(s, q, f, k)]
  BY <1>1, TextsExist
<1>3. g = [k \in 0..(m + 1) |-> TextsNext(s, w, g, k)]
  <2>1. m + 1 \in Nat
    BY <1>1
  <2> HIDE DEF m, w
  <2>2. \E of : of = [k \in 0..(m + 1) |-> TextsNext(s, w, of, k)]
    BY <2>1, TextsExist
  <2> QED
    BY <2>2
<1>4. HText!OfSource(s, q) = f[m]
  BY DEF HText!OfSource, TextsNext
<1>5. HText!OfSource(s, w) = g[m + 1]
  <2> HIDE DEF w
  <2>1. HText!OfSource(s, w) = (CHOOSE of : of = [k \in 0..Len(w) |-> TextsNext(s, w, of, k)])[Len(w)]
    BY DEF HText!OfSource, TextsNext
  <2> QED
    BY <1>1, <2>1
<1> HIDE DEF f, g, w, m
<1>6. f[m] = g[m]
  <2>1. m \in Nat /\ m + 1 \in Nat /\ m <= m /\ m <= m + 1
    BY <1>1
  <2>2. \A k \in 1..m : q[k] = w[k]
    BY <1>1
  <2> QED
    BY <1>2, <1>3, <2>1, <2>2, TextsAgree
<1>7. g[m + 1] = TextsNext(s, w, g, m + 1)
  <2>1. m + 1 \in 0..(m + 1)
    BY <1>1
  <2>2. \A k \in 0..(m + 1) : g[k] = TextsNext(s, w, g, k)
    BY <1>3, Zenon
  <2> QED
    BY <2>1, <2>2, Zenon
<1>8. (m + 1) - 1 = m /\ m + 1 # 0
  BY <1>1
<1>9. HText!OfSource(s, w) = IF e.source = s THEN Append(HText!OfSource(s, q), e) ELSE HText!OfSource(s, q)
  BY <1>1, <1>4, <1>5, <1>6, <1>7, <1>8 DEF TextsNext
<1> QED
  BY <1>9 DEF w

\* A sequence is what comes before its last element, and that.
LEMMA TextLastAdded ==
    ASSUME NEW S, NEW q \in Seq(S), NEW n \in Nat, Len(q) = n + 1
    PROVE  \E p \in Seq(S), e \in S : Len(p) = n /\ q = Append(p, e)
<1> DEFINE p == [i \in 1..n |-> q[i]]
<1>1. p \in Seq(S) /\ Len(p) = n
  OBVIOUS
<1>2. q[n + 1] \in S
  OBVIOUS
<1>3. q = Append(p, q[n + 1])
  <2>1. Append(p, q[n + 1]) \in Seq(S) /\ Len(Append(p, q[n + 1])) = Len(q)
    BY <1>1, <1>2
  <2>2. \A i \in 1..Len(q) : q[i] = Append(p, q[n + 1])[i]
    BY <1>1
  <2> QED
    BY <2>1, <2>2, SeqEqual
<1> QED
  BY <1>1, <1>2, <1>3

\* One more at the end of two sequences in a row.
LEMMA TextConcatOneMore ==
    ASSUME NEW T, NEW u \in Seq(T), NEW v \in Seq(T), NEW w, NEW x \in T, w = Append(v, x)
    PROVE  u \o w = Append(u \o v, x)
<1>1. <<x>> \in Seq(T) /\ u \o v \in Seq(T)
  BY ConcatProperties
<1>2. Append(v, x) = v \o <<x>> /\ Append(u \o v, x) = (u \o v) \o <<x>>
  BY <1>1, AppendIsConcat
<1>3. (u \o v) \o <<x>> = u \o (v \o <<x>>)
  BY <1>1, ConcatAssociative
<1> QED
  BY <1>2, <1>3

TextPassed == TextArrival \cup {HText!None}

\* They are texts of s.
LEMMA TextOfTyped ==
    ASSUME NEW s \in TextSource, NEW q \in Seq(TextPassed)
    PROVE  HText!OfSource(s, q) \in Seq(TextEvent)
<1> DEFINE S == {n \in Nat : \A w \in Seq(TextPassed) : Len(w) = n => HText!OfSource(s, w) \in Seq(TextEvent)}
<1>1. 0 \in S
  <2>1. \A w \in Seq(TextPassed) : Len(w) = 0 => w = << >>
    BY EmptySeq
  <2> QED
    BY <2>1, TextOfNone
<1>2. ASSUME NEW n \in S PROVE n + 1 \in S
  <2>1. SUFFICES ASSUME NEW w \in Seq(TextPassed), Len(w) = n + 1 PROVE HText!OfSource(s, w) \in Seq(TextEvent)
    OBVIOUS
  <2>2. n \in Nat /\ \A v \in Seq(TextPassed) : Len(v) = n => HText!OfSource(s, v) \in Seq(TextEvent)
    OBVIOUS
  <2> HIDE DEF S
  <2>3. PICK p \in Seq(TextPassed), e \in TextPassed : Len(p) = n /\ w = Append(p, e)
    BY <2>1, <2>2, TextLastAdded, SMTT(30)
  <2>4. HText!OfSource(s, p) \in Seq(TextEvent)
    BY <2>2, <2>3
  <2>5. e.source = s => e \in TextEvent
    BY TextAssumption DEF TextPassed, TextArrival, HText!None
  <2>6. HText!OfSource(s, w) = IF e.source = s THEN Append(HText!OfSource(s, p), e) ELSE HText!OfSource(s, p)
    BY <2>3, TextOfOneMore
  <2> QED
    BY <2>4, <2>5, <2>6
<1>3. S = Nat
  BY <1>1, <1>2, SetInduction
<1>4. Len(q) \in S
  BY <1>3
<1> QED
  BY <1>4

\* Those of two sequences in a row.
LEMMA TextOfBoth ==
    ASSUME NEW s \in TextSource, NEW a \in Seq(TextPassed), NEW b \in Seq(TextPassed)
    PROVE  HText!OfSource(s, a \o b) = HText!OfSource(s, a) \o HText!OfSource(s, b)
<1> DEFINE S == {n \in Nat : \A w \in Seq(TextPassed) :
                    Len(w) = n => HText!OfSource(s, a \o w) = HText!OfSource(s, a) \o HText!OfSource(s, w)}
<1>1. 0 \in S
  <2>1. \A w \in Seq(TextPassed) : Len(w) = 0 => w = << >>
    BY EmptySeq
  <2>2. a \o << >> = a /\ HText!OfSource(s, a) \o << >> = HText!OfSource(s, a)
    BY TextOfTyped
  <2> QED
    BY <2>1, <2>2, TextOfNone
<1>2. ASSUME NEW n \in S PROVE n + 1 \in S
  <2>1. SUFFICES ASSUME NEW w \in Seq(TextPassed), Len(w) = n + 1
                 PROVE  HText!OfSource(s, a \o w) = HText!OfSource(s, a) \o HText!OfSource(s, w)
    OBVIOUS
  <2>2. n \in Nat
    OBVIOUS
  <2> HIDE DEF S
  <2>3. PICK p \in Seq(TextPassed), e \in TextPassed : Len(p) = n /\ w = Append(p, e)
    BY <2>1, <2>2, TextLastAdded, SMTT(30)
  <2>4. HText!OfSource(s, a \o p) = HText!OfSource(s, a) \o HText!OfSource(s, p)
    BY <2>3 DEF S
  <2>5. e.source = s => e \in TextEvent
    BY TextAssumption DEF TextPassed, TextArrival, HText!None
  <2>6. HText!OfSource(s, w) = IF e.source = s THEN Append(HText!OfSource(s, p), e) ELSE HText!OfSource(s, p)
    BY <2>3, TextOfOneMore
  <2>7. a \o w = Append(a \o p, e) /\ a \o p \in Seq(TextPassed) /\ e \in TextPassed
    BY <2>3
  <2> DEFINE c == a \o p
  <2>8. c \in Seq(TextPassed) /\ a \o w = Append(c, e)
    BY <2>7
  <2> HIDE DEF c
  <2>9. HText!OfSource(s, Append(c, e)) = IF e.source = s THEN Append(HText!OfSource(s, c), e) ELSE HText!OfSource(s, c)
    BY <2>7, <2>8, TextOfOneMore
  <2>10. HText!OfSource(s, a \o w) = IF e.source = s THEN Append(HText!OfSource(s, a \o p), e) ELSE HText!OfSource(s, a \o p)
    BY <2>8, <2>9 DEF c
  <2>11. HText!OfSource(s, a) \in Seq(TextEvent) /\ HText!OfSource(s, p) \in Seq(TextEvent)
    BY TextOfTyped
  <2>12. CASE e.source = s
    <3>1. Append(HText!OfSource(s, a) \o HText!OfSource(s, p), e) = HText!OfSource(s, a) \o Append(HText!OfSource(s, p), e)
      <4> DEFINE u == HText!OfSource(s, a)
                 v == HText!OfSource(s, p)
                 x == Append(HText!OfSource(s, p), e)
      <4>1. u \in Seq(TextEvent) /\ v \in Seq(TextEvent) /\ e \in TextEvent /\ x = Append(v, e)
        BY <2>5, <2>11, <2>12
      <4> HIDE DEF u, v, x
      <4>2. u \o x = Append(u \o v, e)
        BY <4>1, TextConcatOneMore
      <4> QED
        BY <4>2 DEF u, v, x
    <3> QED
      BY <2>4, <2>6, <2>10, <2>12, <3>1
  <2>13. CASE e.source # s
    BY <2>4, <2>6, <2>10, <2>13
  <2> QED
    BY <2>12, <2>13
<1>3. S = Nat
  BY <1>1, <1>2, SetInduction
<1>4. Len(b) \in S
  BY <1>3
<1> QED
  BY <1>4

-----------------------------------------------------------------------------
(* What a source has printed: given out, collected or on its way           *)

LEMMA TextHaveIds == (\A e \in TextPiece : e.id \in TextPieceId) /\ (\A e \in TextEvent : e.id \in TextPieceId)
  BY DEF TextPiece, TextEvent

LEMMA TextIdsAre ==
    ASSUME NEW S, NEW q \in Seq(S), \A e \in S : e.id \in TextPieceId
    PROVE  /\ HText!Ids(q) \in Seq(TextPieceId) /\ Len(HText!Ids(q)) = Len(q)
           /\ \A i \in 1..Len(q) : HText!Ids(q)[i] = q[i].id
<1>1. HText!Ids(q) = [i \in 1..Len(q) |-> q[i].id] /\ \A i \in 1..Len(q) : q[i].id \in TextPieceId
  BY DEF HText!Ids
<1> QED
  BY <1>1

LEMMA TextIdsBoth ==
    ASSUME NEW S, NEW T, NEW a \in Seq(S), NEW b \in Seq(T),
           \A e \in S : e.id \in TextPieceId, \A e \in T : e.id \in TextPieceId
    PROVE  HText!Ids(a \o b) = HText!Ids(a) \o HText!Ids(b)
<1> DEFINE U == S \cup T
<1>1. a \in Seq(U) /\ b \in Seq(U) /\ \A e \in U : e.id \in TextPieceId
  OBVIOUS
<1> HIDE DEF U
<1>2. a \o b \in Seq(U) /\ Len(a \o b) = Len(a) + Len(b) /\ Len(a) \in Nat /\ Len(b) \in Nat
  BY <1>1
<1>3. \A i \in 1..Len(a \o b) : (a \o b)[i] = IF i <= Len(a) THEN a[i] ELSE b[i - Len(a)]
  BY <1>1
<1>4. /\ HText!Ids(a \o b) \in Seq(TextPieceId) /\ Len(HText!Ids(a \o b)) = Len(a \o b)
      /\ \A i \in 1..Len(a \o b) : HText!Ids(a \o b)[i] = (a \o b)[i].id
  BY <1>1, <1>2, TextIdsAre
<1>5. /\ HText!Ids(a) \in Seq(TextPieceId) /\ Len(HText!Ids(a)) = Len(a) /\ \A i \in 1..Len(a) : HText!Ids(a)[i] = a[i].id
  BY <1>1, TextIdsAre
<1>6. /\ HText!Ids(b) \in Seq(TextPieceId) /\ Len(HText!Ids(b)) = Len(b) /\ \A i \in 1..Len(b) : HText!Ids(b)[i] = b[i].id
  BY <1>1, TextIdsAre
<1>7. HText!Ids(a) \o HText!Ids(b) \in Seq(TextPieceId) /\ Len(HText!Ids(a) \o HText!Ids(b)) = Len(a \o b)
  <2> DEFINE x == HText!Ids(a)
             y == HText!Ids(b)
  <2>1. x \in Seq(TextPieceId) /\ y \in Seq(TextPieceId) /\ Len(a \o b) = Len(x) + Len(y)
    BY <1>2, <1>5, <1>6
  <2> HIDE DEF x, y
  <2>2. x \o y \in Seq(TextPieceId) /\ Len(x \o y) = Len(a \o b)
    BY <2>1, ConcatProperties
  <2> QED
    BY <2>2 DEF x, y
<1>8. ASSUME NEW i \in 1..Len(a \o b) PROVE HText!Ids(a \o b)[i] = (HText!Ids(a) \o HText!Ids(b))[i]
  <2>1. (HText!Ids(a) \o HText!Ids(b))[i] = IF i <= Len(a) THEN HText!Ids(a)[i] ELSE HText!Ids(b)[i - Len(a)]
    BY <1>2, <1>5, <1>6
  <2>2. HText!Ids(a \o b)[i] = IF i <= Len(a) THEN a[i].id ELSE b[i - Len(a)].id
    BY <1>3, <1>4
  <2>3. i <= Len(a) => i \in 1..Len(a)
    BY <1>2
  <2>4. ~(i <= Len(a)) => i - Len(a) \in 1..Len(b)
    BY <1>2
  <2> QED
    BY <2>1, <2>2, <2>3, <2>4, <1>5, <1>6
<1> QED
  BY <1>4, <1>7, <1>8, SeqEqual

LEMMA TextIdsOneMore ==
    ASSUME NEW S, NEW q \in Seq(S), NEW e \in S, \A f \in S : f.id \in TextPieceId
    PROVE  HText!Ids(Append(q, e)) = Append(HText!Ids(q), e.id)
<1>1. Append(q, e) = q \o <<e>> /\ <<e>> \in Seq(S)
  BY AppendIsConcat
<1>2. HText!Ids(q \o <<e>>) = HText!Ids(q) \o HText!Ids(<<e>>)
  BY <1>1, TextIdsBoth
<1>3. HText!Ids(<<e>>) = <<e.id>>
  <2>1. Len(<<e>>) = 1 /\ <<e>>[1] = e
    OBVIOUS
  <2>2. HText!Ids(<<e>>) = [i \in 1..1 |-> e.id]
    BY <2>1 DEF HText!Ids
  <2> QED
    BY <2>2
<1>4. HText!Ids(q) \in Seq(TextPieceId) /\ e.id \in TextPieceId
  BY TextIdsAre
<1>5. Append(HText!Ids(q), e.id) = HText!Ids(q) \o <<e.id>>
  BY <1>4, AppendIsConcat
<1> QED
  BY <1>1, <1>2, <1>3, <1>5

-----------------------------------------------------------------------------
(* The merger                                                              *)

TextCollected(st, s) == st.merger.pending[s]
TextGivenOut(st, s) == st.sentences[s]
TextFlow(st, s) == TextGivenOut(st, s).ids \o HText!Ids(TextCollected(st, s))

\* Pieces share a sentence only within the window.
TextClose(st) ==
    \A s \in TextSource : \A i \in 2..Len(TextCollected(st, s)) :
        \/ TextCollected(st, s)[i].window = 0
        \/ TextCollected(st, s)[i].at < TextCollected(st, s)[i - 1].at + TextCollected(st, s)[i].window

\* A sentence whose window is over had no further text within it.
TextEnded(st) ==
    lostTexts = 0 =>
        \A s \in TextSource :
            LET end == TextGivenOut(st, s).last.at + TextGivenOut(st, s).last.window
            IN  TextGivenOut(st, s).last.cut = "expired" =>
                    /\ end <= now
                    /\ \A i \in 1..Len(TextCollected(st, s)) : end <= TextCollected(st, s)[i].at
                    /\ \A i \in 1..Len(events) : events[i].source = s => end <= events[i].at
                    /\ session.hand.source = s => end <= session.hand.at

TextReceived(st) == st \in TextGathered /\ TextClose(st) /\ TextEnded(st)

\* Nothing of a source waits but what comes with the next message, unless a post was lost.
TextInv ==
    /\ TextTypes
    /\ ~announced /\ lostTexts = 0 => events = << >>
    /\ \A s \in TextSource : TextFlow(HText!State, s) \o HText!Ids(HText!Texts(s)) = printed[s]
    /\ TextClose(HText!State) /\ TextEnded(HText!State)

\* What a source has given out with what is collected.
TextSentence(st, s, cut) ==
    [ids |-> TextGivenOut(st, s).ids \o HText!Ids(TextCollected(st, s)),
     last |-> [at |-> HText!Last(TextCollected(st, s)).at, window |-> st.merger.window,
               cut |-> IF session.hand.source = s THEN "raced" ELSE cut]]

\* The sources in S are given out.
TextGives(st, S, cut, out) ==
    /\ out \in TextGathered /\ out.timer = st.timer /\ out.merger.window = st.merger.window
    /\ \A s \in TextSource :
          /\ TextCollected(out, s) = IF s \in S THEN HText!NoText ELSE TextCollected(st, s)
          /\ TextGivenOut(out, s) = IF s \in S /\ TextCollected(st, s) # HText!NoText THEN TextSentence(st, s, cut)
                               ELSE TextGivenOut(st, s)

LEMMA TextGiveOutIs ==
    ASSUME NEW st \in TextGathered, NEW S \in SUBSET TextSource, NEW cut \in TextCuts
    PROVE  TextGives(st, S, cut, HText!GiveOut(st, S, cut))
<1> DEFINE p == [s \in TextSource |-> IF s \in S THEN HText!NoText ELSE st.merger.pending[s]]
           h == [s \in TextSource |->
                    IF s \in S /\ TextCollected(st, s) # HText!NoText THEN TextSentence(st, s, cut) ELSE st.sentences[s]]
<1>1. HText!GiveOut(st, S, cut) =
        [merger |-> [window |-> st.merger.window, pending |-> p, deadlines |-> st.merger.deadlines,
                     overLimit |-> st.merger.overLimit \ S],
         sentences |-> h, timer |-> st.timer]
  <2>1. HText!GiveOut(st, S, cut) =
          [st EXCEPT !.merger.pending = p, !.merger.overLimit = st.merger.overLimit \ S, !.sentences = h]
    BY Zenon DEF HText!GiveOut, TextCollected, TextGivenOut, TextSentence
  <2> HIDE DEF p, h
  <2> QED
    BY <2>1 DEF TextGathered, TextMerger
<1>2. p \in [TextSource -> Seq(TextPiece)]
  BY DEF TextGathered, TextMerger, HText!NoText
<1>3. ASSUME NEW s \in TextSource, TextCollected(st, s) # HText!NoText
      PROVE  TextSentence(st, s, cut) \in [ids : Seq(TextPieceId), last : TextCut]
  <2>1. st.merger.pending[s] \in Seq(TextPiece) /\ st.sentences[s] \in [ids : Seq(TextPieceId), last : TextCut]
    BY DEF TextGathered, TextMerger, TextGiven
  <2>2. st.merger.window \in Nat
    BY DEF TextGathered, TextMerger
  <2> DEFINE q == TextCollected(st, s)
             o == TextGivenOut(st, s)
  <2>3. q \in Seq(TextPiece) /\ q # << >> /\ o.ids \in Seq(TextPieceId)
    BY <1>3, <2>1 DEF TextCollected, TextGivenOut, HText!NoText
  <2> HIDE DEF q, o
  <2>4. HText!Ids(q) \in Seq(TextPieceId)
    BY <2>3, TextIdsAre, TextHaveIds
  <2>5. HText!Last(q).at \in Nat
    <3>1. Len(q) \in 1..Len(q)
      BY <2>3, EmptySeq
    <3>2. q[Len(q)] \in TextPiece
      BY <2>3, <3>1
    <3> QED
      BY <3>2 DEF HText!Last, TextPiece
  <2>6. o.ids \o HText!Ids(q) \in Seq(TextPieceId)
    BY <2>3, <2>4, ConcatProperties
  <2>7. (IF session.hand.source = s THEN "raced" ELSE cut) \in TextCuts
    BY DEF TextCuts
  <2> QED
    BY <2>2, <2>5, <2>6, <2>7 DEF TextCut, q, o, TextSentence
<1>4. h \in TextGiven
  <2>1. \A s \in TextSource : st.sentences[s] \in [ids : Seq(TextPieceId), last : TextCut]
    BY DEF TextGathered, TextGiven
  <2> QED
    BY <1>3, <2>1 DEF TextGiven
<1>5. st.merger.window \in Nat /\ st.merger.deadlines \in SUBSET (Nat \X TextSource)
      /\ st.merger.overLimit \in SUBSET TextSource /\ st.timer \in BOOLEAN
  BY DEF TextGathered, TextMerger
<1>6. \A s \in TextSource : p[s] = (IF s \in S THEN HText!NoText ELSE TextCollected(st, s))
  BY DEF TextCollected
<1>7. \A s \in TextSource : h[s] =
          IF s \in S /\ TextCollected(st, s) # HText!NoText THEN TextSentence(st, s, cut) ELSE TextGivenOut(st, s)
  BY DEF TextGivenOut
<1>8. ASSUME NEW s \in TextSource
      PROVE  /\ TextCollected(HText!GiveOut(st, S, cut), s) = p[s]
             /\ TextGivenOut(HText!GiveOut(st, S, cut), s) = h[s]
  <2> HIDE DEF p, h
  <2> QED
    BY <1>1 DEF TextCollected, TextGivenOut
<1>9. /\ HText!GiveOut(st, S, cut).timer = st.timer
      /\ HText!GiveOut(st, S, cut).merger.window = st.merger.window
  <2> HIDE DEF p, h
  <2> QED
    BY <1>1
<1>10. HText!GiveOut(st, S, cut) \in TextGathered
  <2>1. st.merger.overLimit \ S \in SUBSET TextSource
    BY <1>5
  <2> HIDE DEF p, h
  <2> QED
    BY <1>1, <1>2, <1>4, <1>5, <2>1 DEF TextGathered, TextMerger
<1> HIDE DEF p, h
<1> QED
  BY <1>6, <1>7, <1>8, <1>9, <1>10 DEF TextGives

\* It loses and repeats nothing, and leaves what is collected within the window.
LEMMA TextGiveOutKeeps ==
    ASSUME TextTypes, NEW st, TextReceived(st), NEW S \in SUBSET TextSource, NEW cut \in TextCuts,
           cut = "expired" /\ lostTexts = 0 =>
              events = << >> /\ \A s \in S : HText!Last(TextCollected(st, s)).at + st.merger.window <= now
    PROVE  /\ TextReceived(HText!GiveOut(st, S, cut)) /\ HText!GiveOut(st, S, cut).timer = st.timer
           /\ \A s \in TextSource : TextFlow(HText!GiveOut(st, S, cut), s) = TextFlow(st, s)
<1> DEFINE out == HText!GiveOut(st, S, cut)
<1>1. st \in TextGathered /\ TextClose(st) /\ TextEnded(st)
  BY DEF TextReceived
<1>2. TextGives(st, S, cut, out)
  BY <1>1, TextGiveOutIs
<1> HIDE DEF out
<1>3. TextClose(out)
  BY <1>1, <1>2 DEF TextGives, TextClose, HText!NoText
<1>4. TextEnded(out)
  <2> SUFFICES ASSUME lostTexts = 0, NEW s \in TextSource, TextGivenOut(out, s).last.cut = "expired"
               PROVE  LET end == TextGivenOut(out, s).last.at + TextGivenOut(out, s).last.window
                      IN  /\ end <= now
                          /\ \A i \in 1..Len(TextCollected(out, s)) : end <= TextCollected(out, s)[i].at
                          /\ \A i \in 1..Len(events) : events[i].source = s => end <= events[i].at
                          /\ session.hand.source = s => end <= session.hand.at
    BY DEF TextEnded
  <2>1. CASE s \in S /\ TextCollected(st, s) # HText!NoText
    <3>1. TextGivenOut(out, s).last.at = HText!Last(TextCollected(st, s)).at
          /\ TextGivenOut(out, s).last.window = st.merger.window
          /\ TextGivenOut(out, s).last.cut = IF session.hand.source = s THEN "raced" ELSE cut
      BY <1>2, <2>1 DEF TextGives, TextSentence
    <3>2. session.hand.source # s /\ cut = "expired" /\ events = << >>
      BY <3>1
    <3>3. TextCollected(out, s) = << >>
      BY <1>2, <2>1 DEF TextGives, HText!NoText
    <3> QED
      BY <2>1, <3>1, <3>2, <3>3
  <2>2. CASE ~(s \in S /\ TextCollected(st, s) # HText!NoText)
    <3>1. TextGivenOut(out, s) = TextGivenOut(st, s) /\ TextCollected(out, s) = TextCollected(st, s)
      BY <1>2, <2>2 DEF TextGives
    <3> QED
      BY <1>1, <3>1 DEF TextEnded
  <2> QED
    BY <2>1, <2>2
<1>5. ASSUME NEW s \in TextSource PROVE TextFlow(out, s) = TextFlow(st, s)
  <2>1. CASE s \in S /\ TextCollected(st, s) # HText!NoText
    <3>1. TextGivenOut(out, s).ids = TextFlow(st, s) /\ TextCollected(out, s) = << >>
      BY <1>2, <2>1 DEF TextGives, TextFlow, HText!NoText, TextSentence
    <3>2. HText!Ids(<< >>) = << >>
      BY DEF HText!Ids
    <3>3. TextFlow(st, s) \in Seq(TextPieceId)
      <4>1. st.merger.pending[s] \in Seq(TextPiece) /\ st.sentences[s] \in [ids : Seq(TextPieceId), last : TextCut]
        BY <1>1 DEF TextGathered, TextMerger, TextGiven
      <4>2. HText!Ids(st.merger.pending[s]) \in Seq(TextPieceId)
        BY <4>1, TextIdsAre, TextHaveIds
      <4> QED
        BY <4>1, <4>2, ConcatProperties DEF TextFlow, TextGivenOut, TextCollected
    <3>4. TextFlow(st, s) \o << >> = TextFlow(st, s)
      BY <3>3
    <3> QED
      BY <3>1, <3>2, <3>4 DEF TextFlow
  <2>2. CASE ~(s \in S /\ TextCollected(st, s) # HText!NoText)
    BY <1>2, <2>2 DEF TextGives, TextFlow
  <2> QED
    BY <2>1, <2>2
<1> QED
  BY <1>2, <1>3, <1>4, <1>5 DEF TextGives, TextReceived, out

\* Deadlines, the list of what grew too long and the timer are nothing to what is collected.
LEMMA TextRestKeeps ==
    ASSUME NEW st, TextReceived(st), NEW out \in TextGathered,
           out.merger.pending = st.merger.pending, out.sentences = st.sentences
    PROVE  TextReceived(out) /\ \A s \in TextSource : TextFlow(out, s) = TextFlow(st, s)
<1>1. \A s : TextCollected(out, s) = TextCollected(st, s) /\ TextGivenOut(out, s) = TextGivenOut(st, s)
  BY DEF TextCollected, TextGivenOut
<1> QED
  BY <1>1 DEF TextReceived, TextClose, TextEnded, TextFlow

\* A text is collected.
LEMMA TextCollectKeeps ==
    ASSUME TextTypes, NEW st, TextReceived(st), NEW text \in TextEvent, ~HText!BeginsNew(st.merger, text),
           lostTexts = 0 /\ TextGivenOut(st, text.source).last.cut = "expired" =>
               TextGivenOut(st, text.source).last.at + TextGivenOut(st, text.source).last.window <= text.at
    PROVE  /\ TextReceived(HText!Collect(st, text))
           /\ \A s \in TextSource : TextFlow(HText!Collect(st, text), s) =
                 IF s = text.source THEN Append(TextFlow(st, s), text.id) ELSE TextFlow(st, s)
<1> DEFINE r == text.source
           m == st.merger
           piece == [id |-> text.id, at |-> text.at, window |-> m.window]
           buffer == Append(m.pending[r], piece)
           p == [m.pending EXCEPT ![r] = buffer]
           d == IF m.window > 0 THEN m.deadlines \cup {<<text.at + m.window, r>>} ELSE m.deadlines
           o == IF Len(buffer) > TextBuffer THEN m.overLimit \cup {r} ELSE m.overLimit
           out == HText!Collect(st, text)
<1>1. st \in TextGathered /\ TextClose(st) /\ TextEnded(st)
  BY DEF TextReceived
<1>2. /\ m.window \in Nat /\ m.pending \in [TextSource -> Seq(TextPiece)] /\ m.deadlines \in SUBSET (Nat \X TextSource)
      /\ m.overLimit \in SUBSET TextSource /\ st.sentences \in TextGiven /\ st.timer \in BOOLEAN
  BY <1>1 DEF TextGathered, TextMerger
<1>3. r \in TextSource /\ text.at \in Nat /\ text.id \in TextPieceId
  BY DEF TextEvent
<1>4. out = [merger |-> [window |-> m.window, pending |-> p, deadlines |-> d, overLimit |-> o],
             sentences |-> st.sentences, timer |-> st.timer]
  <2>1. out = [st EXCEPT !.merger = [m EXCEPT !.pending = p, !.deadlines = d, !.overLimit = o]]
    BY Zenon DEF HText!Collect
  <2> HIDE DEF p, d, o, out
  <2> QED
    BY <1>1, <2>1 DEF TextGathered, TextMerger
<1>5. piece \in TextPiece
  BY <1>2, <1>3 DEF TextPiece
<1>6. p \in [TextSource -> Seq(TextPiece)]
  <2> HIDE DEF piece
  <2> QED
    BY <1>2, <1>3, <1>5
<1>7. d \in SUBSET (Nat \X TextSource) /\ o \in SUBSET TextSource
  <2> HIDE DEF buffer
  <2>1. <<text.at + m.window, r>> \in Nat \X TextSource
    BY <1>2, <1>3
  <2> QED
    BY <1>2, <1>3, <2>1
<1>8. \A s \in TextSource : TextCollected(out, s) = (IF s = r THEN buffer ELSE TextCollected(st, s))
                            /\ TextGivenOut(out, s) = TextGivenOut(st, s)
  <2> HIDE DEF out, d, o, buffer
  <2> QED
    BY <1>2, <1>3, <1>4 DEF TextCollected, TextGivenOut
<1> HIDE DEF out, d, o, p
<1>9. out \in TextGathered
  BY <1>2, <1>4, <1>6, <1>7 DEF TextGathered, TextMerger
<1> DEFINE q == TextCollected(st, r)
<1>10. /\ q \in Seq(TextPiece) /\ buffer = Append(q, piece) /\ Len(buffer) = Len(q) + 1 /\ buffer[Len(q) + 1] = piece
       /\ \A i \in 1..Len(q) : buffer[i] = q[i]
  <2> HIDE DEF piece
  <2>1. q \in Seq(TextPiece) /\ buffer = Append(q, piece)
    BY <1>2, <1>3 DEF TextCollected
  <2> HIDE DEF q, buffer
  <2> QED
    BY <1>5, <2>1
<1> HIDE DEF buffer, q
<1>11. TextClose(out)
  <2>1. SUFFICES ASSUME NEW i \in 2..Len(buffer)
                 PROVE  buffer[i].window = 0 \/ buffer[i].at < buffer[i - 1].at + buffer[i].window
    <3>1. \A s \in TextSource : s = r \/ TextCollected(out, s) = TextCollected(st, s)
      BY <1>8
    <3>2. TextCollected(out, r) = buffer
      BY <1>3, <1>8
    <3> QED
      BY <1>1, <2>1, <3>1, <3>2 DEF TextClose
  <2>2. CASE i <= Len(q)
    <3>1. i \in 2..Len(q) /\ i \in 1..Len(q) /\ i - 1 \in 1..Len(q)
      BY <1>10, <2>2
    <3>2. buffer[i] = q[i] /\ buffer[i - 1] = q[i - 1]
      BY <1>10, <3>1
    <3>3. q[i].window = 0 \/ q[i].at < q[i - 1].at + q[i].window
      BY <1>1, <1>3, <3>1 DEF TextClose, q
    <3> QED
      BY <3>2, <3>3
  <2>3. CASE ~(i <= Len(q))
    <3>1. i = Len(q) + 1 /\ Len(q) \in 1..Len(q) /\ i - 1 = Len(q) /\ q # << >>
      BY <1>10, <2>3
    <3>2. buffer[i] = piece /\ buffer[i - 1] = HText!Last(q) /\ HText!Last(q) \in TextPiece
      BY <1>10, <3>1 DEF HText!Last
    <3>3. m.window = 0 \/ ~(text.at >= HText!Last(q).at + m.window)
      BY <1>2, <3>1 DEF HText!BeginsNew, HText!NoText, q, TextCollected
    <3>4. HText!Last(q).at \in Nat
      BY <3>2 DEF TextPiece
    <3> QED
      BY <1>2, <1>3, <3>2, <3>3, <3>4
  <2> QED
    BY <2>2, <2>3
<1>12. TextEnded(out)
  <2> SUFFICES ASSUME lostTexts = 0, NEW s \in TextSource, TextGivenOut(out, s).last.cut = "expired"
               PROVE  LET end == TextGivenOut(out, s).last.at + TextGivenOut(out, s).last.window
                      IN  /\ end <= now
                          /\ \A i \in 1..Len(TextCollected(out, s)) : end <= TextCollected(out, s)[i].at
                          /\ \A i \in 1..Len(events) : events[i].source = s => end <= events[i].at
                          /\ session.hand.source = s => end <= session.hand.at
    BY DEF TextEnded
  <2> DEFINE end == TextGivenOut(st, s).last.at + TextGivenOut(st, s).last.window
  <2>1. /\ end <= now /\ \A i \in 1..Len(TextCollected(st, s)) : end <= TextCollected(st, s)[i].at
        /\ \A i \in 1..Len(events) : events[i].source = s => end <= events[i].at
        /\ session.hand.source = s => end <= session.hand.at
        /\ TextGivenOut(out, s) = TextGivenOut(st, s)
    BY <1>1, <1>8 DEF TextEnded
  <2>2. \A i \in 1..Len(TextCollected(out, s)) : end <= TextCollected(out, s)[i].at
    <3>1. CASE s # r
      BY <1>8, <2>1, <3>1
    <3>2. CASE s = r
      <4>1. TextCollected(out, s) = buffer /\ end <= text.at
        BY <1>8, <2>1, <3>2
      <4>2. \A i \in 1..Len(q) : end <= q[i].at
        BY <2>1, <3>2 DEF q
      <4>3. \A i \in 1..Len(buffer) : i \in 1..Len(q) \/ i = Len(q) + 1
        BY <1>10
      <4> QED
        BY <1>10, <4>1, <4>2, <4>3
    <3> QED
      BY <3>1, <3>2
  <2> QED
    BY <2>1, <2>2
<1>13. ASSUME NEW s \in TextSource
       PROVE  TextFlow(out, s) = IF s = r THEN Append(TextFlow(st, s), text.id) ELSE TextFlow(st, s)
  <2>1. CASE s # r
    BY <1>8, <2>1 DEF TextFlow
  <2>2. CASE s = r
    <3> DEFINE g == TextGivenOut(st, r).ids
    <3>1. HText!Ids(buffer) = Append(HText!Ids(q), piece.id) /\ HText!Ids(q) \in Seq(TextPieceId)
      BY <1>5, <1>10, TextIdsOneMore, TextIdsAre, TextHaveIds
    <3>2. piece.id = text.id
      OBVIOUS
    <3>3. g \in Seq(TextPieceId)
      BY <1>2, <1>3 DEF TextGiven, TextGivenOut
    <3>4. TextFlow(out, s) = g \o Append(HText!Ids(q), text.id) /\ TextFlow(st, s) = g \o HText!Ids(q)
      BY <1>8, <2>2, <3>1 DEF TextFlow, q
    <3> DEFINE v == HText!Ids(q)
               w == Append(HText!Ids(q), text.id)
               x == text.id
    <3>5. v \in Seq(TextPieceId) /\ x \in TextPieceId /\ w = Append(v, x)
      BY <1>3, <3>1
    <3> HIDE DEF g, v, w, x, piece
    <3>6. g \o w = Append(g \o v, x)
      BY <3>3, <3>5, TextConcatOneMore
    <3> QED
      BY <2>2, <3>4, <3>6 DEF v, w, x
  <2> QED
    BY <2>1, <2>2
<1> QED
  BY <1>9, <1>11, <1>12, <1>13 DEF TextReceived, out

\* A text is taken from the queue.
LEMMA TextSubmitKeeps ==
    ASSUME TextTypes, NEW st, TextReceived(st), NEW k \in 1..Len(events), events[k] \in TextEvent
    PROVE  /\ TextReceived(HText!SubmitAt(st, events[k]))
           /\ \A s \in TextSource : TextFlow(HText!SubmitAt(st, events[k]), s) =
                 IF s = events[k].source THEN Append(TextFlow(st, s), events[k].id) ELSE TextFlow(st, s)
<1> DEFINE text == events[k]
           r == text.source
<1>1. r \in TextSource
  BY DEF TextEvent
<1>2. CASE ~HText!BeginsNew(st.merger, text)
  <2>1. lostTexts = 0 /\ TextGivenOut(st, r).last.cut = "expired" =>
            TextGivenOut(st, r).last.at + TextGivenOut(st, r).last.window <= text.at
    BY <1>1 DEF TextReceived, TextEnded
  <2>2. HText!SubmitAt(st, text) = HText!Collect(st, text)
    BY <1>2 DEF HText!SubmitAt
  <2> HIDE DEF text
  <2>3. text \in TextEvent
    BY DEF text
  <2> QED
    BY <1>2, <2>1, <2>2, <2>3, TextCollectKeeps DEF text
<1>3. CASE HText!BeginsNew(st.merger, text)
  <2> DEFINE out == HText!GiveOut(st, {r}, "gap")
  <2>1. "gap" \in TextCuts /\ "gap" # "expired" /\ {r} \in SUBSET TextSource
    BY <1>1 DEF TextCuts
  <2>2. TextReceived(out) /\ \A s \in TextSource : TextFlow(out, s) = TextFlow(st, s)
    BY <2>1, TextGiveOutKeeps
  <2>3. TextGives(st, {r}, "gap", out)
    BY <2>1, TextGiveOutIs DEF TextReceived
  <2>4. HText!SubmitAt(st, text) = HText!Collect(out, text)
    BY <1>3 DEF HText!SubmitAt
  <2>5. text \in TextEvent
    OBVIOUS
  <2> HIDE DEF out, text
  <2>6. TextCollected(st, r) # HText!NoText
    BY <1>3 DEF HText!BeginsNew, TextCollected
  <2>7. TextCollected(out, r) = HText!NoText /\ TextGivenOut(out, r) = TextSentence(st, r, "gap")
    BY <1>1, <2>3, <2>6 DEF TextGives
  <2>8. ~HText!BeginsNew(out.merger, text)
    BY <2>7 DEF HText!BeginsNew, TextCollected
  <2>9. TextGivenOut(out, r).last.cut # "expired"
    BY <2>7 DEF TextSentence
  <2>10. /\ TextReceived(HText!Collect(out, text))
         /\ \A s \in TextSource : TextFlow(HText!Collect(out, text), s) =
               IF s = text.source THEN Append(TextFlow(out, s), text.id) ELSE TextFlow(out, s)
    BY <2>2, <2>5, <2>8, <2>9, TextCollectKeeps
  <2> QED
    BY <2>2, <2>4, <2>10 DEF text
<1> QED
  BY <1>2, <1>3

\* Everything is given out.
LEMMA TextDrainKeeps ==
    ASSUME TextTypes, NEW st, TextReceived(st), NEW cut \in TextCuts, cut # "expired"
    PROVE  TextReceived(HText!DrainAll(st, cut)) /\ \A s \in TextSource : TextFlow(HText!DrainAll(st, cut), s) = TextFlow(st, s)
<1> DEFINE given == HText!GiveOut(st, TextSource, cut)
           out == HText!DrainAll(st, cut)
<1>1. TextReceived(given) /\ \A s \in TextSource : TextFlow(given, s) = TextFlow(st, s)
  BY TextGiveOutKeeps
<1>2. out = [given EXCEPT !.merger.deadlines = {}, !.merger.overLimit = {}]
  BY DEF HText!DrainAll
<1> HIDE DEF given, out
<1>3. given \in TextGathered
  BY <1>1 DEF TextReceived
<1>4. out \in TextGathered /\ out.merger.pending = given.merger.pending /\ out.sentences = given.sentences
  BY <1>2, <1>3 DEF TextGathered, TextMerger
<1>5. TextReceived(out) /\ \A s \in TextSource : TextFlow(out, s) = TextFlow(given, s)
  BY <1>1, <1>4, TextRestKeeps
<1> QED
  BY <1>1, <1>5 DEF out

\* The timer gives out what its window has ended for.
LEMMA TextFlushKeeps ==
    ASSUME TextTypes, NEW st, TextReceived(st), NEW cut \in {"expired", "replayed"},
           cut = "expired" /\ lostTexts = 0 => events = << >>
    PROVE  /\ TextReceived(HText!FlushExpired(st, cut)) /\ HText!FlushExpired(st, cut).timer = st.timer
           /\ \A s \in TextSource : TextFlow(HText!FlushExpired(st, cut), s) = TextFlow(st, s)
<1> DEFINE m == st.merger
           expired == {s \in TextSource : /\ m.window > 0 /\ m.pending[s] # HText!NoText
                                          /\ <<HText!Last(m.pending[s]).at + m.window, s>> \in m.deadlines
                                          /\ HText!Last(m.pending[s]).at + m.window <= now}
           left == [st EXCEPT !.merger.deadlines = {d \in m.deadlines : d[1] > now}]
           timed == HText!GiveOut(left, expired, cut)
           all == IF m.window = 0 THEN HText!GiveOut(timed, TextSource, "zero") ELSE timed
           long == HText!GiveOut(all, all.merger.overLimit, "long")
           out == HText!FlushExpired(st, cut)
<1>1. out = [long EXCEPT !.merger.overLimit = {}]
  BY DEF HText!FlushExpired
<1>2. st \in TextGathered
  BY DEF TextReceived
<1>3. TextReceived(left) /\ \A s \in TextSource : TextFlow(left, s) = TextFlow(st, s)
  <2>1. left \in TextGathered /\ left.merger.pending = st.merger.pending /\ left.sentences = st.sentences
    BY <1>2 DEF TextGathered, TextMerger
  <2> HIDE DEF left
  <2> QED
    BY <2>1, TextRestKeeps
<1>4. left.merger.window = m.window /\ left.merger.pending = m.pending /\ left.timer = st.timer
  BY <1>2 DEF TextGathered, TextMerger
<1>5. expired \in SUBSET TextSource /\ \A s \in expired : HText!Last(TextCollected(left, s)).at + left.merger.window <= now
  BY <1>4 DEF TextCollected
<1>6. cut \in TextCuts /\ "zero" \in TextCuts /\ "long" \in TextCuts /\ "zero" # "expired" /\ "long" # "expired"
  BY DEF TextCuts
<1> HIDE DEF left, expired
<1>7. TextReceived(timed) /\ timed.timer = left.timer /\ \A s \in TextSource : TextFlow(timed, s) = TextFlow(left, s)
  BY <1>3, <1>5, <1>6, TextGiveOutKeeps
<1> HIDE DEF timed
<1>8. /\ TextReceived(HText!GiveOut(timed, TextSource, "zero")) /\ HText!GiveOut(timed, TextSource, "zero").timer = timed.timer
      /\ \A s \in TextSource : TextFlow(HText!GiveOut(timed, TextSource, "zero"), s) = TextFlow(timed, s)
  BY <1>6, <1>7, TextGiveOutKeeps
<1>9. TextReceived(all) /\ all.timer = timed.timer /\ \A s \in TextSource : TextFlow(all, s) = TextFlow(timed, s)
  BY <1>7, <1>8
<1> HIDE DEF all
<1>10. all.merger.overLimit \in SUBSET TextSource
  BY <1>9 DEF TextReceived, TextGathered, TextMerger
<1>11. TextReceived(long) /\ long.timer = all.timer /\ \A s \in TextSource : TextFlow(long, s) = TextFlow(all, s)
  BY <1>6, <1>9, <1>10, TextGiveOutKeeps
<1> HIDE DEF long, out
<1>12. TextReceived(out) /\ out.timer = long.timer /\ \A s \in TextSource : TextFlow(out, s) = TextFlow(long, s)
  <2>1. long \in TextGathered
    BY <1>11 DEF TextReceived
  <2>2. out \in TextGathered /\ out.timer = long.timer
        /\ out.merger.pending = long.merger.pending /\ out.sentences = long.sentences
    BY <1>1, <2>1 DEF TextGathered, TextMerger
  <2> QED
    BY <1>11, <2>2, TextRestKeeps
<1> QED
  BY <1>3, <1>4, <1>7, <1>9, <1>11, <1>12 DEF out

-----------------------------------------------------------------------------
(* A batch of events                                                       *)

LEMMA TextEffectKeeps ==
    ASSUME TextTypes, NEW st, TextReceived(st), NEW k \in 1..Len(events), NEW out \in HText!Effects(st, events[k])
    PROVE  /\ TextReceived(out)
           /\ \A s \in TextSource : TextFlow(out, s) =
                 IF events[k].source = s THEN Append(TextFlow(st, s), events[k].id) ELSE TextFlow(st, s)
<1> DEFINE e == events[k]
<1>1. e \in TextArrival
  BY DEF TextTypes
<1>2. "attached" \notin TextSource /\ "detached" \notin TextSource
  BY TextAssumption
<1>3. "discarded" \in TextCuts /\ "untimed" \in TextCuts /\ "discarded" # "expired" /\ "untimed" # "expired"
  BY DEF TextCuts
<1>4. ASSUME NEW given, TextReceived(given), NEW b \in BOOLEAN
      PROVE  /\ TextReceived([given EXCEPT !.timer = b])
             /\ \A s \in TextSource : TextFlow([given EXCEPT !.timer = b], s) = TextFlow(given, s)
  <2> DEFINE set == [given EXCEPT !.timer = b]
  <2>1. set \in TextGathered /\ set.merger.pending = given.merger.pending /\ set.sentences = given.sentences
    BY <1>4 DEF TextReceived, TextGathered
  <2> HIDE DEF set
  <2>2. TextReceived(set) /\ \A s \in TextSource : TextFlow(set, s) = TextFlow(given, s)
    BY <1>4, <2>1, TextRestKeeps
  <2> QED
    BY <2>2 DEF set
<1>5. CASE e.source = "attached"
  <2>1. out \in {[st EXCEPT !.timer = TRUE], st}
    BY <1>5 DEF HText!Effects
  <2>2. TextReceived(out) /\ \A s \in TextSource : TextFlow(out, s) = TextFlow(st, s)
    BY <1>4, <2>1
  <2> QED
    BY <1>2, <1>5, <2>2
<1>6. CASE e.source = "detached"
  <2>1. out = [HText!DrainAll(st, "discarded") EXCEPT !.timer = FALSE]
    BY <1>6 DEF HText!Effects
  <2>2. TextReceived(HText!DrainAll(st, "discarded"))
        /\ \A s \in TextSource : TextFlow(HText!DrainAll(st, "discarded"), s) = TextFlow(st, s)
    BY <1>3, TextDrainKeeps
  <2>3. TextReceived(out) /\ \A s \in TextSource : TextFlow(out, s) = TextFlow(st, s)
    BY <1>4, <2>1, <2>2
  <2> QED
    BY <1>2, <1>6, <2>3
<1>7. CASE e.source \notin {"attached", "detached"}
  <2>1. e \in TextEvent
    BY <1>1, <1>7 DEF TextArrival
  <2>2. out = IF st.timer THEN HText!SubmitAt(st, e) ELSE HText!DrainAll(HText!SubmitAt(st, e), "untimed")
    BY <1>7 DEF HText!Effects
  <2>3. /\ TextReceived(HText!SubmitAt(st, e))
        /\ \A s \in TextSource : TextFlow(HText!SubmitAt(st, e), s) =
              IF s = e.source THEN Append(TextFlow(st, s), e.id) ELSE TextFlow(st, s)
    BY <2>1, TextSubmitKeeps
  <2> DEFINE sub == HText!SubmitAt(st, e)
  <2> HIDE DEF sub
  <2>4. TextReceived(sub)
    BY <2>3 DEF sub
  <2>5. TextReceived(HText!DrainAll(sub, "untimed"))
        /\ \A s \in TextSource : TextFlow(HText!DrainAll(sub, "untimed"), s) = TextFlow(sub, s)
    BY <1>3, <2>4, TextDrainKeeps
  <2>6. TextReceived(out) /\ \A s \in TextSource : TextFlow(out, s) = TextFlow(sub, s)
    BY <2>2, <2>4, <2>5 DEF sub
  <2> QED
    BY <2>3, <2>6 DEF sub
<1> QED
  BY <1>5, <1>6, <1>7

TextAfterNext(after, k) == IF k = 0 THEN {HText!State} ELSE UNION {HText!Effects(st, events[k]) : st \in after[k - 1]}

LEMMA TextAfterExists ==
    ASSUME NEW m \in Nat
    PROVE  \E after : after = [k \in 0..m |-> TextAfterNext(after, k)]
<1> DEFINE Good(n) == \E after : after = [k \in 0..n |-> TextAfterNext(after, k)]
           S == {n \in Nat : Good(n)}
<1>1. 0 \in S
  <2> DEFINE f == [k \in 0..0 |-> {HText!State}]
  <2>1. f = [k \in 0..0 |-> TextAfterNext(f, k)]
    BY DEF TextAfterNext
  <2> QED
    BY <2>1
<1>2. ASSUME NEW n \in S PROVE n + 1 \in S
  <2>1. PICK f : f = [k \in 0..n |-> TextAfterNext(f, k)]
    OBVIOUS
  <2>2. \A k \in 0..n : f[k] = TextAfterNext(f, k)
    BY <2>1, Zenon
  <2> DEFINE g == [k \in 0..(n + 1) |-> IF k = n + 1 THEN TextAfterNext(f, k) ELSE f[k]]
  <2>3. ASSUME NEW k \in 0..(n + 1) PROVE g[k] = TextAfterNext(g, k)
    <3>1. CASE k = n + 1
      <4>1. g[k] = TextAfterNext(f, k) /\ g[k - 1] = f[k - 1]
        BY <3>1
      <4> HIDE DEF g
      <4> QED
        BY <4>1 DEF TextAfterNext
    <3>2. CASE k = 0
      <4>1. g[k] = f[k] /\ f[k] = TextAfterNext(f, k)
        BY <2>2, <3>2
      <4> HIDE DEF g
      <4> QED
        BY <3>2, <4>1 DEF TextAfterNext
    <3>3. CASE k \in 1..n
      <4>1. g[k] = f[k] /\ g[k - 1] = f[k - 1]
        BY <3>3
      <4>2. f[k] = TextAfterNext(f, k)
        BY <2>2, <3>3
      <4> HIDE DEF g
      <4> QED
        BY <4>1, <4>2, <3>3 DEF TextAfterNext
    <3> QED
      BY <3>1, <3>2, <3>3
  <2>4. g = [k \in 0..(n + 1) |-> TextAfterNext(g, k)]
    BY <2>3
  <2> HIDE DEF g
  <2>5. Good(n + 1)
    BY <2>4
  <2> QED
    BY <2>5
<1> HIDE DEF Good
<1>3. S = Nat
  BY <1>1, <1>2, SetInduction
<1>4. Good(m)
  BY <1>3
<1> QED
  BY <1>4 DEF Good

LEMMA TextFlowTyped ==
    ASSUME NEW st \in TextGathered, NEW s \in TextSource
    PROVE  TextFlow(st, s) \in Seq(TextPieceId)
<1>1. TextCollected(st, s) \in Seq(TextPiece) /\ TextGivenOut(st, s).ids \in Seq(TextPieceId)
  BY DEF TextGathered, TextMerger, TextGiven, TextCollected, TextGivenOut
<1>2. HText!Ids(TextCollected(st, s)) \in Seq(TextPieceId)
  BY <1>1, TextIdsAre, TextHaveIds
<1> QED
  BY <1>1, <1>2, ConcatProperties DEF TextFlow

\* The states after the first n events: what they bring is added to what was collected.
LEMMA TextAfterKeeps ==
    ASSUME TextInv, NEW n \in 0..Len(events), NEW out \in HText!AfterEvents(n)
    PROVE  /\ TextReceived(out)
           /\ \A s \in TextSource : TextFlow(out, s) =
                TextFlow(HText!State, s) \o HText!Ids(HText!OfSource(s, SubSeq(events, 1, n)))
<1> DEFINE Kept(st, k) == /\ TextReceived(st)
                          /\ \A s \in TextSource :
                                TextFlow(st, s) = TextFlow(HText!State, s) \o HText!Ids(HText!OfSource(s, SubSeq(events, 1, k)))
           f == CHOOSE after : after = [k \in 0..n |-> TextAfterNext(after, k)]
           N == {k \in Nat : k <= n => \A st \in f[k] : Kept(st, k)}
<1>0. n \in Nat /\ Len(events) \in Nat /\ events \in Seq(TextArrival)
      /\ events \in Seq(TextPassed) /\ HText!State \in TextGathered
      /\ TextTypes /\ TextReceived(HText!State)
  BY DEF TextInv, TextTypes, TextPassed, TextReceived
<1>1. f = [k \in 0..n |-> TextAfterNext(f, k)]
  BY <1>0, TextAfterExists
<1>2. HText!AfterEvents(n) = f[n]
  BY DEF HText!AfterEvents, TextAfterNext
<1> HIDE DEF f
<1>3. \A k \in 0..n : f[k] = TextAfterNext(f, k)
  BY <1>1, Zenon
<1>4. 0 \in N
  <2>1. f[0] = {HText!State}
    <3>1. 0 \in 0..n
      BY <1>0
    <3>2. f[0] = TextAfterNext(f, 0)
      BY <1>3, <3>1
    <3> QED
      BY <3>2 DEF TextAfterNext
  <2>2. Kept(HText!State, 0)
    <3>1. SubSeq(events, 1, 0) = << >>
      BY <1>0
    <3>2. HText!Ids(<< >>) = << >>
      BY DEF HText!Ids
    <3>3. ASSUME NEW s \in TextSource
          PROVE  TextFlow(HText!State, s) = TextFlow(HText!State, s) \o << >>
      BY <1>0, TextFlowTyped, ConcatEmptySeq
    <3> QED
      BY <1>0, <3>1, <3>2, <3>3, TextOfNone
  <2> HIDE DEF Kept
  <2> QED
    BY <2>1, <2>2
<1>5. ASSUME NEW k \in N PROVE k + 1 \in N
  <2> SUFFICES ASSUME k + 1 <= n, NEW st \in f[k + 1] PROVE Kept(st, k + 1)
    OBVIOUS
  <2>1. k \in Nat /\ k + 1 \in 0..n /\ k + 1 # 0 /\ (k + 1) - 1 = k /\ k + 1 \in 1..Len(events) /\ k <= n
    BY <1>0
  <2>2. f[k + 1] = UNION {HText!Effects(b, events[k + 1]) : b \in f[k]}
    BY <1>3, <2>1 DEF TextAfterNext
  <2>3. PICK b \in f[k] : st \in HText!Effects(b, events[k + 1])
    BY <2>2
  <2>4. Kept(b, k)
    BY <2>1, <2>3
  <2> HIDE DEF N
  <2> DEFINE e == events[k + 1]
             first == SubSeq(events, 1, k)
  <2>5. e \in TextArrival
    BY <1>0, <2>1
  <2>6. /\ TextReceived(st)
        /\ \A s \in TextSource : TextFlow(st, s) = IF e.source = s THEN Append(TextFlow(b, s), e.id) ELSE TextFlow(b, s)
    BY <1>0, <2>1, <2>3, <2>4, TextEffectKeeps
  <2>7. first \in Seq(TextPassed) /\ SubSeq(events, 1, k + 1) = Append(first, e)
    <3>1. \A i \in 1..k : events[i] \in TextPassed
      BY <1>0, <2>1
    <3>2. first \in Seq(TextPassed)
      BY <2>1, <3>1, SubSeqProperties
    <3>3. SubSeq(events, 1, k + 1) = Append(first, e)
      BY <1>0, <2>1
    <3> QED
      BY <3>2, <3>3
  <2> HIDE DEF e, first
  <2>8. ASSUME NEW s \in TextSource
        PROVE  TextFlow(st, s) = TextFlow(HText!State, s) \o HText!Ids(HText!OfSource(s, Append(first, e)))
    <3>1. HText!OfSource(s, Append(first, e)) =
            IF e.source = s THEN Append(HText!OfSource(s, first), e) ELSE HText!OfSource(s, first)
      BY <2>5, <2>7, TextOfOneMore DEF TextPassed
    <3>2. TextFlow(b, s) = TextFlow(HText!State, s) \o HText!Ids(HText!OfSource(s, first))
      BY <2>4 DEF first
    <3>3. CASE e.source = s
      <4>1. e \in TextEvent
        BY <2>5, <3>3, TextAssumption DEF TextArrival
      <4>2. HText!OfSource(s, first) \in Seq(TextEvent)
        BY <2>7, TextOfTyped
      <4>3. HText!Ids(Append(HText!OfSource(s, first), e)) = Append(HText!Ids(HText!OfSource(s, first)), e.id)
            /\ HText!Ids(HText!OfSource(s, first)) \in Seq(TextPieceId) /\ e.id \in TextPieceId
        BY <4>1, <4>2, TextIdsOneMore, TextIdsAre, TextHaveIds
      <4>4. TextFlow(HText!State, s) \in Seq(TextPieceId)
        BY <1>0, TextFlowTyped
      <4> DEFINE u == TextFlow(HText!State, s)
                 v == HText!Ids(HText!OfSource(s, first))
                 w == HText!Ids(HText!OfSource(s, Append(first, e)))
                 x == e.id
      <4>5. u \in Seq(TextPieceId) /\ v \in Seq(TextPieceId) /\ w = Append(v, x) /\ x \in TextPieceId
        BY <3>1, <3>3, <4>3, <4>4
      <4>6. TextFlow(st, s) = Append(u \o v, x)
        BY <2>6, <3>2, <3>3
      <4> HIDE DEF u, v, w, x
      <4>7. u \o w = Append(u \o v, x)
        BY <4>5, TextConcatOneMore
      <4> QED
        BY <4>6, <4>7 DEF u, w
    <3>4. CASE e.source # s
      BY <2>6, <3>1, <3>2, <3>4
    <3> QED
      BY <3>3, <3>4
  <2> QED
    BY <2>6, <2>7, <2>8
<1>6. N = Nat
  <2> HIDE DEF Kept
  <2> QED
    BY <1>4, <1>5, SetInduction
<1>7. n \in N
  BY <1>0, <1>6
<1> QED
  BY <1>0, <1>2, <1>7

-----------------------------------------------------------------------------
(* The steps                                                               *)

\* What a source has on its way: its texts in the queue and the one in hand.
LEMMA TextOfWay ==
    ASSUME NEW s \in TextSource, NEW q \in Seq(TextArrival), NEW h \in {HText!None} \cup TextEvent
    PROVE  /\ HText!OfSource(s, q) \in Seq(TextEvent)
           /\ HText!OfSource(s, Append(q, h)) \in Seq(TextEvent)
           /\ HText!OfSource(s, Append(q, h)) = IF h.source = s THEN Append(HText!OfSource(s, q), h) ELSE HText!OfSource(s, q)
<1>1. h \in TextPassed /\ q \in Seq(TextPassed)
  BY DEF TextPassed, TextArrival
<1>2. Append(q, h) \in Seq(TextPassed)
  BY <1>1, AppendProperties
<1> QED
  BY <1>1, <1>2, TextOfTyped, TextOfOneMore

\* An event that is no text adds to nothing.
LEMMA TextOfOther ==
    ASSUME NEW s \in TextSource, NEW q \in Seq(TextArrival), NEW e \in TextArrival, e.source # s
    PROVE  HText!OfSource(s, Append(q, e)) = HText!OfSource(s, q)
<1>1. e \in TextPassed /\ q \in Seq(TextPassed)
  BY DEF TextPassed
<1> QED
  BY <1>1, TextOfOneMore

LEMMA TextNoneIsNoText == \A s \in TextSource : HText!None.source # s
  BY TextAssumption DEF HText!None

\* What was given out of a window that ended stays so while texts come no earlier.
LEMMA TextEndedStays ==
    ASSUME TextTypes, NEW st \in TextGathered, TextEnded(st), lostTexts' = 0 => lostTexts = 0, now' \in Nat, now <= now',
           \A i \in 1..Len(events') : \/ events'[i] = session.hand \/ events'[i].source \notin TextSource
                                      \/ \E k \in 1..Len(events) : events'[i] = events[k],
           \/ session.hand' = session.hand \/ session.hand'.source \notin TextSource \/ session.hand'.at = now
    PROVE  lostTexts' = 0 =>
             \A s \in TextSource :
               LET end == TextGivenOut(st, s).last.at + TextGivenOut(st, s).last.window
               IN  TextGivenOut(st, s).last.cut = "expired" =>
                    /\ end <= now'
                    /\ \A i \in 1..Len(TextCollected(st, s)) : end <= TextCollected(st, s)[i].at
                    /\ \A i \in 1..Len(events') : events'[i].source = s => end <= events'[i].at
                    /\ session.hand'.source = s => end <= session.hand'.at
<1> SUFFICES ASSUME lostTexts' = 0, NEW s \in TextSource, TextGivenOut(st, s).last.cut = "expired"
             PROVE  LET end == TextGivenOut(st, s).last.at + TextGivenOut(st, s).last.window
                    IN  /\ end <= now'
                        /\ \A i \in 1..Len(TextCollected(st, s)) : end <= TextCollected(st, s)[i].at
                        /\ \A i \in 1..Len(events') : events'[i].source = s => end <= events'[i].at
                        /\ session.hand'.source = s => end <= session.hand'.at
  OBVIOUS
<1> DEFINE end == TextGivenOut(st, s).last.at + TextGivenOut(st, s).last.window
<1>1. end \in Nat
  <2>1. TextGivenOut(st, s).last \in TextCut
    BY DEF TextGathered, TextGiven, TextGivenOut
  <2> QED
    BY <2>1 DEF TextCut
<1>2. /\ end <= now /\ \A i \in 1..Len(TextCollected(st, s)) : end <= TextCollected(st, s)[i].at
      /\ \A i \in 1..Len(events) : events[i].source = s => end <= events[i].at
      /\ session.hand.source = s => end <= session.hand.at
  BY DEF TextEnded
<1>3. now \in Nat
  BY DEF TextTypes
<1> HIDE DEF end
<1>4. end <= now'
  BY <1>1, <1>2, <1>3
<1>5. ASSUME NEW i \in 1..Len(events'), events'[i].source = s PROVE end <= events'[i].at
  BY <1>2, <1>5
<1>6. session.hand'.source = s => end <= session.hand'.at
  BY <1>2, <1>3
<1> QED
  BY <1>2, <1>4, <1>5, <1>6 DEF end

LEMMA TextStarts == HText!Init => TextInv
<1> SUFFICES ASSUME HText!Init PROVE TextInv
  OBVIOUS
<1>1. PICK w \in TextWindows :
        merger = [window |-> w, pending |-> [s \in TextSource |-> HText!NoText], deadlines |-> {}, overLimit |-> {}]
  BY DEF HText!Init
<1>2. w \in Nat
  BY TextAssumption
<1>3. sentences = [s \in TextSource |-> [ids |-> << >>, last |-> HText!NoSentence]] /\ HText!NoSentence \in TextCut
  BY DEF HText!Init, HText!NoSentence, TextCut, TextCuts
<1>4. merger \in TextMerger
  <2>1. [s \in TextSource |-> HText!NoText] \in [TextSource -> Seq(TextPiece)]
    BY DEF HText!NoText
  <2> QED
    BY <1>1, <1>2, <2>1 DEF TextMerger
<1>5. sentences \in TextGiven
  BY <1>3 DEF TextGiven
<1>6. HText!State \in TextGathered
  BY <1>4, <1>5 DEF HText!State, TextGathered, HText!Init
<1>7. TextTypes
  <2>1. printed \in [TextSource -> Seq(TextPieceId)] /\ events \in Seq(TextArrival)
    BY DEF HText!Init
  <2>2. /\ session.lead = {} /\ session.on = FALSE /\ session.hand = HText!None
        /\ session = [on |-> session.on, lead |-> session.lead, hand |-> session.hand, count |-> session.count]
    BY DEF HText!Init
  <2>3. now = 0 /\ half = {} /\ announced = FALSE /\ lostTexts = 0
    BY DEF HText!Init
  <2> QED
    BY <1>6, <2>1, <2>2, <2>3 DEF TextTypes
<1>8. \A s \in TextSource : TextCollected(HText!State, s) = << >>
                            /\ TextGivenOut(HText!State, s) = [ids |-> << >>, last |-> HText!NoSentence]
  BY <1>1, <1>3 DEF TextCollected, TextGivenOut, HText!State, HText!NoText
<1>9. TextClose(HText!State) /\ TextEnded(HText!State)
  BY <1>8 DEF TextClose, TextEnded, HText!NoSentence
<1>10. ASSUME NEW s \in TextSource
       PROVE  TextFlow(HText!State, s) \o HText!Ids(HText!Texts(s)) = printed[s]
  <2>1. HText!Texts(s) = HText!OfSource(s, Append(<< >>, HText!None))
    BY DEF HText!Texts, HText!Init
  <2>2. HText!OfSource(s, Append(<< >>, HText!None)) = << >>
    <3>1. << >> \in Seq(TextArrival) /\ HText!None \in {HText!None} \cup TextEvent
      OBVIOUS
    <3>2. HText!OfSource(s, Append(<< >>, HText!None)) = HText!OfSource(s, << >>)
      BY <3>1, TextOfWay, TextNoneIsNoText
    <3> QED
      BY <3>2, TextOfNone
  <2>3. HText!Ids(<< >>) = << >> /\ printed[s] = << >>
    BY DEF HText!Ids, HText!Init
  <2>4. TextFlow(HText!State, s) = << >>
    BY <1>8, <2>3 DEF TextFlow
  <2> QED
    BY <2>1, <2>2, <2>3, <2>4
<1>11. events = << >>
  BY DEF HText!Init
<1> QED
  BY <1>7, <1>9, <1>10, <1>11 DEF TextInv

\* An event is queued.
LEMMA TextPushTyped ==
    ASSUME TextTypes, NEW event \in TextArrival, HText!Push(event)
    PROVE  /\ events' \in Seq(TextArrival) /\ events' = Append(events, event)
           /\ announced' \in BOOLEAN /\ lostTexts' \in Nat
           /\ (~announced' /\ lostTexts' = 0 => events' = << >>) /\ (lostTexts' = 0 => lostTexts = 0)
<1>1. events \in Seq(TextArrival) /\ lostTexts \in Nat /\ announced \in BOOLEAN
  BY DEF TextTypes
<1>2. events' = Append(events, event)
  BY DEF HText!Push
<1>3. \/ announced' = TRUE /\ lostTexts' = lostTexts
      \/ announced' = FALSE /\ lostTexts' = lostTexts + 1
  BY DEF HText!Push
<1>4. events' \in Seq(TextArrival)
  BY <1>1, <1>2, AppendProperties
<1>5. announced' \in BOOLEAN /\ lostTexts' \in Nat /\ (lostTexts' = 0 => lostTexts = 0)
      /\ ~(~announced' /\ lostTexts' = 0)
  <2>1. CASE announced' = TRUE /\ lostTexts' = lostTexts
    BY <1>1, <2>1
  <2>2. CASE announced' = FALSE /\ lostTexts' = lostTexts + 1
    <3>1. lostTexts' \in Nat /\ lostTexts' # 0
      BY <1>1, <2>2
    <3> QED
      BY <2>2, <3>1
  <2> QED
    BY <1>3, <2>1, <2>2
<1> QED
  BY <1>2, <1>4, <1>5

\* A session begins or ends.
LEMMA TextOtherKept ==
    ASSUME TextInv, NEW event \in [source : {"attached", "detached"}], HText!Push(event), TextTypes',
           session.hand = HText!None, session'.hand = HText!None, UNCHANGED <<now, printed, merger, timer, sentences>>
    PROVE  TextInv'
<1>1. HText!State' = HText!State /\ HText!State \in TextGathered /\ TextTypes
  BY DEF HText!State, TextInv, TextTypes
<1>2. events \in Seq(TextArrival) /\ event \in TextArrival /\ events' = Append(events, event) /\ event.source \notin TextSource
  BY TextAssumption DEF TextInv, TextTypes, HText!Push, TextArrival
<1>3. ~announced' /\ lostTexts' = 0 => events' = << >>
  BY DEF HText!Push, TextInv, TextTypes
<1>4. ASSUME NEW s \in TextSource
      PROVE  TextFlow(HText!State', s) \o HText!Ids(HText!Texts(s)') = printed'[s]
  <2>1. HText!Texts(s) = HText!OfSource(s, Append(events, HText!None))
        /\ HText!Texts(s)' = HText!OfSource(s, Append(events', HText!None))
    BY DEF HText!Texts
  <2>2. events' \in Seq(TextArrival) /\ HText!None \in {HText!None} \cup TextEvent
    BY DEF TextTypes
  <2>3. HText!Texts(s) = HText!OfSource(s, events) /\ HText!Texts(s)' = HText!OfSource(s, events')
    BY <1>2, <2>1, <2>2, TextOfWay, TextNoneIsNoText
  <2>4. HText!OfSource(s, events') = HText!OfSource(s, events)
    BY <1>2, TextOfOther
  <2> QED
    BY <1>1, <2>3, <2>4 DEF TextInv
<1>5. TextClose(HText!State')
  BY <1>1 DEF TextInv
<1>6. TextEnded(HText!State)'
  <2>1. \A i \in 1..Len(events') : events'[i].source \notin TextSource \/ \E k \in 1..Len(events) : events'[i] = events[k]
    BY <1>2
  <2>2. lostTexts' = 0 => lostTexts = 0
    BY <1>1 DEF HText!Push, TextTypes
  <2>3. now' = now /\ now \in Nat
    BY DEF TextInv, TextTypes
  <2>4. TextEnded(HText!State)
    BY DEF TextInv
  <2>5. session.hand' = session.hand
    OBVIOUS
  <2> QED
    BY <1>1, <2>1, <2>2, <2>3, <2>4, <2>5, TextEndedStays DEF TextEnded
<1> QED
  BY <1>3, <1>4, <1>5, <1>6 DEF TextInv

LEMMA TextAttachKept == ASSUME TextInv, HText!Attach PROVE TextInv'
<1>1. session.hand = HText!None /\ session'.hand = HText!None
  BY DEF TextInv, TextTypes, HText!Attach
<1>2. [source |-> "attached"] \in [source : {"attached", "detached"}] /\ HText!Push([source |-> "attached"])
  BY DEF HText!Attach
<1>3. events' \in Seq(TextArrival) /\ announced' \in BOOLEAN /\ lostTexts' \in Nat
  BY <1>2, TextPushTyped DEF TextInv, TextArrival
<1>4. HText!State' = HText!State
  BY DEF HText!Attach, HText!State
<1>5. TextTypes'
  BY <1>1, <1>3, <1>4 DEF TextInv, TextTypes, HText!Attach
<1> QED
  BY <1>1, <1>2, <1>5, TextOtherKept DEF HText!Attach

LEMMA TextDetachKept == ASSUME TextInv, HText!Detach PROVE TextInv'
<1>1. session.hand = HText!None /\ session'.hand = HText!None
  BY DEF TextInv, TextTypes, HText!Detach
<1>2. [source |-> "detached"] \in [source : {"attached", "detached"}] /\ HText!Push([source |-> "detached"])
  BY DEF HText!Detach
<1>3. events' \in Seq(TextArrival) /\ announced' \in BOOLEAN /\ lostTexts' \in Nat
  BY <1>2, TextPushTyped DEF TextInv, TextArrival
<1>4. HText!State' = HText!State
  BY DEF HText!Detach, HText!State
<1>5. TextTypes'
  BY <1>1, <1>3, <1>4 DEF TextInv, TextTypes, HText!Detach
<1> QED
  BY <1>1, <1>2, <1>5, TextOtherKept DEF HText!Detach

\* The text in hand is queued: it is still on its way, after those before it.
LEMMA TextQueueTextKept == ASSUME TextInv, HText!QueueText PROVE TextInv'
<1> DEFINE h == session.hand
<1>1. /\ h \in TextEvent /\ session.hand' = HText!None /\ events' = Append(events, h)
      /\ session' = [session EXCEPT !.hand = HText!None]
  BY DEF TextInv, TextTypes, HText!QueueText, HText!Push
<1>2. UNCHANGED <<now, printed, half, merger, changes, timer, sentences>>
  BY DEF HText!QueueText
<1>3. HText!State' = HText!State /\ HText!State \in TextGathered /\ TextTypes
  BY <1>2 DEF HText!State, TextInv, TextTypes
<1>4. h \in TextArrival /\ events \in Seq(TextArrival)
  BY <1>1 DEF TextInv, TextTypes, TextArrival
<1>5. events' \in Seq(TextArrival)
  BY <1>1, <1>4, AppendProperties
<1>6. announced' \in BOOLEAN /\ lostTexts' \in Nat /\ (~announced' /\ lostTexts' = 0 => events' = << >>)
      /\ (lostTexts' = 0 => lostTexts = 0)
  <2>1. HText!Push(h)
    BY DEF HText!QueueText
  <2> HIDE DEF h
  <2> QED
    BY <1>3, <1>4, <2>1, TextPushTyped
<1>7. TextTypes'
  BY <1>1, <1>2, <1>3, <1>5, <1>6 DEF TextTypes
<1>8. ASSUME NEW s \in TextSource
      PROVE  TextFlow(HText!State', s) \o HText!Ids(HText!Texts(s)') = printed'[s]
  <2>1. HText!Texts(s) = HText!OfSource(s, Append(events, h)) /\ HText!Texts(s)' = HText!OfSource(s, Append(events', HText!None))
    BY <1>1 DEF HText!Texts
  <2>2. HText!None \in {HText!None} \cup TextEvent
    OBVIOUS
  <2>3. HText!Texts(s)' = HText!OfSource(s, events')
    BY <1>5, <2>1, <2>2, TextOfWay, TextNoneIsNoText
  <2> QED
    BY <1>1, <1>2, <1>3, <2>1, <2>3 DEF TextInv
<1>9. TextClose(HText!State')
  BY <1>3 DEF TextInv
<1>10. TextEnded(HText!State)'
  <2>1. \A i \in 1..Len(events') : events'[i] = session.hand \/ \E k \in 1..Len(events) : events'[i] = events[k]
    <3> HIDE DEF h
    <3>1. \A i \in 1..Len(events') : events'[i] = h \/ \E k \in 1..Len(events) : events'[i] = events[k]
      BY <1>1, <1>4
    <3> QED
      BY <3>1 DEF h
  <2>2. now' = now /\ now \in Nat /\ TextEnded(HText!State)
    BY <1>2 DEF TextInv, TextTypes
  <2>3. session.hand'.source \notin TextSource
    BY <1>1, TextNoneIsNoText
  <2> QED
    BY <1>3, <1>6, <2>1, <2>2, <2>3, TextEndedStays DEF TextEnded
<1> QED
  BY <1>6, <1>7, <1>8, <1>9, <1>10 DEF TextInv

\* A byte is printed: the first one of a character is kept, anything else is one more text.
LEMMA TextPrintKept == ASSUME TextInv, NEW s \in TextSource, HText!PrintByte(s) PROVE TextInv'
<1>1. TextTypes /\ HText!State \in TextGathered /\ session.hand = HText!None /\ session.on
  BY DEF TextInv, TextTypes, HText!PrintByte
<1>2. UNCHANGED <<now, events, announced, lostTexts, merger, changes, timer, sentences>>
  BY DEF HText!PrintByte
<1>3. HText!State' = HText!State
  BY <1>2 DEF HText!State
<1>4. PICK byte \in IF s \in half THEN {"second"} ELSE {"whole", "first"} : HText!Decoded(s, byte)
  BY DEF HText!PrintByte
<1>5. session.lead = half /\ half \subseteq TextSource /\ now \in Nat /\ printed \in [TextSource -> Seq(TextPieceId)]
      /\ session = [on |-> session.on, lead |-> session.lead, hand |-> session.hand, count |-> session.count]
  BY <1>1 DEF TextTypes
<1>6. HText!LeadIsKept(s, byte) <=> byte = "first"
  BY <1>4, <1>5 DEF HText!LeadIsKept
<1>7. HText!NextPiece(s) \in TextPieceId
  <2>1. printed[s] \in Seq(TextPieceId)
    BY <1>5
  <2>2. Len(printed[s]) + 1 \in Nat
    BY <2>1
  <2> QED
    BY <2>2 DEF HText!NextPiece, TextPieceId
<1>8. CASE byte = "first"
  <2>1. session'.hand = HText!None /\ printed' = printed /\ half' = half \cup {s} /\ session'.on = session.on
        /\ session'.lead = half \cup {s}
        /\ session' = [on |-> session'.on, lead |-> session'.lead, hand |-> session'.hand, count |-> session'.count]
    BY <1>1, <1>4, <1>5, <1>6, <1>8 DEF HText!Decoded
  <2>2. TextTypes'
    BY <1>1, <1>2, <1>3, <2>1 DEF TextTypes
  <2>3. \A r \in TextSource : HText!Texts(r)' = HText!Texts(r)
    BY <1>1, <1>2, <2>1 DEF HText!Texts
  <2>4. TextEnded(HText!State)'
    BY <1>1, <1>2, <1>3, <2>1 DEF TextEnded, TextInv
  <2> QED
    BY <1>2, <1>3, <2>1, <2>2, <2>3, <2>4 DEF TextInv
<1>9. CASE byte # "first"
  <2> DEFINE h == [source |-> s, at |-> now, id |-> HText!NextPiece(s), broken |-> FALSE]
  <2>1. /\ session' = [session EXCEPT !.lead = @ \ {s}, !.hand = h]
        /\ printed' = [printed EXCEPT ![s] = Append(@, HText!NextPiece(s))] /\ half' = half \ {s}
    BY <1>4, <1>5, <1>6, <1>9 DEF HText!Decoded
  <2>2. h \in TextEvent
    BY <1>5, <1>7 DEF TextEvent
  <2>3. h.at = now /\ h.source = s /\ h.id = HText!NextPiece(s)
    OBVIOUS
  <2> HIDE DEF h
  <2>4. session'.hand = h /\ session'.on = session.on /\ session'.lead = half \ {s}
        /\ session' = [on |-> session'.on, lead |-> session'.lead, hand |-> session'.hand, count |-> session'.count]
    BY <1>5, <2>1
  <2>5. printed' \in [TextSource -> Seq(TextPieceId)]
    BY <1>5, <1>7, <2>1
  <2>6. TextTypes'
    <3>1. session'.hand \in {HText!None} \cup TextEvent /\ (session'.hand # HText!None => session'.on /\ session'.hand.at <= now)
      BY <1>1, <1>5, <2>2, <2>3, <2>4
    <3>2. half' \subseteq TextSource /\ session'.lead = half' /\ session'.on \in BOOLEAN
      BY <1>1, <1>5, <2>1, <2>4 DEF TextTypes
    <3>3. now \in Nat /\ events \in Seq(TextArrival) /\ announced \in BOOLEAN /\ lostTexts \in Nat
      BY <1>1 DEF TextTypes
    <3> QED
      BY <1>1, <1>2, <1>3, <2>4, <2>5, <3>1, <3>2, <3>3 DEF TextTypes
  <2>7. ASSUME NEW r \in TextSource
        PROVE  TextFlow(HText!State', r) \o HText!Ids(HText!Texts(r)') = printed'[r]
    <3>1. HText!Texts(r) = HText!OfSource(r, Append(events, HText!None)) /\ HText!Texts(r)' = HText!OfSource(r, Append(events, h))
      BY <1>1, <1>2, <2>4 DEF HText!Texts
    <3>2. events \in Seq(TextArrival) /\ HText!None \in {HText!None} \cup TextEvent /\ h \in {HText!None} \cup TextEvent
      BY <1>1, <2>2 DEF TextTypes
    <3>3. HText!Texts(r) = HText!OfSource(r, events) /\ HText!Texts(r) \in Seq(TextEvent)
      BY <3>1, <3>2, TextOfWay, TextNoneIsNoText
    <3>4. HText!Texts(r)' = IF r = s THEN Append(HText!Texts(r), h) ELSE HText!Texts(r)
      BY <2>3, <3>1, <3>2, <3>3, TextOfWay
    <3>5. TextFlow(HText!State, r) \o HText!Ids(HText!Texts(r)) = printed[r]
      BY DEF TextInv
    <3>6. CASE r = s
      <4> DEFINE u == TextFlow(HText!State, r)
                 v == HText!Ids(HText!Texts(r))
                 w == HText!Ids(Append(HText!Texts(r), h))
                 x == h.id
      <4>1. u \in Seq(TextPieceId)
        BY <1>1, TextFlowTyped
      <4>2. v \in Seq(TextPieceId) /\ w = Append(v, x) /\ x \in TextPieceId
        BY <2>2, <3>3, TextIdsOneMore, TextIdsAre, TextHaveIds
      <4>3. printed'[r] = Append(printed[r], x)
        BY <1>5, <2>1, <2>3, <3>6
      <4>4. TextFlow(HText!State', r) \o HText!Ids(HText!Texts(r)') = u \o w
        BY <1>3, <3>4, <3>6
      <4>5. u \o v = printed[r]
        BY <3>5
      <4> HIDE DEF u, v, w, x
      <4>6. u \o w = Append(u \o v, x)
        BY <4>1, <4>2, TextConcatOneMore
      <4> QED
        BY <4>3, <4>4, <4>5, <4>6
    <3>7. CASE r # s
      <4>1. printed'[r] = printed[r]
        BY <1>5, <2>1, <3>7
      <4> QED
        BY <1>3, <3>4, <3>5, <3>7, <4>1
    <3> QED
      BY <3>6, <3>7
  <2>8. TextEnded(HText!State)'
    <3>1. \A i \in 1..Len(events') : \E k \in 1..Len(events) : events'[i] = events[k]
      BY <1>2
    <3>2. now' = now /\ lostTexts' = lostTexts /\ session.hand'.at = now /\ TextEnded(HText!State)
      BY <1>2, <2>3, <2>4 DEF TextInv
    <3> QED
      BY <1>1, <1>3, <1>5, <3>1, <3>2, TextEndedStays DEF TextEnded
  <2> QED
    BY <1>2, <1>3, <2>6, <2>7, <2>8 DEF TextInv
<1> QED
  BY <1>8, <1>9

\* A batch is taken from the queue.
LEMMA TextHandleKept == ASSUME TextInv, HText!HandleEvents PROVE TextInv'
<1> DEFINE n == IF Len(events) < TextBatch THEN Len(events) ELSE TextBatch
           rest == SubSeq(events, n + 1, Len(events))
           first == SubSeq(events, 1, n)
<1>1. TextTypes /\ HText!State \in TextGathered /\ events \in Seq(TextArrival) /\ Len(events) \in Nat /\ n \in 0..Len(events)
  BY TextAssumption DEF TextInv, TextTypes
<1>2. PICK st \in HText!AfterEvents(n) : merger' = st.merger /\ sentences' = st.sentences /\ timer' = st.timer
  BY DEF HText!HandleEvents
<1>3. events' = rest /\ announced' = (rest # << >>) /\ UNCHANGED <<now, printed, half, session, lostTexts, changes>>
  BY DEF HText!HandleEvents
<1> HIDE DEF n
<1>4. TextReceived(st) /\ \A s \in TextSource : TextFlow(st, s) = TextFlow(HText!State, s) \o HText!Ids(HText!OfSource(s, first))
  BY <1>1, <1>2, TextAfterKeeps
<1>5. HText!State' = st /\ st \in TextGathered
  BY <1>2, <1>4 DEF HText!State, TextReceived, TextGathered
<1>6. /\ first \in Seq(TextArrival) /\ rest \in Seq(TextArrival) /\ events = first \o rest
      /\ \A i \in 1..Len(rest) : \E k \in 1..Len(events) : rest[i] = events[k]
  <2>1. /\ first \in Seq(TextArrival) /\ Len(first) = n /\ \A i \in 1..n : first[i] = events[i]
    <3>1. \A i \in 1..n : events[i] \in TextArrival
      BY <1>1
    <3> QED
      BY <1>1, <3>1, SubSeqProperties
  <2>2. /\ rest \in Seq(TextArrival) /\ Len(rest) = Len(events) - n
        /\ \A i \in 1..(Len(events) - n) : rest[i] = events[n + i]
    <3>1. \A i \in (n + 1)..Len(events) : events[i] \in TextArrival
      BY <1>1
    <3> QED
      BY <1>1, <3>1, SubSeqProperties
  <2> HIDE DEF first, rest
  <2>3. events = first \o rest
    <3>1. first \o rest \in Seq(TextArrival) /\ Len(first \o rest) = Len(events)
      <4>1. first \o rest \in Seq(TextArrival) /\ Len(first \o rest) = Len(first) + Len(rest)
        BY <2>1, <2>2, ConcatProperties
      <4> QED
        BY <1>1, <2>1, <2>2, <4>1
    <3>2. \A i \in 1..Len(events) : events[i] = (first \o rest)[i]
      <4> TAKE i \in 1..Len(events)
      <4>1. (first \o rest)[i] = IF i <= Len(first) THEN first[i] ELSE rest[i - Len(first)]
        <5>1. i \in 1..(Len(first) + Len(rest))
          BY <1>1, <2>1, <2>2
        <5>2. first \in Seq(TextArrival) /\ rest \in Seq(TextArrival)
          BY <2>1, <2>2
        <5> QED
          BY <5>1, <5>2, ConcatProperties
      <4>2. CASE i <= n
        <5>1. i \in 1..n /\ i <= Len(first)
          BY <1>1, <2>1, <4>2
        <5> QED
          BY <2>1, <4>1, <5>1
      <4>3. CASE ~(i <= n)
        <5> DEFINE k == i - Len(first)
        <5>1. k \in 1..(Len(events) - n) /\ n + k = i /\ ~(i <= Len(first))
          BY <1>1, <2>1, <4>3
        <5>2. (first \o rest)[i] = rest[k]
          BY <4>1, <5>1
        <5> HIDE DEF k
        <5> QED
          BY <2>2, <5>1, <5>2
      <4> QED
        BY <4>2, <4>3
    <3> QED
      BY <1>1, <3>1, <3>2, SeqEqual
  <2>4. \A i \in 1..Len(rest) : n + i \in 1..Len(events) /\ rest[i] = events[n + i]
    BY <1>1, <2>2
  <2> QED
    BY <2>1, <2>2, <2>3, <2>4
<1> HIDE DEF rest, first
<1>7. TextTypes'
  BY <1>1, <1>3, <1>5, <1>6 DEF TextTypes
<1>8. ASSUME NEW s \in TextSource
      PROVE  TextFlow(HText!State', s) \o HText!Ids(HText!Texts(s)') = printed'[s]
  <2> DEFINE h == session.hand
             a == HText!OfSource(s, first)
             b == HText!OfSource(s, Append(rest, h))
             u == TextFlow(HText!State, s)
  <2>1. h \in TextPassed /\ first \in Seq(TextPassed) /\ rest \in Seq(TextPassed)
    BY <1>1, <1>6 DEF TextTypes, TextPassed, TextArrival
  <2>2. Append(rest, h) \in Seq(TextPassed) /\ first \o Append(rest, h) = Append(events, h)
    BY <1>6, <2>1, AppendProperties, TextConcatOneMore
  <2>3. HText!Texts(s) = a \o b
    BY <2>1, <2>2, TextOfBoth DEF HText!Texts
  <2>4. HText!Texts(s)' = b
    BY <1>3 DEF HText!Texts
  <2>5. a \in Seq(TextEvent) /\ b \in Seq(TextEvent)
    BY <2>1, <2>2, TextOfTyped
  <2>6. u \o HText!Ids(a \o b) = printed[s]
    BY <2>3 DEF TextInv
  <2>7. TextFlow(HText!State', s) = u \o HText!Ids(a)
    BY <1>4, <1>5
  <2>8. u \in Seq(TextPieceId)
    BY <1>1, TextFlowTyped
  <2> HIDE DEF a, b, u
  <2>9. HText!Ids(a \o b) = HText!Ids(a) \o HText!Ids(b) /\ HText!Ids(a) \in Seq(TextPieceId) /\ HText!Ids(b) \in Seq(TextPieceId)
    BY <2>5, TextIdsBoth, TextIdsAre, TextHaveIds
  <2>10. (u \o HText!Ids(a)) \o HText!Ids(b) = u \o (HText!Ids(a) \o HText!Ids(b))
    BY <2>8, <2>9, ConcatAssociative
  <2> QED
    BY <1>3, <2>4, <2>6, <2>7, <2>9, <2>10
<1>9. TextClose(HText!State')
  BY <1>4, <1>5 DEF TextReceived
<1>10. TextEnded(HText!State)'
  <2>1. now' = now /\ now \in Nat /\ lostTexts' = lostTexts /\ session.hand' = session.hand /\ TextEnded(st)
    BY <1>1, <1>3, <1>4 DEF TextTypes, TextReceived
  <2>2. \A i \in 1..Len(events') : \E k \in 1..Len(events) : events'[i] = events[k]
    BY <1>3, <1>6
  <2> QED
    BY <1>1, <1>5, <2>1, <2>2, TextEndedStays DEF TextEnded
<1> QED
  BY <1>3, <1>7, <1>8, <1>9, <1>10 DEF TextInv

\* A step that leaves the queue, the text in hand and the clock alone.
LEMMA TextUiKept ==
    ASSUME TextInv, NEW st, TextReceived(st), \A s \in TextSource : TextFlow(st, s) = TextFlow(HText!State, s), HText!State' = st,
           announced' \in BOOLEAN, ~announced' /\ lostTexts = 0 => events = << >>,
           UNCHANGED <<now, printed, half, session, events, lostTexts>>
    PROVE  TextInv'
<1>1. TextTypes /\ st \in TextGathered
  BY DEF TextInv, TextReceived
<1>2. TextTypes'
  BY <1>1 DEF TextTypes
<1>3. \A s \in TextSource : HText!Texts(s)' = HText!Texts(s)
  BY DEF HText!Texts
<1>4. \A s \in TextSource : TextFlow(HText!State', s) \o HText!Ids(HText!Texts(s)') = printed'[s]
  BY <1>3 DEF TextInv
<1>5. TextClose(HText!State') /\ TextEnded(HText!State)'
  BY DEF TextReceived, TextEnded
<1> QED
  BY <1>2, <1>4, <1>5 DEF TextInv

\* A tick: of its own, when nothing is announced, or one that was put aside.
LEMMA TextTickKept ==
    ASSUME TextInv, NEW cut \in {"expired", "replayed"}, HText!Tick(cut), cut = "expired" /\ lostTexts = 0 => events = << >>
    PROVE  TextInv'
<1> DEFINE st == HText!FlushExpired(HText!State, cut)
<1>1. TextTypes /\ TextReceived(HText!State)
  BY DEF TextInv, TextReceived, TextTypes
<1>2. TextReceived(st) /\ st.timer = HText!State.timer /\ \A s \in TextSource : TextFlow(st, s) = TextFlow(HText!State, s)
  BY <1>1, TextFlushKeeps
<1>3. st.timer = timer
  BY <1>2 DEF HText!State
<1>4. HText!State' = st
  <2>1. merger' = st.merger /\ sentences' = st.sentences /\ timer' = timer
    BY DEF HText!Tick
  <2> HIDE DEF st
  <2> QED
    BY <1>2, <1>3, <2>1 DEF HText!State, TextReceived, TextGathered
<1> HIDE DEF st
<1>5. announced' \in BOOLEAN /\ (~announced' /\ lostTexts = 0 => events = << >>)
      /\ UNCHANGED <<now, printed, half, session, events, lostTexts>>
  BY DEF HText!Tick, TextInv, TextTypes
<1> QED
  BY <1>2, <1>4, <1>5, TextUiKept

LEMMA TextMergeTickKept == ASSUME TextInv, HText!MergeTick PROVE TextInv'
<1>1. HText!Tick("expired") /\ (lostTexts = 0 => events = << >>)
  BY DEF HText!MergeTick, TextInv
<1> QED
  BY <1>1, TextTickKept

LEMMA TextReplayTickKept == ASSUME TextInv, HText!ReplayTick PROVE TextInv'
<1> DEFINE cut == IF events = << >> THEN "expired" ELSE "replayed"
<1>1. HText!Tick(cut) /\ cut \in {"expired", "replayed"} /\ (cut = "expired" => events = << >>)
  BY DEF HText!ReplayTick
<1> HIDE DEF cut
<1> QED
  BY <1>1, TextTickKept

LEMMA TextSetWindowKept == ASSUME TextInv, NEW w \in TextWindows, HText!SetWindow(w) PROVE TextInv'
<1> DEFINE st == [HText!State EXCEPT !.merger = [merger EXCEPT !.window = w, !.deadlines = HText!Deadlines(merger, w)]]
<1>1. TextTypes /\ TextReceived(HText!State) /\ HText!State \in TextGathered /\ merger \in TextMerger
  BY DEF TextInv, TextReceived, TextTypes, HText!State, TextGathered
<1>2. HText!Deadlines(merger, w) \in SUBSET (Nat \X TextSource)
  <2>1. ASSUME NEW s \in TextSource, merger.pending[s] # HText!NoText
        PROVE  <<HText!Last(merger.pending[s]).at + w, s>> \in Nat \X TextSource
    <3> DEFINE q == merger.pending[s]
    <3>1. q \in Seq(TextPiece) /\ q # << >> /\ w \in Nat
      BY <1>1, <2>1, TextAssumption DEF TextMerger, HText!NoText
    <3> HIDE DEF q
    <3>2. Len(q) \in 1..Len(q)
      BY <3>1, EmptySeq
    <3>3. q[Len(q)] \in TextPiece
      BY <3>1, <3>2
    <3>4. HText!Last(q).at \in Nat
      BY <3>3 DEF HText!Last, TextPiece
    <3> QED
      BY <3>1, <3>4 DEF q
  <2> QED
    BY <2>1 DEF HText!Deadlines
<1>3. st \in TextGathered /\ st.merger.pending = HText!State.merger.pending /\ st.sentences = HText!State.sentences
  BY <1>1, <1>2, TextAssumption DEF TextGathered, TextMerger, HText!State
<1>4. HText!State' = st
  BY DEF HText!SetWindow, HText!State
<1> HIDE DEF st
<1>5. TextReceived(st) /\ \A s \in TextSource : TextFlow(st, s) = TextFlow(HText!State, s)
  BY <1>1, <1>3, TextRestKeeps
<1>6. announced' \in BOOLEAN /\ (~announced' /\ lostTexts = 0 => events = << >>)
      /\ UNCHANGED <<now, printed, half, session, events, lostTexts>>
  BY DEF HText!SetWindow, TextInv, TextTypes
<1> QED
  BY <1>4, <1>5, <1>6, TextUiKept

LEMMA TextPassKept == ASSUME TextInv, HText!Pass PROVE TextInv'
<1>1. TextTypes /\ HText!State \in TextGathered /\ TextEnded(HText!State) /\ now \in Nat /\ now' = now + 1
  BY DEF TextInv, TextTypes, HText!Pass
<1>2. UNCHANGED <<printed, half, session, events, announced, lostTexts, merger, changes, timer, sentences>>
  BY DEF HText!Pass
<1>3. HText!State' = HText!State
  BY <1>2 DEF HText!State
<1>4. session.hand # HText!None => session.hand \in TextEvent /\ session.hand.at <= now
  BY <1>1 DEF TextTypes
<1>5. TextTypes'
  <2>1. session.hand # HText!None => session.hand.at <= now'
    <3>1. session.hand # HText!None => session.hand.at \in Nat
      BY <1>4 DEF TextEvent
    <3> QED
      BY <1>1, <1>4, <3>1
  <2>2. now' \in Nat
    BY <1>1
  <2> QED
    BY <1>1, <1>2, <1>3, <2>1, <2>2 DEF TextTypes
<1>6. \A s \in TextSource : HText!Texts(s)' = HText!Texts(s)
  BY <1>2 DEF HText!Texts
<1>7. TextEnded(HText!State)'
  <2>1. \A i \in 1..Len(events') : \E k \in 1..Len(events) : events'[i] = events[k]
    BY <1>2
  <2>2. now' \in Nat /\ now <= now' /\ lostTexts' = lostTexts /\ session.hand' = session.hand
    BY <1>1, <1>2
  <2> QED
    BY <1>1, <1>3, <2>1, <2>2, TextEndedStays DEF TextEnded
<1> QED
  BY <1>2, <1>3, <1>5, <1>6, <1>7 DEF TextInv

\* A step that touches none of it.
LEMMA TextNothingKept ==
    ASSUME TextInv, UNCHANGED <<now, printed, half, session, events, announced, lostTexts, merger, timer, sentences>>
    PROVE  TextInv'
<1>1. HText!State' = HText!State /\ \A s \in TextSource : HText!Texts(s)' = HText!Texts(s)
  BY DEF HText!State, HText!Texts
<1> QED
  BY <1>1 DEF TextInv, TextTypes, TextEnded

LEMMA TextStep == TextInv /\ [HText!Next]_HText!vars => TextInv'
<1> SUFFICES ASSUME TextInv, [HText!Next]_HText!vars PROVE TextInv'
  OBVIOUS
<1>1. CASE UNCHANGED HText!vars
  BY <1>1, TextNothingKept DEF HText!vars
<1>2. CASE HText!Session
  BY <1>2, TextAttachKept, TextDetachKept, TextQueueTextKept, TextPrintKept DEF HText!Session
<1>3. CASE HText!Ui
  BY <1>3, TextHandleKept, TextMergeTickKept, TextReplayTickKept DEF HText!Ui, HText!HandleHookState, HText!ReplayState
<1>4. CASE HText!Waits
  BY <1>4, TextNothingKept
     DEF HText!Waits, HText!BeginWait, HText!EndWait, HText!DeferState, HText!DeferTick, HText!PutAside
<1> QED
  BY <1>1, <1>2, <1>3, <1>4, TextSetWindowKept, TextPassKept DEF HText!Next

\* It gives what is asked of the texts.
LEMMA TextImplied == TextInv => HText!TextsInOrder /\ HText!SentencesFollowReceipt
<1> SUFFICES ASSUME TextInv PROVE HText!TextsInOrder /\ HText!SentencesFollowReceipt
  OBVIOUS
<1>1. ASSUME NEW s \in TextSource
      PROVE  /\ sentences[s].ids \o HText!Ids(merger.pending[s] \o HText!Texts(s)) = printed[s]
             /\ \A i \in DOMAIN HText!Texts(s) : ~HText!Texts(s)[i].broken
  <2>1. events \in Seq(TextArrival) /\ session.hand \in {HText!None} \cup TextEvent /\ HText!State \in TextGathered
    BY DEF TextInv, TextTypes
  <2>2. HText!Texts(s) \in Seq(TextEvent)
    BY <2>1, TextOfWay DEF HText!Texts
  <2>3. merger.pending[s] \in Seq(TextPiece) /\ sentences[s].ids \in Seq(TextPieceId)
    BY <2>1 DEF HText!State, TextGathered, TextMerger, TextGiven
  <2>4. TextFlow(HText!State, s) = sentences[s].ids \o HText!Ids(merger.pending[s])
    BY DEF TextFlow, TextGivenOut, TextCollected, HText!State
  <2> DEFINE g == sentences[s].ids
             c == merger.pending[s]
             q == HText!Texts(s)
  <2>5. (g \o HText!Ids(c)) \o HText!Ids(q) = printed[s]
    BY <2>4 DEF TextInv
  <2>6. c \in Seq(TextPiece) /\ q \in Seq(TextEvent) /\ g \in Seq(TextPieceId)
    BY <2>2, <2>3
  <2> HIDE DEF g, c, q
  <2>7. HText!Ids(c \o q) = HText!Ids(c) \o HText!Ids(q) /\ HText!Ids(c) \in Seq(TextPieceId) /\ HText!Ids(q) \in Seq(TextPieceId)
    BY <2>6, TextIdsBoth, TextIdsAre, TextHaveIds
  <2>8. (g \o HText!Ids(c)) \o HText!Ids(q) = g \o (HText!Ids(c) \o HText!Ids(q))
    BY <2>6, <2>7, ConcatAssociative
  <2>9. g \o HText!Ids(c \o q) = printed[s]
    BY <2>5, <2>7, <2>8
  <2>10. \A i \in DOMAIN q : q[i] \in TextEvent
    BY <2>6
  <2>11. \A i \in DOMAIN q : ~q[i].broken
    BY <2>10 DEF TextEvent
  <2> QED
    BY <2>9, <2>11 DEF g, c, q
<1>2. ASSUME NEW s \in TextSource
      PROVE  LET pieces == merger.pending[s]  last == sentences[s].last
             IN  /\ \A i \in 2..Len(pieces) :
                        pieces[i].window = 0 \/ pieces[i].at < pieces[i - 1].at + pieces[i].window
                 /\ pieces # HText!NoText /\ last.cut = "expired" /\ lostTexts = 0 =>
                        Head(pieces).at >= last.at + last.window
  <2>1. TextCollected(HText!State, s) = merger.pending[s] /\ TextGivenOut(HText!State, s) = sentences[s]
    BY DEF TextCollected, TextGivenOut, HText!State
  <2>2. merger.pending[s] \in Seq(TextPiece) /\ sentences[s].last \in TextCut
    BY DEF TextInv, TextTypes, HText!State, TextGathered, TextMerger, TextGiven
  <2> DEFINE pieces == merger.pending[s]
             last == sentences[s].last
  <2>3. \A i \in 2..Len(pieces) : pieces[i].window = 0 \/ pieces[i].at < pieces[i - 1].at + pieces[i].window
    BY <2>1 DEF TextInv, TextClose
  <2>4. lostTexts = 0 /\ last.cut = "expired" => \A i \in 1..Len(pieces) : last.at + last.window <= pieces[i].at
    BY <2>1 DEF TextInv, TextEnded
  <2>5. pieces \in Seq(TextPiece) /\ last.at \in Nat /\ last.window \in Nat
    BY <2>2 DEF TextCut
  <2> HIDE DEF pieces, last
  <2>6. pieces # << >> => 1 \in 1..Len(pieces) /\ Head(pieces) = pieces[1] /\ pieces[1] \in TextPiece
    BY <2>5, EmptySeq
  <2>7. pieces # HText!NoText /\ last.cut = "expired" /\ lostTexts = 0 => Head(pieces).at >= last.at + last.window
    BY <2>4, <2>5, <2>6 DEF TextPiece, HText!NoText
  <2> QED
    BY <2>3, <2>7 DEF pieces, last
<1> QED
  BY <1>1, <1>2 DEF HText!TextsInOrder, HText!SentencesFollowReceipt

\* What the game prints on a text thread reaches the user once and in order while a session
\* lasts, no character is decoded from half of its bytes, and a sentence ends between two
\* pieces received within the merge window only for a reason the merger has; for any threads,
\* windows, bounds, and however many events the UI takes at once.
THEOREM SentencesComeWhole == SafetySpec => []SentencesWhole
<1>1. HText!Init => TextInv
  BY TextStarts
<1>2. TextInv /\ [HText!Next]_HText!vars => TextInv'
  BY TextStep
<1>3. TextInv => SentencesWhole
  BY TextImplied DEF SentencesWhole
<1> QED
  BY <1>1, <1>2, <1>3, TextAlone, PTL

-----------------------------------------------------------------------------
(* The jobs prepared from the configuration, and the pairs of languages.   *)

\* The lists as sets.
LookupGoogleSet ==
    {"ja", "ko", "en", "zh-CN", "zh-TW", "es", "fr", "de", "it", "pt", "ru", "ar", "hi", "th", "vi",
     "id", "ms", "nl", "pl", "tr", "uk"}
LookupDeepLSet == LookupGoogleSet \ {"ar", "hi", "th", "vi", "id", "ms"}
LookupPapagoSet == LookupGoogleSet \ {"ar", "hi", "pt", "ms", "nl", "pl", "tr", "uk"}

LEMMA LookupListedLanguages ==
    /\ Prepared!ToSet(Prepared!GoogleSupported) = LookupGoogleSet
    /\ Prepared!ToSet(Prepared!DeepLSupported) = LookupDeepLSet
    /\ Prepared!ToSet(Prepared!PapagoSupported) = LookupPapagoSet
<1>1. Prepared!ToSet(Prepared!GoogleSupported) = LookupGoogleSet
  BY SMT DEF Prepared!ToSet, Prepared!GoogleSupported, LookupGoogleSet
<1>2. Prepared!ToSet(Prepared!DeepLSupported) = LookupDeepLSet
  BY SMT DEF Prepared!ToSet, Prepared!DeepLSupported, LookupDeepLSet, LookupGoogleSet
<1>3. Prepared!ToSet(Prepared!PapagoSupported) = LookupPapagoSet
  BY SMT DEF Prepared!ToSet, Prepared!PapagoSupported, LookupPapagoSet, LookupGoogleSet
<1> QED
  BY <1>1, <1>2, <1>3

LEMMA LookupLists ==
    ASSUME NEW e \in Prepared!Engines
    PROVE  /\ \A i \in DOMAIN Prepared!SupportedSources(e) : i \in Nat
           /\ \A i \in DOMAIN Prepared!SupportedTargets(e) : i \in Nat
           /\ 1 \in DOMAIN Prepared!SupportedSources(e)
           /\ Prepared!ToSet(Prepared!SupportedSources(e)) =
                {Prepared!SupportedSources(e)[i] : i \in DOMAIN Prepared!SupportedSources(e)}
           /\ Prepared!ToSet(Prepared!SupportedTargets(e)) =
                {Prepared!SupportedTargets(e)[i] : i \in DOMAIN Prepared!SupportedTargets(e)}
<1>1. /\ DOMAIN Prepared!GoogleSupported = 1..21 /\ DOMAIN Prepared!DeepLSupported = 1..15
      /\ DOMAIN Prepared!PapagoSupported = 1..13
      /\ DOMAIN <<"ja">> = 1..1 /\ DOMAIN <<"ko">> = 1..1
  BY DEF Prepared!GoogleSupported, Prepared!DeepLSupported, Prepared!PapagoSupported
<1>2. /\ Prepared!SupportedSources(e) \in {<<"ja">>, Prepared!GoogleSupported, Prepared!DeepLSupported, Prepared!PapagoSupported}
      /\ Prepared!SupportedTargets(e) \in {<<"ko">>, Prepared!GoogleSupported, Prepared!DeepLSupported, Prepared!PapagoSupported}
  BY DEF Prepared!Supported, Prepared!SupportedSources, Prepared!SupportedTargets
<1> QED
  BY <1>1, <1>2 DEF Prepared!ToSet

\* The partners of a language for Papago: Korean for all but itself.
LEMMA LookupKoreanPairs ==
    ASSUME NEW s \in Prepared!ToSet(Prepared!PapagoSupported), s # "ko"
    PROVE  Prepared!PapagoSupportsPair(s, "ko")
<1>1. "ko" \in DOMAIN Prepared!PapagoPartners /\ Prepared!PapagoPartners["ko"] = Prepared!ToSet(Prepared!PapagoSupported) \ {"ko"}
  BY DEF Prepared!PapagoPartners
<1> QED
  BY <1>1 DEF Prepared!PapagoSupportsPair

LEMMA LookupSomeTarget ==
    ASSUME NEW e \in Prepared!Engines, NEW s \in Prepared!ToSet(Prepared!SupportedSources(e))
    PROVE  \E t \in Prepared!ToSet(Prepared!SupportedTargets(e)) : Prepared!SupportsPair(e, s, t)
<1>1. CASE e \in Prepared!OnlyJapaneseToKorean
  <2>1. s = "ja" /\ Prepared!ToSet(Prepared!SupportedTargets(e)) = {"ko"} /\ e # "papago"
    BY <1>1 DEF Prepared!SupportedSources, Prepared!SupportedTargets,
       Prepared!OnlyJapaneseToKorean, Prepared!ToSet
  <2> QED
    BY <2>1 DEF Prepared!SupportsPair
<1>2. CASE e \notin Prepared!OnlyJapaneseToKorean /\ e # "papago"
  <2>1. /\ Prepared!ToSet(Prepared!SupportedTargets(e)) \in
             {Prepared!ToSet(Prepared!GoogleSupported), Prepared!ToSet(Prepared!DeepLSupported)}
        /\ Prepared!SupportedTargets(e) = Prepared!SupportedSources(e)
    BY <1>2 DEF Prepared!SupportedSources, Prepared!SupportedTargets, Prepared!Supported
  <2>2. {"ja", "ko"} \subseteq Prepared!ToSet(Prepared!SupportedTargets(e))
    BY <2>1, LookupListedLanguages DEF LookupDeepLSet, LookupGoogleSet
  <2>3. Prepared!SupportsPair(e, s, IF s = "ja" THEN "ko" ELSE "ja")
    BY <1>2, <2>1, <2>2 DEF Prepared!SupportsPair
  <2> QED
    BY <2>2, <2>3
<1>3. CASE e = "papago"
  <2>1. Prepared!SupportedSources(e) = Prepared!PapagoSupported /\ Prepared!SupportedTargets(e) = Prepared!PapagoSupported
    BY <1>3 DEF Prepared!SupportedSources, Prepared!SupportedTargets, Prepared!Supported,
       Prepared!OnlyJapaneseToKorean
  <2>2. {"ja", "ko"} \subseteq Prepared!ToSet(Prepared!PapagoSupported)
    BY LookupListedLanguages DEF LookupPapagoSet, LookupGoogleSet
  <2>3. CASE s # "ko"
    <3>1. Prepared!SupportsPair(e, s, "ko")
      BY <2>1, <2>2, <2>3, LookupKoreanPairs DEF Prepared!SupportsPair
    <3> QED
      BY <2>1, <2>2, <3>1
  <2>4. CASE s = "ko"
    <3>1. Prepared!PapagoSupportsPair("ko", "ja")
      <4>1. "ko" \in DOMAIN Prepared!PapagoPartners
            /\ Prepared!PapagoPartners["ko"] = Prepared!ToSet(Prepared!PapagoSupported) \ {"ko"}
        BY DEF Prepared!PapagoPartners
      <4> QED
        BY <2>2, <4>1 DEF Prepared!PapagoSupportsPair
    <3>2. Prepared!SupportsPair(e, s, "ja")
      BY <2>1, <2>2, <2>4, <3>1 DEF Prepared!SupportsPair
    <3> QED
      BY <2>1, <2>2, <3>2
  <2> QED
    BY <2>3, <2>4
<1> QED
  BY <1>1, <1>2, <1>3

LEMMA LookupFirstFits ==
    ASSUME NEW e \in Prepared!Engines, NEW s \in Prepared!ToSet(Prepared!SupportedSources(e))
    PROVE  Prepared!SupportsPair(e, s, Prepared!FirstTargetFor(e, s))
<1> DEFINE targets == Prepared!SupportedTargets(e)
           T == {i \in DOMAIN targets : Prepared!SupportsPair(e, s, targets[i])}
           First(i) == /\ Prepared!SupportsPair(e, s, targets[i])
                       /\ \A k \in 1..(i - 1) : ~Prepared!SupportsPair(e, s, targets[k])
<1>1. T \subseteq Nat /\ T # {}
  BY LookupLists, LookupSomeTarget
<1>2. PICK n \in T : \A k \in T : n <= k
  BY <1>1, LeastNumber
<1>3. DOMAIN targets \in {1..1, 1..13, 1..15, 1..21}
  BY DEF Prepared!SupportedTargets, Prepared!Supported, Prepared!GoogleSupported,
     Prepared!DeepLSupported, Prepared!PapagoSupported
<1>4. First(n)
  <2>1. ASSUME NEW k \in 1..(n - 1), Prepared!SupportsPair(e, s, targets[k]) PROVE FALSE
    <3>1. n \in DOMAIN targets /\ n \in Nat /\ k \in Nat /\ k < n /\ 1 <= k
      BY <1>1, <1>2
    <3>2. k \in DOMAIN targets
      BY <1>3, <3>1
    <3> QED
      BY <1>2, <2>1, <3>1, <3>2
  <2> QED
    BY <1>2, <2>1
<1>5. n \in DOMAIN targets
  BY <1>2
<1>6. First(CHOOSE i \in DOMAIN targets : First(i))
  <2> HIDE DEF First, targets
  <2> QED
    BY <1>4, <1>5
<1>7. Prepared!FirstTargetFor(e, s) = targets[CHOOSE i \in DOMAIN targets : First(i)]
  BY DEF Prepared!FirstTargetFor
<1> QED
  BY <1>6, <1>7

\* An engine, a source and a target that go together.
LookupPair(c) == Prepared!SupportsPair(c.engine, c.source, c.target)

LEMMA LookupFittingSupports ==
    ASSUME NEW c, DOMAIN c = DOMAIN Prepared!DefaultConfig, c.engine \in Prepared!Engines,
           c.source \in Prepared!ToSet(Prepared!SupportedSources(c.engine))
    PROVE  LookupPair(Prepared!FittingTarget(c))
<1>1. CASE LookupPair(c)
  BY <1>1 DEF Prepared!FittingTarget, LookupPair
<1>2. CASE ~LookupPair(c)
  <2> DEFINE t == Prepared!FirstTargetFor(c.engine, c.source)
             d == [c EXCEPT !.target = t]
  <2>1. Prepared!FittingTarget(c) = d
    BY <1>2 DEF Prepared!FittingTarget, LookupPair
  <2> HIDE DEF t
  <2>2. d.engine = c.engine /\ d.source = c.source /\ d.target = t
    BY DEF Prepared!DefaultConfig
  <2>3. Prepared!SupportsPair(c.engine, c.source, t)
    BY LookupFirstFits DEF t
  <2> QED
    BY <2>1, <2>2, <2>3 DEF LookupPair
<1> QED
  BY <1>1, <1>2

LEMMA LookupChangesSupport ==
    ASSUME NEW c, DOMAIN c = DOMAIN Prepared!DefaultConfig, c.engine \in Prepared!Engines, LookupPair(c)
    PROVE  /\ \A e \in Prepared!Engines : LookupPair(Prepared!EngineChanged(c, e))
           /\ \A l : LookupPair(Prepared!SourceChanged(c, l)) /\ LookupPair(Prepared!TargetChanged(c, l))
<1>1. ASSUME NEW e \in Prepared!Engines PROVE LookupPair(Prepared!EngineChanged(c, e))
  <2> DEFINE from == Prepared!Normalized(c.source, Prepared!SupportedSources(e))
             to == Prepared!Normalized(c.target, Prepared!SupportedTargets(e))
             x == [c EXCEPT !.engine = e, !.source = from, !.target = to]
  <2>1. from \in Prepared!ToSet(Prepared!SupportedSources(e))
    BY LookupLists DEF Prepared!Normalized
  <2>2. Prepared!EngineChanged(c, e) = Prepared!FittingTarget(x)
    BY DEF Prepared!EngineChanged, Prepared!DefaultConfig
  <2> HIDE DEF from, to
  <2>3. DOMAIN x = DOMAIN Prepared!DefaultConfig /\ x.engine = e /\ x.source = from
    BY DEF Prepared!DefaultConfig
  <2> HIDE DEF x
  <2> QED
    BY <2>1, <2>2, <2>3, LookupFittingSupports
<1>2. ASSUME NEW l PROVE LookupPair(Prepared!SourceChanged(c, l))
  <2> DEFINE x == [c EXCEPT !.source = l]
  <2>1. CASE l \in Prepared!ToSet(Prepared!SupportedSources(c.engine))
    <3>1. DOMAIN x = DOMAIN Prepared!DefaultConfig /\ x.engine = c.engine /\ x.source = l
      BY DEF Prepared!DefaultConfig
    <3>2. Prepared!SourceChanged(c, l) = Prepared!FittingTarget(x)
      BY <2>1 DEF Prepared!SourceChanged
    <3> HIDE DEF x
    <3> QED
      BY <2>1, <3>1, <3>2, LookupFittingSupports
  <2>2. CASE l \notin Prepared!ToSet(Prepared!SupportedSources(c.engine))
    BY <2>2 DEF Prepared!SourceChanged
  <2> QED
    BY <2>1, <2>2
<1>3. ASSUME NEW l PROVE LookupPair(Prepared!TargetChanged(c, l))
  <2>1. CASE Prepared!SupportsPair(c.engine, c.source, l)
    <3> DEFINE x == [c EXCEPT !.target = l]
    <3>1. x.engine = c.engine /\ x.source = c.source /\ x.target = l /\ Prepared!TargetChanged(c, l) = x
      BY <2>1 DEF Prepared!DefaultConfig, Prepared!TargetChanged
    <3> HIDE DEF x
    <3> QED
      BY <2>1, <3>1 DEF LookupPair
  <2>2. CASE ~Prepared!SupportsPair(c.engine, c.source, l)
    BY <2>2 DEF Prepared!TargetChanged
  <2> QED
    BY <2>1, <2>2
<1> QED
  BY <1>1, <1>2, <1>3

LEMMA LookupPairsHaveCodes ==
    ASSUME NEW e, NEW s, NEW t, Prepared!SupportsPair(e, s, t)
    PROVE  Prepared!HasCode(e, s) /\ Prepared!HasCode(e, t)
<1>1. CASE e = "deepl"
  <2>1. s \in Prepared!ToSet(Prepared!DeepLSupported) /\ t \in Prepared!ToSet(Prepared!DeepLSupported)
    BY <1>1 DEF Prepared!SupportsPair, Prepared!SupportedSources, Prepared!SupportedTargets,
       Prepared!Supported, Prepared!OnlyJapaneseToKorean
  <2>2. Prepared!ToSet(Prepared!DeepLSupported) \subseteq Prepared!DeepLCodes
    BY LookupListedLanguages DEF Prepared!DeepLCodes, Prepared!Language, LookupDeepLSet
  <2> QED
    BY <1>1, <2>1, <2>2 DEF Prepared!HasCode
<1>2. CASE e = "papago"
  <2>1. s \in Prepared!ToSet(Prepared!PapagoSupported) /\ t \in Prepared!ToSet(Prepared!PapagoSupported)
    BY <1>2 DEF Prepared!SupportsPair, Prepared!SupportedSources, Prepared!SupportedTargets,
       Prepared!Supported, Prepared!OnlyJapaneseToKorean
  <2>2. Prepared!ToSet(Prepared!PapagoSupported) \subseteq Prepared!PapagoCodes
    BY LookupListedLanguages DEF Prepared!PapagoCodes, Prepared!Language, LookupPapagoSet
  <2> QED
    BY <1>2, <2>1, <2>2 DEF Prepared!HasCode
<1>3. CASE e \notin {"deepl", "papago"}
  BY <1>3 DEF Prepared!HasCode
<1> QED
  BY <1>1, <1>2, <1>3

-----------------------------------------------------------------------------
\* What a job is prepared from is what its fingerprint reads.
LookupAccepts(kind, b) ==
    CASE kind = "eztrans" -> b[1] # ""
      [] kind = "deepl" -> b[1] # << >>
      [] kind = "papago" -> b[1] # ""
      [] kind = "llm" -> b[3] # ""
      [] kind = "mys" -> b[1] # ""
      [] OTHER -> TRUE
LookupPrepares(f) == LookupAccepts(f[1], f[4]) /\ Prepared!SupportsPair(f[1], f[2], f[3])
LookupJobFrom(f) ==
    IF LookupPrepares(f) THEN [engine |-> f[1], source |-> f[2], target |-> f[3], backend |-> f[4]]
    ELSE Prepared!NoJob
\* The stamp of what has this fingerprint and its dictionary at `address`.
LookupStampFrom(f, address) ==
    IF f[1] = "eztrans" THEN <<f[1], f[2], f[3], <<f[4][1], <<address, DictionaryEnds[f[4][2]]>>>>>> ELSE f

LookupRead(c) == <<c.engine, c.source, c.target, Prepared!Backend(c)>>

LEMMA LookupFingerprintReads ==
    ASSUME NEW c
    PROVE  /\ Prepared!Fingerprint(c) = LookupRead(c)
           /\ c.engine = "eztrans" => LookupRead(c)[4] = <<c.path, c.dict>>
<1>1. c.engine = "eztrans" => Prepared!Backend(c) = <<c.path, c.dict>>
  BY DEF Prepared!Backend
<1>2. CASE c.engine = "eztrans"
  BY <1>1, <1>2 DEF Prepared!Fingerprint, Prepared!Hashed, LookupRead
<1>3. CASE c.engine # "eztrans"
  BY <1>3 DEF Prepared!Fingerprint, Prepared!Hashed, LookupRead
<1> QED
  BY <1>1, <1>2, <1>3 DEF LookupRead

LEMMA LookupStampReads ==
    ASSUME NEW c, NEW a
    PROVE  Prepared!Stamp(c, a) = LookupStampFrom(Prepared!Fingerprint(c), a)
<1>1. CASE c.engine = "eztrans"
  <2>1. Prepared!Stamp(c, a) = <<c.engine, c.source, c.target, <<c.path, <<a, DictionaryEnds[c.dict]>>>>>>
    BY <1>1 DEF Prepared!Stamp, Prepared!Hashed
  <2>2. Prepared!Fingerprint(c) = <<c.engine, c.source, c.target, <<c.path, c.dict>>>>
    BY <1>1 DEF Prepared!Fingerprint, Prepared!Hashed
  <2> QED
    BY <1>1, <2>1, <2>2 DEF LookupStampFrom
<1>2. CASE c.engine # "eztrans"
  <2>1. Prepared!Stamp(c, a) = LookupRead(c)
    BY <1>2 DEF Prepared!Stamp, Prepared!Hashed, LookupRead
  <2> QED
    BY <1>2, <2>1, LookupFingerprintReads DEF LookupStampFrom, LookupRead
<1> QED
  BY <1>1, <1>2

LEMMA LookupJobIsOfFingerprint ==
    ASSUME NEW c
    PROVE  Prepared!JobOf(c) = LookupJobFrom(Prepared!Fingerprint(c))
<1>1. Prepared!Credentials(c) <=> LookupAccepts(c.engine, Prepared!Backend(c))
  <2>1. CASE c.engine = "eztrans"
    BY <2>1 DEF Prepared!Credentials, LookupAccepts, Prepared!Backend
  <2>2. CASE c.engine = "deepl"
    BY <2>2 DEF Prepared!Credentials, LookupAccepts, Prepared!Backend
  <2>3. CASE c.engine = "papago"
    BY <2>3 DEF Prepared!Credentials, LookupAccepts, Prepared!Backend
  <2>4. CASE c.engine = "llm"
    BY <2>4 DEF Prepared!Credentials, LookupAccepts, Prepared!Backend
  <2>5. CASE c.engine = "mys"
    BY <2>5 DEF Prepared!Credentials, LookupAccepts, Prepared!Backend
  <2>6. CASE c.engine \notin {"eztrans", "deepl", "papago", "llm", "mys"}
    BY <2>6 DEF Prepared!Credentials, LookupAccepts
  <2> QED
    BY <2>1, <2>2, <2>3, <2>4, <2>5, <2>6
<1>2. Prepared!Fingerprint(c) = <<c.engine, c.source, c.target, Prepared!Backend(c)>>
  BY LookupFingerprintReads DEF LookupRead
<1> QED
  BY <1>1, <1>2 DEF Prepared!JobOf, LookupJobFrom, LookupPrepares

-----------------------------------------------------------------------------
\* A kept job is the one of its fingerprint.  Its dictionary lay at an address that was in use
\* before or is in use now, and then, unless it was in use before too, it is the present one.
LookupKeptIn(k, before, address, dictionary) ==
    LET f == k.fingerprint
    IN  /\ f = <<f[1], f[2], f[3], f[4]>>
        /\ f[1] = "eztrans" => f[4] = <<f[4][1], f[4][2]>>
        /\ LookupPrepares(f) /\ k.job = LookupJobFrom(f)
        /\ \E a \in before \cup {address} :
            /\ k.stamp = LookupStampFrom(f, a)
            /\ f[1] = "eztrans" /\ a = address /\ a \notin before => f[4][2] = dictionary
LookupKeptJob(k) == LookupKeptIn(k, freed, at, config.dict)

LookupFields == DOMAIN Prepared!DefaultConfig
LookupJobsInv == (\E S : jobs \in Seq(S)) /\ \A i \in 1..Len(jobs) : LookupKeptJob(jobs[i])

LookupProfilesInv == DOMAIN draft = LookupFields /\ draft.provider \in ProviderChoices /\ DOMAIN kept = ProviderChoices

LookupInv == LookupJobsInv /\ Prepared!JobFitsConfig /\ LookupProfilesInv /\ Prepared!ProfilesKept

LEMMA LookupStarts == Prepared!Init => LookupInv
<1> SUFFICES ASSUME Prepared!Init PROVE LookupInv
  OBVIOUS
<1>1. draft = [Prepared!DefaultConfig EXCEPT !.legacyKey = "old key"]
  BY DEF Prepared!Init
<1>2. DOMAIN draft = LookupFields /\ draft.provider = "openai" /\ draft.llm = Prepared!DefaultProfile /\ draft.profiles = << >>
  BY <1>1 DEF LookupFields, Prepared!DefaultConfig
<1>3. LookupJobsInv
  <2>1. jobs = << >> /\ << >> \in Seq({}) /\ Len(<< >>) = 0
    BY EmptySeq DEF Prepared!Init
  <2> QED
    BY <2>1 DEF LookupJobsInv
<1>4. kept = [p \in ProviderChoices |-> Prepared!DefaultProfile] /\ served.how = "none"
  BY DEF Prepared!Init
<1> QED
  BY <1>2, <1>3, <1>4, PreparedAssumption DEF LookupInv, LookupProfilesInv,
     Prepared!ProfilesKept, Prepared!JobFitsConfig

-----------------------------------------------------------------------------
LookupSameProvider(c, d) ==
    DOMAIN d = LookupFields /\ d.provider = c.provider /\ d.profiles = c.profiles

LEMMA LookupFittingKeeps ==
    ASSUME NEW c, DOMAIN c = LookupFields
    PROVE  DOMAIN Prepared!FittingTarget(c) = LookupFields /\ LookupSameProvider(c, Prepared!FittingTarget(c))
BY DEF Prepared!FittingTarget, LookupSameProvider, LookupFields, Prepared!DefaultConfig

LEMMA LookupKindsOfChange ==
    ASSUME NEW c, DOMAIN c = LookupFields, NEW d \in Prepared!Changes(c)
    PROVE  LookupSameProvider(c, d) \/ \E p \in ProviderChoices : d = Prepared!ProviderChanged(c, p)
<1>1. CASE d \in Prepared!PairChanges(c)
  <2>1. ASSUME NEW e PROVE LookupSameProvider(c, Prepared!EngineChanged(c, e))
    <3> DEFINE x == [c EXCEPT !.engine = e, !.source = Prepared!Normalized(@, Prepared!SupportedSources(e)),
                              !.target = Prepared!Normalized(@, Prepared!SupportedTargets(e))]
    <3>1. LookupSameProvider(c, x)
      BY DEF LookupSameProvider, LookupFields, Prepared!DefaultConfig
    <3>2. Prepared!EngineChanged(c, e) = Prepared!FittingTarget(x)
      BY DEF Prepared!EngineChanged
    <3> HIDE DEF x
    <3> QED
      BY <3>1, <3>2, LookupFittingKeeps DEF LookupSameProvider
  <2>2. ASSUME NEW l PROVE LookupSameProvider(c, Prepared!SourceChanged(c, l))
    <3> DEFINE x == [c EXCEPT !.source = l]
    <3>1. LookupSameProvider(c, x) /\ LookupSameProvider(c, c)
      BY DEF LookupSameProvider, LookupFields, Prepared!DefaultConfig
    <3>2. Prepared!SourceChanged(c, l) = Prepared!FittingTarget(x) \/ Prepared!SourceChanged(c, l) = c
      BY DEF Prepared!SourceChanged
    <3> HIDE DEF x
    <3> QED
      BY <3>1, <3>2, LookupFittingKeeps DEF LookupSameProvider
  <2>3. ASSUME NEW l PROVE LookupSameProvider(c, Prepared!TargetChanged(c, l))
    BY DEF Prepared!TargetChanged, LookupSameProvider, LookupFields, Prepared!DefaultConfig
  <2> QED
    BY <1>1, <2>1, <2>2, <2>3 DEF Prepared!PairChanges
<1>2. CASE d \in Prepared!DeepLChanges(c)
  <2>1. ASSUME NEW free, NEW k PROVE LookupSameProvider(c, Prepared!KeyAdded(c, free, k))
    BY DEF Prepared!KeyAdded, LookupSameProvider, LookupFields, Prepared!DefaultConfig
  <2>2. ASSUME NEW i PROVE LookupSameProvider(c, Prepared!KeyRemoved(c, i))
    BY DEF Prepared!KeyRemoved, LookupSameProvider, LookupFields, Prepared!DefaultConfig
  <2>3. ASSUME NEW b PROVE LookupSameProvider(c, Prepared!Set(c, "roundRobin", b))
    BY DEF Prepared!Set, LookupSameProvider, LookupFields, Prepared!DefaultConfig
  <2> QED
    BY <1>2, <2>1, <2>2, <2>3 DEF Prepared!DeepLChanges
<1>3. CASE d \in Prepared!LlmChanges(c)
  <2>1. ASSUME NEW m
        PROVE  LookupSameProvider(c, [c EXCEPT !.llm.model = m]) /\ LookupSameProvider(c, [c EXCEPT !.llm.key = m])
    BY DEF LookupSameProvider, LookupFields, Prepared!DefaultConfig
  <2> QED
    BY <1>3, <2>1 DEF Prepared!LlmChanges
<1>4. CASE d \in Prepared!OtherChanges(c)
  <2>1. ASSUME NEW n PROVE LookupSameProvider(c, Prepared!CustomSelected(c, n))
    BY DEF Prepared!CustomSelected, LookupSameProvider, LookupFields, Prepared!DefaultConfig
  <2>2. ASSUME NEW x PROVE LookupSameProvider(c, Prepared!DictionaryCommitted(c, x))
    BY DEF Prepared!DictionaryCommitted, LookupSameProvider, LookupFields, Prepared!DefaultConfig
  <2>3. ASSUME NEW x PROVE LookupSameProvider(c, Prepared!Set(c, "path", x))
    BY DEF Prepared!Set, LookupSameProvider, LookupFields, Prepared!DefaultConfig
  <2> QED
    BY <1>4, <2>1, <2>2, <2>3 DEF Prepared!OtherChanges
<1> QED
  BY <1>1, <1>2, <1>3, <1>4 DEF Prepared!Changes

LEMMA LookupProfilesStay ==
    ASSUME LookupProfilesInv, Prepared!ProfilesKept, Prepared!Edit
    PROVE  LookupProfilesInv' /\ Prepared!ProfilesKept'
<1>0. /\ draft' \in Prepared!Changes(draft) /\ DOMAIN draft = LookupFields
      /\ kept' = IF draft'.provider = draft.provider
                 THEN [kept EXCEPT ![draft.provider] = draft'.llm] ELSE kept
  BY DEF Prepared!Edit, LookupProfilesInv
<1>1. CASE LookupSameProvider(draft, draft')
  BY <1>0, <1>1 DEF LookupSameProvider, LookupProfilesInv, Prepared!ProfilesKept
<1>2. ASSUME NEW p \in ProviderChoices, draft' = Prepared!ProviderChanged(draft, p), draft.provider = p
      PROVE  LookupProfilesInv' /\ Prepared!ProfilesKept'
  <2>1. draft' = draft
    BY <1>2 DEF Prepared!ProviderChanged
  <2> QED
    BY <1>0, <2>1 DEF LookupProfilesInv, Prepared!ProfilesKept
<1>3. ASSUME NEW p \in ProviderChoices, draft' = Prepared!ProviderChanged(draft, p), draft.provider # p
      PROVE  LookupProfilesInv' /\ Prepared!ProfilesKept'
  <2> DEFINE stored == Prepared!With(draft.profiles, draft.provider, draft.llm)
             taken == IF p \in DOMAIN stored THEN stored[p] ELSE Prepared!DefaultProfile
  <2>1. draft' = [draft EXCEPT !.provider = p, !.llm = taken, !.profiles = Prepared!Without(stored, p)]
    BY <1>3 DEF Prepared!ProviderChanged
  <2> HIDE DEF taken
  <2>2. /\ DOMAIN draft' = LookupFields /\ draft'.provider = p /\ draft'.llm = taken
        /\ draft'.profiles = Prepared!Without(stored, p)
    <3> HIDE DEF stored
    <3> QED
      BY <1>0, <2>1 DEF LookupFields, Prepared!DefaultConfig
  <2>3. kept' = kept
    BY <1>0, <1>3, <2>2
  <2>4. /\ DOMAIN stored = DOMAIN draft.profiles \cup {draft.provider}
        /\ \A q \in DOMAIN stored : stored[q] = IF q = draft.provider THEN draft.llm ELSE draft.profiles[q]
    BY DEF Prepared!With
  <2>5. taken = kept[p]
    BY <1>3, <2>4 DEF taken, Prepared!ProfilesKept
  <2>6. ASSUME NEW q \in ProviderChoices, q # p
        PROVE kept[q] = IF q \in DOMAIN draft'.profiles THEN draft'.profiles[q] ELSE Prepared!DefaultProfile
    <3> HIDE DEF stored
    <3>1. /\ DOMAIN draft'.profiles = DOMAIN stored \ {p}
          /\ q \in DOMAIN stored => draft'.profiles[q] = stored[q]
      BY <2>2, <2>6 DEF Prepared!Without
    <3> QED
      BY <2>4, <2>6, <3>1 DEF Prepared!ProfilesKept
  <2> QED
    BY <2>2, <2>3, <2>5, <2>6 DEF LookupProfilesInv, Prepared!ProfilesKept
<1> QED
  BY <1>0, <1>1, <1>2, <1>3, LookupKindsOfChange

-----------------------------------------------------------------------------
\* A job found by the stamp or by the fingerprint.
LEMMA LookupFoundBySame ==
    ASSUME NEW k, k.job = LookupJobFrom(k.fingerprint), k.fingerprint = Prepared!Fingerprint(config)
    PROVE  k.job = Prepared!JobOf(config)
BY LookupJobIsOfFingerprint

LEMMA LookupFoundByStamp ==
    ASSUME NEW k, LookupKeptJob(k), k.stamp = Prepared!Stamp(config, at)
    PROVE  \/ k.job = Prepared!JobOf(config)
           \/ /\ config.engine = "eztrans" /\ at \in freed
              /\ [k.job EXCEPT !.backend[2] = config.dict] = Prepared!JobOf(config)
<1> DEFINE f == k.fingerprint
           g == Prepared!Fingerprint(config)
<1>0. PICK a \in freed \cup {at} :
        /\ k.stamp = LookupStampFrom(f, a)
        /\ f[1] = "eztrans" /\ a = at /\ a \notin freed => f[4][2] = config.dict
  BY DEF LookupKeptJob, LookupKeptIn
<1>1. LookupStampFrom(f, a) = LookupStampFrom(g, at)
  BY <1>0, LookupStampReads
<1>2. /\ f = <<f[1], f[2], f[3], f[4]>>
      /\ f[1] = "eztrans" => f[4] = <<f[4][1], f[4][2]>>
      /\ LookupPrepares(f) /\ k.job = LookupJobFrom(f)
  BY DEF LookupKeptJob, LookupKeptIn
<1>3. /\ g = <<config.engine, config.source, config.target, g[4]>>
      /\ config.engine = "eztrans" => g[4] = <<config.path, config.dict>>
  BY LookupFingerprintReads DEF LookupRead
<1>4. Prepared!JobOf(config) = LookupJobFrom(g) /\ g[1] = config.engine
  BY LookupJobIsOfFingerprint, LookupFingerprintReads DEF LookupRead
<1> HIDE DEF f, g
<1>5. f[1] = g[1]
  BY <1>1, <1>2, <1>3 DEF LookupStampFrom
<1>6. CASE f[1] # "eztrans"
  BY <1>1, <1>2, <1>4, <1>5, <1>6 DEF LookupStampFrom
<1>7. CASE f[1] = "eztrans"
  <2>1. /\ f[2] = g[2] /\ f[3] = g[3] /\ f[4][1] = g[4][1] /\ a = at
    BY <1>1, <1>5, <1>7 DEF LookupStampFrom
  <2>2. CASE f[4][2] = config.dict
    <3>1. f[4] = <<f[4][1], f[4][2]>> /\ g[4] = <<config.path, config.dict>>
      BY <1>2, <1>3, <1>4, <1>5, <1>7
    <3>2. f[4] = g[4]
      BY <2>1, <2>2, <3>1
    <3>3. f = <<f[1], f[2], f[3], f[4]>> /\ g = <<g[1], g[2], g[3], g[4]>>
      BY <1>2, <1>3
    <3>4. f = g
      BY <1>5, <2>1, <3>2, <3>3
    <3> QED
      BY <1>2, <1>4, <3>4
  <2>3. CASE f[4][2] # config.dict
    <3>1. at \in freed
      BY <1>0, <1>7, <2>1, <2>3
    <3>2. LookupPrepares(g)
      BY <1>2, <1>5, <1>7, <2>1 DEF LookupPrepares, LookupAccepts
    <3>3. /\ k.job = [engine |-> f[1], source |-> f[2], target |-> f[3], backend |-> <<f[4][1], f[4][2]>>]
          /\ Prepared!JobOf(config) = [engine |-> f[1], source |-> f[2], target |-> f[3], backend |-> <<f[4][1], config.dict>>]
      <4>1. f[4] = <<f[4][1], f[4][2]>> /\ g[4] = <<f[4][1], config.dict>>
        BY <1>2, <1>3, <1>4, <1>5, <1>7, <2>1
      <4>2. k.job = [engine |-> f[1], source |-> f[2], target |-> f[3], backend |-> f[4]]
        BY <1>2 DEF LookupJobFrom
      <4>3. Prepared!JobOf(config) = [engine |-> g[1], source |-> g[2], target |-> g[3], backend |-> g[4]]
        BY <1>4, <3>2 DEF LookupJobFrom
      <4> QED
        BY <1>5, <2>1, <4>1, <4>2, <4>3
    <3>4. [k.job EXCEPT !.backend[2] = config.dict] = Prepared!JobOf(config)
      BY <3>3
    <3> QED
      BY <1>4, <1>5, <1>7, <3>1, <3>4
  <2> QED
    BY <2>2, <2>3
<1> QED
  BY <1>6, <1>7

LEMMA LookupFirstIsKept ==
    ASSUME LookupJobsInv, NEW places \in SUBSET (DOMAIN jobs), places # {}
    PROVE  \E i \in places : Prepared!FirstOf(places) = jobs[i] /\ LookupKeptJob(jobs[i])
<1>1. PICK S : jobs \in Seq(S)
  BY DEF LookupJobsInv
<1>2. places \subseteq 1..Len(jobs) /\ Len(jobs) \in Nat
  BY <1>1
<1>3. \E i \in places : \A k \in places : i <= k
  BY <1>2, LeastNumber
<1>4. (CHOOSE i \in places : \A k \in places : i <= k) \in places
  BY <1>3
<1> QED
  BY <1>2, <1>4 DEF Prepared!FirstOf, LookupJobsInv

LEMMA LookupRequestFits ==
    ASSUME LookupJobsInv, Prepared!Request
    PROVE  LookupJobsInv' /\ Prepared!JobFitsConfig'
<1> DEFINE stamp == Prepared!Stamp(config, at)
           fingerprint == Prepared!Fingerprint(config)
           job == Prepared!JobOf(config)
           stamped == Prepared!Matching("stamp", stamp)
           same == Prepared!Matching("fingerprint", fingerprint)
           Serves(how, j) == served' = [how |-> how, config |-> config, at |-> at, job |-> j]
<1>0. UNCHANGED <<config, at, freed>>
  BY DEF Prepared!Request
<1>1. CASE stamped # {} /\ Serves("stamp", Prepared!FirstOf(stamped).job) /\ UNCHANGED jobs
  <2>1. PICK i \in stamped : Prepared!FirstOf(stamped) = jobs[i] /\ LookupKeptJob(jobs[i])
    BY <1>1, LookupFirstIsKept DEF Prepared!Matching
  <2>2. jobs[i].stamp = stamp
    BY <2>1 DEF Prepared!Matching
  <2>3. \/ jobs[i].job = Prepared!JobOf(config)
        \/ /\ config.engine = "eztrans" /\ at \in freed
           /\ [jobs[i].job EXCEPT !.backend[2] = config.dict] = Prepared!JobOf(config)
    BY <2>1, <2>2, LookupFoundByStamp
  <2>4. served' = [how |-> "stamp", config |-> config, at |-> at, job |-> jobs[i].job]
    BY <1>1, <2>1
  <2>5. Prepared!JobFitsConfig'
    BY <1>0, <2>3, <2>4 DEF Prepared!JobFitsConfig
  <2>6. LookupJobsInv'
    BY <1>0, <1>1 DEF LookupJobsInv, LookupKeptJob
  <2> QED
    BY <2>5, <2>6
<1>2. CASE same # {} /\ Serves("fingerprint", Prepared!FirstOf(same).job) /\ UNCHANGED jobs
  <2>1. PICK i \in same : Prepared!FirstOf(same) = jobs[i] /\ LookupKeptJob(jobs[i])
    BY <1>2, LookupFirstIsKept DEF Prepared!Matching
  <2>2. jobs[i].fingerprint = fingerprint
    BY <2>1 DEF Prepared!Matching
  <2>3. jobs[i].job = Prepared!JobOf(config)
    BY <2>1, <2>2, LookupFoundBySame DEF LookupKeptJob, LookupKeptIn
  <2>4. served' = [how |-> "fingerprint", config |-> config, at |-> at, job |-> jobs[i].job]
    BY <1>2, <2>1
  <2>5. Prepared!JobFitsConfig'
    BY <1>0, <2>3, <2>4 DEF Prepared!JobFitsConfig
  <2>6. LookupJobsInv'
    BY <1>0, <1>2 DEF LookupJobsInv, LookupKeptJob
  <2> QED
    BY <2>5, <2>6
<1>3. CASE /\ Serves("new", job)
           /\ jobs' = IF job = Prepared!NoJob THEN jobs
                      ELSE LET all == <<[stamp |-> stamp, fingerprint |-> fingerprint, job |-> job]>> \o jobs
                           IN SubSeq(all, 1, IF Len(all) < KeptJobs THEN Len(all) ELSE KeptJobs)
  <2>1. Prepared!JobFitsConfig'
    BY <1>0, <1>3 DEF Prepared!JobFitsConfig
  <2>2. CASE job = Prepared!NoJob
    <3>1. jobs' = jobs
      BY <1>3, <2>2
    <3> QED
      BY <1>0, <2>1, <3>1 DEF LookupJobsInv, LookupKeptJob
  <2>3. CASE job # Prepared!NoJob
    <3> DEFINE new == [stamp |-> stamp, fingerprint |-> fingerprint, job |-> job]
               all == <<new>> \o jobs
               n == IF Len(all) < KeptJobs THEN Len(all) ELSE KeptJobs
    <3>1. jobs' = SubSeq(all, 1, n)
      BY <1>3, <2>3
    <3>2. PICK S : jobs \in Seq(S)
      BY DEF LookupJobsInv
    <3>3. /\ all \in Seq(S \cup {new}) /\ Len(all) = Len(jobs) + 1 /\ Len(jobs) \in Nat
          /\ all[1] = new /\ \A i \in 2..Len(all) : all[i] = jobs[i - 1]
      <4>1. jobs \in Seq(S \cup {new}) /\ <<new>> \in Seq(S \cup {new})
        BY <3>2
      <4> HIDE DEF new
      <4> QED
        BY <3>2, <4>1
    <3>4. n \in 0..Len(all)
      BY <3>3, PreparedAssumption
    <3> HIDE DEF new, all, n
    <3>5. jobs' \in Seq(S \cup {new}) /\ Len(jobs') = n /\ \A i \in 1..n : jobs'[i] = all[i]
      BY <3>1, <3>3, <3>4
    <3>6. LookupKeptJob(new)
      <4>0. new.fingerprint = fingerprint /\ new.job = job /\ new.stamp = stamp
        BY DEF new
      <4>1. Prepared!JobOf(config) = LookupJobFrom(fingerprint) /\ stamp = LookupStampFrom(fingerprint, at)
        BY LookupJobIsOfFingerprint, LookupStampReads
      <4>2. /\ fingerprint = LookupRead(config)
            /\ config.engine = "eztrans" => LookupRead(config)[4] = <<config.path, config.dict>>
        BY LookupFingerprintReads
      <4>3. LookupPrepares(fingerprint)
        BY <2>3, <4>1 DEF LookupJobFrom
      <4>4. \E a \in freed \cup {at} :
              /\ stamp = LookupStampFrom(fingerprint, a)
              /\ fingerprint[1] = "eztrans" /\ a = at /\ a \notin freed => fingerprint[4][2] = config.dict
        <5>1. fingerprint[1] = "eztrans" => fingerprint[4][2] = config.dict
          BY <4>2 DEF LookupRead
        <5> QED
          BY <4>1, <5>1
      <4>5. /\ fingerprint = <<fingerprint[1], fingerprint[2], fingerprint[3], fingerprint[4]>>
            /\ fingerprint[1] = "eztrans" => fingerprint[4] = <<fingerprint[4][1], fingerprint[4][2]>>
        BY <4>2 DEF LookupRead
      <4> HIDE DEF fingerprint, stamp, job
      <4> QED
        BY <4>0, <4>1, <4>3, <4>4, <4>5 DEF LookupKeptJob, LookupKeptIn, job
    <3>7. ASSUME NEW i \in 1..n PROVE LookupKeptJob(jobs'[i])
      <4>1. CASE i = 1
        BY <3>3, <3>5, <3>6, <4>1
      <4>2. CASE i # 1
        <5>1. i - 1 \in 1..Len(jobs) /\ jobs'[i] = jobs[i - 1]
          BY <3>3, <3>4, <3>5, <4>2
        <5> QED
          BY <5>1 DEF LookupJobsInv
      <4> QED
        BY <4>1, <4>2
    <3> QED
      <4>1. \A i \in 1..Len(jobs') : LookupKeptIn(jobs'[i], freed', at', config'.dict)
        BY <1>0, <3>4, <3>5, <3>7 DEF LookupKeptJob
      <4> QED
        BY <2>1, <3>5, <4>1 DEF LookupJobsInv, LookupKeptJob
  <2> QED
    BY <2>2, <2>3
<1> QED
  BY <1>1, <1>2, <1>3 DEF Prepared!Request

LEMMA LookupApplyFits ==
    ASSUME LookupJobsInv, Prepared!JobFitsConfig, Prepared!Apply
    PROVE  LookupJobsInv' /\ Prepared!JobFitsConfig'
<1>0. at' # at /\ freed' = freed \cup {at} /\ UNCHANGED <<jobs, served>>
  BY DEF Prepared!Apply, Prepared!Free
<1>1. Prepared!JobFitsConfig'
  BY <1>0 DEF Prepared!JobFitsConfig
<1>2. ASSUME NEW i \in 1..Len(jobs) PROVE LookupKeptJob(jobs[i])'
  <2> DEFINE f == jobs[i].fingerprint
  <2>1. LookupKeptJob(jobs[i])
    BY DEF LookupJobsInv
  <2>2. PICK a \in freed \cup {at} : jobs[i].stamp = LookupStampFrom(f, a)
    BY <2>1 DEF LookupKeptJob, LookupKeptIn
  <2>3. a \in freed' /\ (a = at' => at' \in freed')
    BY <1>0, <2>2
  <2> QED
    BY <1>0, <2>1, <2>2, <2>3 DEF LookupKeptJob, LookupKeptIn
<1> QED
  BY <1>0, <1>1, <1>2 DEF LookupJobsInv

LEMMA LookupStep == LookupInv /\ [Prepared!Next]_Prepared!vars => LookupInv'
<1> SUFFICES ASSUME LookupInv, [Prepared!Next]_Prepared!vars PROVE LookupInv'
  OBVIOUS
<1>0. LookupJobsInv /\ Prepared!JobFitsConfig /\ LookupProfilesInv /\ Prepared!ProfilesKept
  BY DEF LookupInv
<1>1. CASE Prepared!Edit
  <2>1. UNCHANGED <<config, at, freed, jobs, served>>
    BY <1>1 DEF Prepared!Edit
  <2>2. LookupJobsInv' /\ Prepared!JobFitsConfig'
    BY <1>0, <2>1 DEF LookupJobsInv, LookupKeptJob, Prepared!JobFitsConfig
  <2> QED
    BY <1>0, <1>1, <2>2, LookupProfilesStay DEF LookupInv
<1>2. CASE Prepared!Apply
  <2>1. UNCHANGED <<draft, kept>>
    BY <1>2 DEF Prepared!Apply
  <2> QED
    BY <1>0, <1>2, <2>1, LookupApplyFits DEF LookupInv, LookupProfilesInv, Prepared!ProfilesKept
<1>3. CASE Prepared!Request
  <2>1. UNCHANGED <<draft, kept>>
    BY <1>3 DEF Prepared!Request
  <2> QED
    BY <1>0, <1>3, <2>1, LookupRequestFits DEF LookupInv, LookupProfilesInv, Prepared!ProfilesKept
<1>4. CASE UNCHANGED Prepared!vars
  BY <1>0, <1>4 DEF Prepared!vars, LookupInv, LookupJobsInv, LookupKeptJob,
     Prepared!JobFitsConfig, LookupProfilesInv, Prepared!ProfilesKept
<1> QED
  BY <1>1, <1>2, <1>3, <1>4 DEF Prepared!Next

LEMMA LookupImplies ==
    LookupInv => Prepared!JobFitsConfig /\ Prepared!ProfilesKept
BY DEF LookupInv

\* A choice of languages is evaluated only for pairs an engine supports.
ChosenPairs == input.kind = "pair" => input \in Pairs

LEMMA PairsAreSupported == SafetyInit => ChosenPairs
<1> SUFFICES ASSUME SafetyInit, input.kind = "pair" PROVE input \in Pairs
  BY DEF ChosenPairs
<1>1. \/ input = NoInput \/ Rules!Init
      \/ input \in AnswerInputs \cup Pairs \cup ReleaseInputs \cup CheckInputs
  BY DEF SafetyInit
<1>2. input # NoInput
  BY DEF NoInput
<1>4. input \notin AnswerInputs /\ input \notin CheckInputs
  BY DEF AnswerInputs, CheckInputs
<1>5. input \notin ReleaseInputs
  <2>1. \A r \in ReleaseInputs : r.kind = "releases"
    BY DEF ReleaseInputs
  <2> QED
    BY <2>1
<1>3. ~Rules!Init
  BY DEF Rules!Init
<1> QED
  BY <1>1, <1>2, <1>3, <1>4, <1>5

LEMMA PairsFit ==
    ASSUME LookupInv, ChosenPairs
    PROVE  SettingsFit
<1> SUFFICES ASSUME input.kind = "pair"
             PROVE  /\ Prepared!HasCode(input.engine, input.source)
                    /\ Prepared!HasCode(input.engine, input.target)
                    /\ LET config0 == [Prepared!DefaultConfig EXCEPT !.engine = input.engine,
                                         !.source = input.source, !.target = input.target]
                       IN \A changed \in
                            {Prepared!EngineChanged(config0, e) : e \in Prepared!Engines}
                            \cup {Prepared!SourceChanged(config0, l) : l \in Prepared!Language}
                            \cup {Prepared!TargetChanged(config0, l) : l \in Prepared!Language} :
                          Prepared!SupportsPair(changed.engine, changed.source, changed.target)
  BY LookupImplies DEF SettingsFit
<1> DEFINE config0 == [Prepared!DefaultConfig EXCEPT !.engine = input.engine,
                         !.source = input.source, !.target = input.target]
<1>1. input.engine \in Prepared!Engines /\ Prepared!SupportsPair(input.engine, input.source, input.target)
  BY DEF ChosenPairs, Pairs
<1>2. /\ DOMAIN config0 = DOMAIN Prepared!DefaultConfig
      /\ config0.engine = input.engine /\ config0.source = input.source
      /\ config0.target = input.target
  BY DEF Prepared!DefaultConfig
<1> HIDE DEF config0
<1>3. LookupPair(config0)
  BY <1>1, <1>2 DEF LookupPair
<1>4. /\ \A e \in Prepared!Engines : LookupPair(Prepared!EngineChanged(config0, e))
      /\ \A l : LookupPair(Prepared!SourceChanged(config0, l)) /\ LookupPair(Prepared!TargetChanged(config0, l))
  BY <1>1, <1>2, <1>3, LookupChangesSupport
<1>5. Prepared!HasCode(input.engine, input.source) /\ Prepared!HasCode(input.engine, input.target)
  BY <1>1, LookupPairsHaveCodes
<1> QED
  BY <1>4, <1>5 DEF LookupPair, config0

\* A request is served by the job its configuration asks for (or, by its stamp, by one with a
\* dictionary that lay at the same address), what the user gave an LLM provider comes back with
\* the provider, and changes of engine and languages lead from pairs with codes to such pairs;
\* for any dictionaries, keys, choices and bounds.
THEOREM SettingsStayFit == SafetySpec => []SettingsFit
<1>1. SafetyInit => LookupInv
  BY LookupStarts DEF SafetyInit
<1>2. LookupInv /\ [SafetyNext]_allVars => LookupInv'
  <2>1. [SafetyNext]_allVars => [Prepared!Next]_Prepared!vars
    BY DEF SafetyNext, allVars, jobVars, Prepared!vars
  <2> QED
    BY <2>1, LookupStep
<1>3. ChosenPairs /\ [SafetyNext]_allVars => ChosenPairs'
  BY DEF SafetyNext, allVars, ChosenPairs, Pairs
<1>4. LookupInv /\ ChosenPairs => SettingsFit
  BY PairsFit
<1> QED
  BY <1>1, <1>2, <1>3, <1>4, PairsAreSupported, PTL DEF SafetySpec
=============================================================================
