----------------------------- MODULE ConfigFile -----------------------------
(***************************************************************************)
(* config.toml: how it is read when a process starts, what happens to one  *)
(* that cannot be read, and how it is replaced (config/app.rs,             *)
(* fs_util.rs).  A process is the window application, which saves its      *)
(* settings, or the command line, which only reads them - but creates,     *)
(* sets aside or relocates the file like the other.  Contents are numbered *)
(* in the order they are made; 0 are the defaults.                         *)
(***************************************************************************)
EXTENDS Naturals, FiniteSets

CONSTANTS
    Process,        \* processes, of which
    CommandLine,    \* these run one command
    MaxContents,    \* bound: contents made by the user
    MaxStarts,      \* bound: starts of processes
    MaxFaults       \* bound: steps of the file system that fail, and crashes

VARIABLES
    file,       \* what is at the path
    aside,      \* contents set aside (config.toml.corrupt-...), with the processes that may have
                \* found their name free before
    temp,       \* the temporary file of each process
    bundle,     \* whether the EzTrans bundle is beside the executable
    held,       \* whether another program keeps the file from being opened or replaced
    proc,       \* [at, settings, seen, blind, last] of each process
    contents, starts, faults

vars == <<file, aside, temp, bundle, held, proc, contents, starts, faults>>

-----------------------------------------------------------------------------
(* Contents: `form` is what a decoder makes of them, `path` where the      *)
(* EzTrans files are said to be: a Dat folder (earlier versions), a place  *)
(* of the user's, the bundle of another folder, or the bundle here; `api`  *)
(* says whether the custom API is the single one of schema 0 or a list.    *)
Forms == {"ok", "legacy", "newer", "broken", "not_text"}
Absent == [form |-> "absent", n |-> 0, path |-> "user", api |-> "list"]
Partial == [Absent EXCEPT !.form = "part"]
Defaults == [form |-> "ok", n |-> 0, path |-> "here", api |-> "list"]
Contents(n) == [form : Forms, n : {n}, path : {"dat", "user", "elsewhere", "here"}, api : {"single", "list"}]

\* Config::migrate
Migrated(c) ==
    [c EXCEPT !.form = "ok",
              !.api = IF c.form = "legacy" THEN "list" ELSE @,
              !.path = IF @ = "dat" THEN "user" ELSE @]

\* from_toml_str: a later schema is refused as a text that does not parse is.
\* Mutant: it is read as far as this version knows it.
DecodesAnySchema(c) == c.form \in {"ok", "legacy", "newer"}
Decodes(c) == c.form \in {"ok", "legacy"}

\* relocate_missing_bundled_eztrans_paths
Relocates(c) == c.path = "elsewhere" /\ bundle

-----------------------------------------------------------------------------
NotRunning == [at |-> "off", settings |-> Defaults, seen |-> Absent, blind |-> FALSE, last |-> FALSE]

States == {"off", "reading", "quarantine", "running", "creating", "writing", "replacing"}

TypeOK ==
    /\ file.form \in Forms \cup {"absent", "part"}
    /\ aside \subseteq [n : 0..MaxContents, rivals : SUBSET Process]
    /\ \A p \in Process : proc[p].at \in States /\ proc[p].blind \in BOOLEAN
    /\ contents <= MaxContents /\ starts <= MaxStarts /\ faults <= MaxFaults

\* Earlier contents of any form, or none.
Init ==
    /\ file \in {Absent} \cup Contents(1)
    /\ contents = 1
    /\ aside = {} /\ temp = [p \in Process |-> Absent]
    /\ bundle \in BOOLEAN /\ held = FALSE
    /\ proc = [p \in Process |-> NotRunning]
    /\ starts = 0 /\ faults = 0

Goes(p, at) == proc' = [proc EXCEPT ![p].at = at]
Fault == faults < MaxFaults /\ faults' = faults + 1

\* load_or_default_from: is there a file?
Start(p) ==
    /\ proc[p].at = "off" /\ starts < MaxStarts
    /\ starts' = starts + 1
    /\ proc' = [proc EXCEPT ![p] =
            IF file = Absent
            THEN [NotRunning EXCEPT !.at = "creating"]
            ELSE [NotRunning EXCEPT !.at = "reading"]]
    /\ UNCHANGED <<file, aside, temp, bundle, held, contents, faults>>

\* What it reads decides: settings, the defaults with the file left, or the file set aside.
Read(p) ==
    /\ proc[p].at = "reading"
    /\ LET Becomes(at, settings, blind) ==
            proc' = [proc EXCEPT ![p] =
                        [@ EXCEPT !.at = at, !.settings = settings, !.seen = file, !.blind = blind]]
           now == Migrated(file)
       IN IF held \/ file.form \in {"absent", "not_text"} THEN Becomes("running", Defaults, TRUE)
          ELSE IF ~Decodes(file) THEN Becomes("quarantine", Defaults, FALSE)
          ELSE IF Relocates(now) THEN Becomes("creating", [now EXCEPT !.path = "here"], FALSE)
          ELSE Becomes("running", now, FALSE)
    /\ UNCHANGED <<file, aside, temp, bundle, held, contents, starts, faults>>

WithoutRival(p, set) == {[a EXCEPT !.rivals = @ \ {p}] : a \in set}

\* quarantine_corrupt_file: whatever is at the path by now is renamed.  A name that was free when
\* it was looked for may have been taken since: then what has it is lost.
Quarantine(p) ==
    /\ proc[p].at = "quarantine"
    /\ ~held /\ file # Absent
    /\ \E lost \in {{}} \cup {{a} : a \in aside} :
        /\ \A a \in lost : p \in a.rivals
        /\ aside' = WithoutRival(p, aside \ lost) \cup
                {[n |-> file.n, rivals |-> {q \in Process \ {p} : proc[q].at = "quarantine"}]}
    /\ file' = Absent
    /\ proc' = [proc EXCEPT ![p].at = "running", ![p].seen = Absent]
    /\ UNCHANGED <<temp, bundle, held, contents, starts, faults>>

QuarantineFails(p) ==
    /\ proc[p].at = "quarantine"
    /\ \/ (held \/ file = Absent) /\ UNCHANGED faults
       \/ Fault
    /\ proc' = [proc EXCEPT ![p].at = "running", ![p].blind = TRUE]
    /\ aside' = WithoutRival(p, aside)
    /\ UNCHANGED <<file, temp, bundle, held, contents, starts>>

\* The user changes a setting; the settings are saved then or when the application ends.
Change(p) ==
    /\ p \notin CommandLine /\ proc[p].at = "running" /\ contents < MaxContents
    /\ contents' = contents + 1
    /\ \E path \in {proc[p].settings.path, "user"} :
          proc' = [proc EXCEPT ![p].settings.n = contents + 1, ![p].settings.path = path]
    /\ UNCHANGED <<file, aside, temp, bundle, held, starts, faults>>

\* A save: of a file to create or relocate, after a change, or the last one of the application.
Saves(p) ==
    \/ proc[p].at = "creating" /\ Goes(p, "writing")
    \/ /\ proc[p].at = "running" /\ p \notin CommandLine
       /\ \E last \in BOOLEAN :
            proc' = [proc EXCEPT ![p].at = "writing", ![p].last = last]

\* atomic_write: a temporary file of the process's own, written bit by bit ...
\* Mutant: the file itself is written.
WriteInPlace(p) ==
    /\ Saves(p)
    /\ file' = Partial /\ temp' = [temp EXCEPT ![p] = Partial]
    /\ UNCHANGED <<aside, bundle, held, contents, starts, faults>>
BeginSave(p) ==
    /\ Saves(p)
    /\ temp' = [temp EXCEPT ![p] = Partial]
    /\ UNCHANGED <<file, aside, bundle, held, contents, starts, faults>>

\* save_to_file's migrate and normalize, to the end of the file
FinishWriting(p) ==
    /\ proc[p].at = "writing"
    /\ temp' = [temp EXCEPT ![p] = Migrated(proc[p].settings)]
    /\ Goes(p, "replacing")
    /\ UNCHANGED <<file, aside, bundle, held, contents, starts, faults>>

\* ... and put in the file's place in one step.
Replace(p) ==
    /\ proc[p].at = "replacing" /\ ~held
    /\ file' = temp[p]
    /\ temp' = [temp EXCEPT ![p] = Absent]
    /\ proc' = [proc EXCEPT ![p] =
            IF proc[p].last THEN NotRunning ELSE [@ EXCEPT !.at = "running",
                                    !.seen = IF proc[p].blind THEN proc[p].seen ELSE temp[p]]]
    /\ UNCHANGED <<aside, bundle, held, contents, starts, faults>>

SaveFails(p) ==
    /\ proc[p].at \in {"writing", "replacing"}
    /\ \/ proc[p].at = "replacing" /\ held /\ UNCHANGED faults
       \/ Fault
    /\ temp' = [temp EXCEPT ![p] = Absent]
    /\ proc' = [proc EXCEPT ![p] = IF @.last THEN NotRunning ELSE [@ EXCEPT !.at = "running"]]
    /\ UNCHANGED <<file, aside, bundle, held, contents, starts>>

\* A command ends; the application ends with a last save, whether that succeeds or not.
End(p) ==
    /\ proc[p].at = "running" /\ p \in CommandLine
    /\ proc' = [proc EXCEPT ![p] = NotRunning]
    /\ UNCHANGED <<file, aside, temp, bundle, held, contents, starts, faults>>

\* What a crash leaves in a temporary file is never used again.
Crash(p) ==
    /\ proc[p].at # "off"
    /\ Fault
    /\ proc' = [proc EXCEPT ![p] = NotRunning]
    /\ temp' = [temp EXCEPT ![p] = Absent]
    /\ aside' = WithoutRival(p, aside)
    /\ UNCHANGED <<file, bundle, held, contents, starts>>

Hold ==
    /\ held' = ~held
    /\ ~held => Fault
    /\ held => UNCHANGED faults
    /\ UNCHANGED <<file, aside, temp, bundle, proc, contents, starts>>

\* The user edits the file between two runs.
EditByHand ==
    /\ contents < MaxContents /\ \A p \in Process : proc[p].at = "off"
    /\ contents' = contents + 1
    /\ file' \in [form : {"ok", "broken", "newer"}, n : {contents + 1}, path : {"user"}, api : {"list"}]
    /\ UNCHANGED <<aside, temp, bundle, held, proc, starts, faults>>

Next ==
    \/ \E p \in Process :
          \/ Start(p) \/ Read(p) \/ Quarantine(p) \/ QuarantineFails(p) \/ Change(p)
          \/ BeginSave(p) \/ FinishWriting(p) \/ Replace(p) \/ SaveFails(p) \/ End(p) \/ Crash(p)
    \/ Hold \/ EditByHand

Spec == Init /\ [][Next]_vars

-----------------------------------------------------------------------------
(* Properties                                                              *)

(* Whenever a process is killed or a step of a save fails, the file is     *)
(* one save or the other from end to end, never the beginning of one.      *)
FileIsWhole == file.form # "part"

(* Contents that were at the path are lost only to a process that had read *)
(* them or put them there: what a process could not read, because it did   *)
(* not parse or came from a later version, is set aside first.  Excepted   *)
(* are processes that run on the defaults because they could not open the  *)
(* file or set it aside, and contents put there since the process last     *)
(* looked, by another one.                                                 *)
ReplacedOnlyWhenRead ==
    [][\/ file' = file \/ file.form = "absent" \/ (\E a \in aside' : a.n = file.n)
       \/ contents' # contents
       \/ \E p \in Process :
            /\ proc[p].at = "replacing" /\ temp'[p] = Absent
            /\ proc[p].blind \/ proc[p].seen # file \/ file.form \in {"ok", "legacy"}]_vars

(* "The original settings are kept and the application starts with the     *)
(* defaults": a file that could not be read is there, or set aside, as     *)
(* long as nobody else touches it.                                         *)
UnreadableIsKept ==
    \A p \in Process : proc[p].blind /\ proc[p].seen.form # "absent" =>
        file.n = proc[p].seen.n \/ (\E a \in aside : a.n = proc[p].seen.n)
        \/ \E q \in Process \ {p} : proc[q].at # "off"
=============================================================================
