------------------------------ MODULE FileText ------------------------------
(***************************************************************************)
(* The pure parts of file translation (file_trans/): reading and counting  *)
(* lines, cutting them into windows and batches for ezTrans, putting the   *)
(* answers back, and naming the outputs.  Each is a function of its input; *)
(* the specification only chooses an input, and the invariants compare the *)
(* function with what it is for.                                           *)
(***************************************************************************)
EXTENDS Integers, Sequences, FiniteSets, SequencesExt, FiniteSetsExt

CONSTANTS
    MaxBytes,       \* bound: symbols of a file
    MaxLines,       \* bound: lines of a window, inputs of a job
    LineBytes,      \* MAX_LINE_BYTES
    WindowLines, WindowChars,   \* EZTRANS_WINDOW_MAX_LINES, _CHARS
    BatchLines, BatchChars      \* EZTRANS_BATCH_MAX_LINES, _CHARS

VARIABLE input      \* [kind, ...]: the function under test and its arguments

\* The symbols of a file: the byte order mark, CR, LF, a letter, and the two bytes of a
\* longer character.
Symbols == {"bom", "cr", "lf", "x", "lead", "cont"}
SeqsUpTo(S, n) == UNION {[1..k -> S] : k \in 0..n}
Concat(ss) == FoldLeft(LAMBDA a, b : a \o b, << >>, ss)
Capped(n, low, high) == IF n < low THEN low ELSE IF n > high THEN high ELSE n

-----------------------------------------------------------------------------
(* input.rs                                                                *)

\* The decoder of str::from_utf8: "ok", "tail" (it ends inside a character) or "bad".
Utf8(s) ==
    FoldLeft(LAMBDA st, b : CASE st = "bad" -> "bad"
                              [] st = "ok" -> IF b = "lead" THEN "tail"
                                              ELSE IF b = "cont" THEN "bad" ELSE "ok"
                              [] st = "tail" -> IF b = "cont" THEN "ok" ELSE "bad",
             "ok", s)

WithoutBom(s) == IF s # << >> /\ s[1] = "bom" THEN Tail(s) ELSE s

\* The chunks that the reads return: the file is cut behind the positions in cuts.
Chunks(s, cuts) ==
    LET ends == SetToSortSeq(cuts \cup {Len(s)}, <)
    IN  IF s = << >> THEN << >>
        ELSE [i \in DOMAIN ends |-> SubSeq(s, (IF i = 1 THEN 0 ELSE ends[i - 1]) + 1, ends[i])]

\* The last line counts when it has no line feed.
LastLine(total, last) == IF total > 0 /\ last # "lf" THEN 1 ELSE 0

\* validate_and_count_reader: -1 when a chunk shows that the text is not UTF-8.
CountLines(chunks) ==
    LET step(st, chunk) ==
            LET body == IF st.first THEN WithoutBom(chunk) ELSE chunk
                code == Utf8(st.pending \o body)
            IN  [first |-> FALSE,
                 bad |-> st.bad \/ code = "bad",
                 pending |-> IF code = "tail" THEN <<Last(st.pending \o body)>> ELSE << >>,
                 total |-> st.total + Len(body),
                 newlines |-> st.newlines + Len(SelectSeq(body, LAMBDA b : b = "lf")),
                 last |-> IF body = << >> THEN st.last ELSE Last(body)]
        end == FoldLeft(step, [first |-> TRUE, bad |-> FALSE, pending |-> << >>,
                               total |-> 0, newlines |-> 0, last |-> "none"], chunks)
    IN  IF end.bad \/ end.pending # << >> THEN -1
        ELSE end.newlines + LastLine(end.total, end.last)

\* The bytes up to and with each line feed.
RawLines(s) ==
    LET step(st, b) == IF b = "lf" THEN [done |-> Append(st.done, Append(st.line, b)), line |-> << >>]
                       ELSE [st EXCEPT !.line = Append(@, b)]
        end == FoldLeft(step, [done |-> << >>, line |-> << >>], s)
    IN  IF end.line = << >> THEN end.done ELSE Append(end.done, end.line)

(* Mutant: the last line is taken to end like the others. *)
EndingAssumed(raw) ==
    IF Len(raw) > 1 /\ Last(raw) = "lf" /\ raw[Len(raw) - 1] = "cr" THEN <<"cr", "lf">>
    ELSE <<"lf">>

EndingOf(raw) ==
    IF Len(raw) > 1 /\ Last(raw) = "lf" /\ raw[Len(raw) - 1] = "cr" THEN <<"cr", "lf">>
    ELSE IF Last(raw) = "lf" THEN <<"lf">> ELSE << >>

\* read_input_line until it returns None or fails: text and ending of each line before, and why it
\* stopped.  A line is measured with its ending and the mark.
ReadLines(s) ==
    LET raws == RawLines(s)
        text(i) == LET t == SubSeq(raws[i], 1, Len(raws[i]) - Len(EndingOf(raws[i])))
                   IN  IF i = 1 THEN WithoutBom(t) ELSE t
        tooLong(i) == Len(raws[i]) > LineBytes
        stops == {i \in DOMAIN raws : tooLong(i) \/ Utf8(text(i)) # "ok"}
        lines == [i \in DOMAIN raws |-> [text |-> text(i), ending |-> EndingOf(raws[i])]]
        first == Min(stops)
    IN  IF stops # {} THEN [lines |-> SubSeq(lines, 1, first - 1),
                            error |-> IF tooLong(first) THEN "too long" ELSE "encoding"]
        ELSE IF raws # << >> /\ text(1) = << >> /\ EndingOf(raws[1]) = << >>
        THEN [lines |-> << >>, error |-> "none"]
        ELSE [lines |-> lines, error |-> "none"]

\* write_output with TranslationOnly and a translation equal to the original.
WrittenBack(lines) == Concat([i \in DOMAIN lines |-> lines[i].text \o lines[i].ending])

-----------------------------------------------------------------------------
(* batch.rs and eztrans.rs; a line is the number of its characters, or a   *)
(* pair of a text and that number where texts matter                       *)

Sum(s) == FoldLeft(+, 0, s)
\* The characters of a group with the line feeds between its lines.
Chars(group) == Sum(group) + Len(group) - 1

FitsIn(g, l, lines, chars) == Len(g) < lines /\ Chars(g) + 1 + l <= chars

\* Groups of consecutive lines, each as long as its limits allow.
Grouped(lines, maxLines, maxChars) ==
    FoldLeft(LAMBDA gs, l : IF gs # << >> /\ FitsIn(Last(gs), l, maxLines, maxChars)
                            THEN [gs EXCEPT ![Len(gs)] = Append(@, l)]
                            ELSE Append(gs, <<l>>),
             << >>, lines)

\* collect_eztrans_window, call after call until the file ends.
Windows(lines) == Grouped(lines, WindowLines, WindowChars)

CeilDiv(a, b) == (a + b - 1) \div b

\* partition_eztrans_batches
Batches(lines, processes) ==
    LET p == IF processes < 1 THEN 1 ELSE processes
        maxLines == Capped(CeilDiv(Len(lines), p), 1, BatchLines)
        maxChars == Capped(CeilDiv(Sum(lines) + Len(lines), p), 1, BatchChars)
    IN  Grouped(lines, maxLines, maxChars)

\* translate_eztrans_window: cached lines, then each other text once, in the order of
\* its first line.
Misses(texts, cached) ==
    FoldLeft(LAMBDA ms, t : IF t \in cached \/ t \in Range(ms) THEN ms ELSE Append(ms, t),
             << >>, texts)
MissIndex(texts, cached, i) ==
    CHOOSE m \in DOMAIN Misses(texts, cached) : Misses(texts, cached)[m] = texts[i]
WindowResults(texts, cached) ==
    LET answers == [m \in DOMAIN Misses(texts, cached) |-> <<"ko", Misses(texts, cached)[m]>>]
    IN  [i \in DOMAIN texts |->
            IF texts[i] \in cached THEN <<"ko", texts[i]>>
            ELSE LET m == MissIndex(texts, cached, i)
                 IN  IF m \in DOMAIN answers THEN answers[m] ELSE <<"none">>]

IsSpace(c) == c \in {"sp", "wide"}

\* The engine puts a space on both sides of a line feed unless the text has one there.
EngineJoin(parts) ==
    LET padded(i) ==
            (IF i > 1 /\ ~(parts[i] # << >> /\ IsSpace(parts[i][1])) THEN <<"sp">> ELSE << >>)
            \o parts[i]
            \o (IF i < Len(parts) /\ ~(parts[i] # << >> /\ IsSpace(Last(parts[i])))
                THEN <<"sp">> ELSE << >>)
    IN  [i \in DOMAIN parts |-> padded(i)]

StripAdded(part, side, original) ==
    CASE side = "front" /\ part # << >> /\ part[1] = "sp"
           /\ ~(original # << >> /\ IsSpace(original[1])) -> Tail(part)
      [] side = "back" /\ part # << >> /\ Last(part) = "sp"
           /\ ~(original # << >> /\ IsSpace(Last(original))) -> Front(part)
      [] OTHER -> part

\* split_eztrans_batch on the lines of the answer: none when their number differs.
SplitBatch(answer, originals) ==
    IF Len(answer) # Len(originals) THEN << >>
    ELSE [i \in DOMAIN answer |->
            LET front == IF i > 1 THEN StripAdded(answer[i], "front", originals[i]) ELSE answer[i]
            IN  IF i < Len(answer) THEN StripAdded(front, "back", originals[i]) ELSE front]

-----------------------------------------------------------------------------
(* mod.rs: a path is [dir, stem, ext], a stem the sequence of its parts, a *)
(* part a pair of a word and a number ("_ko", then "_ko2"); the words "a"  *)
(* and "A" differ in case only, and the directory "link" leads to "dir"    *)

Lower(part) == IF part[1] = "A" THEN <<"a", part[2]>> ELSE part

\* lexical_path_key: the file system is not asked.
LexicalKey(p) == [p EXCEPT !.stem = [i \in DOMAIN p.stem |-> Lower(p.stem[i])]]

\* The file that a path leads to.
FileOf(p) == [LexicalKey(p) EXCEPT !.dir = "dir"]

\* normalized_path_key: canonicalize finds only what exists; a path to nothing stays as it is.
JobKey(p, existing) == IF FileOf(p) \in existing THEN FileOf(p) ELSE LexicalKey(p)

OutputName(p, suffix) ==
    [dir |-> p.dir, stem |-> Append(p.stem, <<"_ko", suffix>>), ext |-> "txt"]

Taken(inputs, outputs) == {LexicalKey(q) : q \in Range(inputs) \cup Range(outputs)}

\* default_output_paths
DefaultOutputs(inputs) ==
    FoldLeft(LAMBDA outs, p :
                LET free == {n \in 1..(2 * MaxLines + 1) :
                                LexicalKey(OutputName(p, n)) \notin Taken(inputs, outs)}
                IN  Append(outs, OutputName(p, CHOOSE n \in free : \A m \in free : n <= m)),
             << >>, inputs)

\* validate_job_paths
PathsValid(inputs, outputs, existing) ==
    /\ Len(inputs) = Len(outputs)
    /\ \A i \in DOMAIN outputs :
         /\ \A q \in Range(inputs) : JobKey(q, existing) # JobKey(outputs[i], existing)
         /\ \A k \in 1..(i - 1) : JobKey(outputs[k], existing) # JobKey(outputs[i], existing)

-----------------------------------------------------------------------------
Texts == SeqsUpTo({"x", "sp", "wide"}, 2)
Stems == {<< <<"a", 1>> >>, << <<"A", 1>> >>, << <<"a", 1>>, <<"_ko", 1>> >>,
          << <<"a", 1>>, <<"_ko", 2>> >>}
Paths == [dir : {"dir"}, stem : Stems, ext : {"txt", "md"}]
LinkedPaths == [dir : {"dir", "link"}, stem : Stems, ext : {"txt"}]
\* Files that lie there beside the inputs.
Others == SUBSET {FileOf(p) : p \in {q \in LinkedPaths : Len(q.stem) = 2}}

Init ==
    \/ \E s \in SeqsUpTo(Symbols, MaxBytes) : \E cuts \in SUBSET (1..(Len(s) - 1)) :
          input = [kind |-> "file", bytes |-> s, cuts |-> cuts]
    \/ \E ls \in SeqsUpTo(0..3, MaxLines) : \E p \in 0..3 :
          input = [kind |-> "lines", lines |-> ls, processes |-> p]
    \/ \E ts \in SeqsUpTo({"s", "t", "u"}, MaxLines), c \in SUBSET {"s", "t", "u"} :
          input = [kind |-> "window", texts |-> ts, cached |-> c]
    \/ \E ps \in SeqsUpTo(Texts, 3) : input = [kind |-> "split", parts |-> ps]
    \/ \E ps \in SeqsUpTo(Paths, 3), fs \in Others :
          input = [kind |-> "paths", inputs |-> ps, others |-> fs]
    \/ \E ps, qs \in SeqsUpTo(LinkedPaths, 2), fs \in Others :
          input = [kind |-> "job", inputs |-> ps, outputs |-> qs, others |-> fs]

Spec == Init /\ [][UNCHANGED input]_input

-----------------------------------------------------------------------------
(* Properties                                                              *)

CountsAgree ==
    LET read == ReadLines(input.bytes)
        count == CountLines(Chunks(input.bytes, input.cuts))
    IN  /\ count = -1 => read.error # "none"
        /\ count # -1 =>
             /\ read.error # "encoding"
             /\ IF read.error = "none" THEN count = Len(read.lines) ELSE count > Len(read.lines)
        /\ read.error = "none" => WrittenBack(read.lines) = WithoutBom(input.bytes)

\* preflight_inputs and read_input_line agree, however the reads cut the file: what passes the
\* check is read without an error of its encoding, and what does not is never read to its end; the
\* number of lines that the progress is measured by is the number that is written; and a file
\* whose lines are all kept comes out as it was, without its mark.  The check knows no limit of a
\* line: one that is too long stops the reading of a file that has passed, before its last line.
FilesKeepTheirText == input.kind = "file" => CountsAgree

Within(groups, lines, chars) ==
    \A i \in DOMAIN groups :
        groups[i] # << >> /\ Len(groups[i]) <= lines
        /\ (Chars(groups[i]) <= chars \/ Len(groups[i]) = 1)

GroupsWithinLimits ==
    LET ws == Windows(input.lines)
        bs == Batches(input.lines, input.processes)
    IN  /\ Concat(ws) = input.lines /\ Within(ws, WindowLines, WindowChars)
        /\ Concat(bs) = input.lines /\ Within(bs, BatchLines, BatchChars)

\* Every line gets the translation of its own text: windows and batches hold all lines in
\* their order and keep to their limits (a line longer than a limit goes alone), repeated
\* and cached lines take the answer of their text, and splitting a joined batch undoes the
\* engine's joining without losing a space of the original.
LinesGetTheirOwn ==
    /\ input.kind = "lines" => GroupsWithinLimits
    /\ input.kind = "window" =>
         \A i \in DOMAIN input.texts :
             WindowResults(input.texts, input.cached)[i] = <<"ko", input.texts[i]>>
    /\ input.kind = "split" =>
         SplitBatch(EngineJoin(input.parts), input.parts) = input.parts

Existing == {FileOf(q) : q \in Range(input.inputs)} \cup input.others

\* The outputs that the dialog proposes pass the worker's check of paths, though the one compares
\* names and the other asks the file system, for inputs that are not named through links.
DefaultsAreValid ==
    input.kind = "paths" => PathsValid(input.inputs, DefaultOutputs(input.inputs), Existing)

\* A job whose paths pass the check writes over none of its inputs, whatever links they are named
\* through, and no two of its outputs are one file, unless that does not exist yet and is named
\* through two directories.
OutputsKeptApart ==
    input.kind = "job" /\ PathsValid(input.inputs, input.outputs, Existing) =>
        \A i \in DOMAIN input.outputs :
            LET p == input.outputs[i]
            IN  /\ \A q \in Range(input.inputs) : FileOf(q) # FileOf(p)
                /\ \A k \in 1..(i - 1) :
                     FileOf(input.outputs[k]) = FileOf(p) =>
                         FileOf(p) \notin Existing /\ input.outputs[k].dir # p.dir
=============================================================================
