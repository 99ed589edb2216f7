------------------------------ MODULE LspEdits ------------------------------
(***************************************************************************)
(* Edits of a language server applied to files (lsp/tool.ts): the rename,  *)
(* formatting, codeAction and organizeImports operations.  A text is a     *)
(* sequence of characters, NL the line break; a position a line and a      *)
(* character, both from 0.                                                 *)
(***************************************************************************)
EXTENDS Naturals, Sequences, SequencesExt

CONSTANTS
    File,           \* the files
    NL,             \* the line break
    Texts,          \* the texts of the files
    NewTexts,       \* the new texts of edits
    MaxEdits,       \* a bound on the edits of a file
    MaxAnswer,      \* a bound on the edits of an answer
    EditFaults      \* a subset of {"same_start", "past_line", "twice", "stale"}:
                    \* edits with the same start; a character after the end of
                    \* its line; a file named twice; a file is changed while
                    \* approval is asked for

VARIABLES
    content,        \* the text of each file
    answered,       \* the text that the server has made its edits for
    workspaceEdit,  \* the answer: a sequence of files and their edits
    operation,      \* where the operation stands
    applied,        \* how many files of the answer have been dealt with
    next,           \* the text that is being written
    changedFiles    \* the files written by it

editVars == <<content, answered, workspaceEdit, operation, applied, next, changedFiles>>

-----------------------------------------------------------------------------
(* applyTextEdits                                                          *)

Breaks(text) == {i \in DOMAIN text : text[i] = NL}
LineStart(text, line) == \* the characters before it, or all of them
    IF line = 0 THEN 0
    ELSE IF Cardinality(Breaks(text)) < line THEN Len(text)
    ELSE CHOOSE i \in Breaks(text) : Cardinality({j \in Breaks(text) : j <= i}) = line

\* offsetAt: the end of the text is a bound, the end of the line is not.
\* Mutant: the line break counts as a character of the next line.
OffsetAt_Break(text, position) ==
    LET start == LineStart(text, position.line)
        offset == IF start = 0 THEN position.character ELSE start + position.character - 1
    IN  IF Len(text) < offset THEN Len(text) ELSE offset

OffsetAt(text, position) ==
    LET offset == LineStart(text, position.line) + position.character
    IN  IF Len(text) < offset THEN Len(text) ELSE offset

Ranges(text, edits) == [i \in DOMAIN edits |->
    [start |-> OffsetAt(text, edits[i].start), end |-> OffsetAt(text, edits[i].end),
     newText |-> edits[i].newText]]

\* The last edit comes first; sort() keeps the order of those that start alike.
LastFirst(ranges) ==
    LET order == SortSeq([i \in DOMAIN ranges |-> i], LAMBDA i, j :
            \/ ranges[i].start > ranges[j].start
            \/ ranges[i].start = ranges[j].start /\ i < j)
    IN  [i \in DOMAIN ranges |-> ranges[order[i]]]

Overlapping(ranges) == \E i \in DOMAIN ranges :
    \/ ranges[i].start > ranges[i].end
    \/ i > 1 /\ ranges[i].end > ranges[i - 1].start

Replace(text, range) ==
    SubSeq(text, 1, range.start) \o range.newText \o SubSeq(text, range.end + 1, Len(text))

ApplyTextEdits(text, edits) == FoldLeft(Replace, text, LastFirst(Ranges(text, edits)))

-----------------------------------------------------------------------------
(* What the server answers: edits of ranges in the text it knows           *)

PositionOf(text, offset) ==
    LET line == Cardinality({i \in Breaks(text) : i <= offset})
    IN  [line |-> line, character |-> offset - LineStart(text, line)]

PastLine(text, position) ==
    {position} \cup IF "past_line" \in EditFaults
                    THEN {[position EXCEPT !.character = @ + 1]} ELSE {}

EditsOf(text) ==
    LET offsets == 0..Len(text)
        Edits == [start : {PositionOf(text, k) : k \in offsets},
                  end : UNION {PastLine(text, PositionOf(text, k)) : k \in offsets},
                  newText : NewTexts]
        distinct(edits) == \A i, j \in DOMAIN edits : i # j => edits[i].start # edits[j].start
    IN  {edits \in BoundedSeq(Edits, MaxEdits) : distinct(edits) \/ "same_start" \in EditFaults}

Named == {files \in BoundedSeq(File, 2) :
    IsInjective(files) \/ "twice" \in EditFaults}

Answers(files, text) == {edits \in [DOMAIN files -> EditsOf(text)] :
    FoldLeft(LAMBDA n, e : n + Len(e), 0, edits) <= MaxAnswer}

Stages == {"idle", "answered", "applying", "writing", "touched", "failed", "torn"}

EditsTypeOK ==
    /\ \A f \in File : content[f] \in Seq({NL} \cup UNION {Range(t) : t \in Texts \cup NewTexts})
    /\ operation \in Stages
    /\ changedFiles \subseteq File
    /\ \A i \in DOMAIN workspaceEdit : workspaceEdit[i].file \in File
    /\ applied \in 0..Len(workspaceEdit)
    /\ operation # "writing" => next = <<>>

EditsInit ==
    /\ content \in {[f \in File |-> t] : t \in Texts}
    /\ answered = content
    /\ workspaceEdit = <<>> /\ operation = "idle" /\ applied = 0 /\ next = <<>> /\ changedFiles = {}

\* requestEffect: textDocument/rename, formatting or codeAction
Answer ==
    /\ operation = "idle"
    /\ answered' = content
    /\ \E files \in Named : \E edits \in Answers(files, content[CHOOSE f \in File : TRUE]) :
        workspaceEdit' = [i \in DOMAIN files |-> [file |-> files[i], edits |-> edits[i]]]
    /\ operation' = "answered"
    /\ UNCHANGED <<content, applied, next, changedFiles>>

\* mutationApproval
Approve(approved) ==
    /\ operation = "answered"
    /\ operation' = IF approved THEN "applying" ELSE "failed"
    /\ UNCHANGED <<content, answered, workspaceEdit, applied, next, changedFiles>>

Current == workspaceEdit[applied + 1]

\* applyWorkspaceEdit, one file: edits that overlap end the operation; a text that
\* changes is written in place, so that the file is emptied first.
ApplyToFile ==
    LET text == content[Current.file]
        changed == ApplyTextEdits(text, Current.edits) IN
    /\ operation = "applying" /\ applied < Len(workspaceEdit)
    /\ IF Overlapping(LastFirst(Ranges(text, Current.edits)))
       THEN operation' = "failed" /\ UNCHANGED <<content, applied, next>>
       ELSE IF changed = text
            THEN applied' = applied + 1 /\ UNCHANGED <<content, operation, next>>
            ELSE /\ content' = [content EXCEPT ![Current.file] = <<>>]
                 /\ next' = changed /\ operation' = "writing"
                 /\ UNCHANGED applied
    /\ UNCHANGED <<answered, workspaceEdit, changedFiles>>

WriteFile ==
    /\ operation = "writing"
    /\ content' = [content EXCEPT ![Current.file] = next]
    /\ changedFiles' = changedFiles \cup {Current.file}
    /\ applied' = applied + 1 /\ next' = <<>> /\ operation' = "applying"
    /\ UNCHANGED <<answered, workspaceEdit>>

\* What comes next is no entry with edits, its URI is not of a file, the file
\* cannot be read or opened, or the call is aborted: the files before it stay as
\* they are.
FileFails ==
    /\ operation = "applying" /\ applied < Len(workspaceEdit)
    /\ operation' = "failed"
    /\ UNCHANGED <<content, answered, workspaceEdit, applied, next, changedFiles>>

\* A write that fails, or that is aborted, may have written a part.
WriteFails ==
    /\ operation = "writing" /\ operation' = "torn"
    /\ \E n \in 0..Len(next) : content' = [content EXCEPT ![Current.file] = SubSeq(next, 1, n)]
    /\ next' = <<>>
    /\ UNCHANGED <<answered, workspaceEdit, applied, changedFiles>>

\* touchChangedFiles
Applied ==
    /\ operation = "applying" /\ applied = Len(workspaceEdit)
    /\ operation' = "touched"
    /\ UNCHANGED <<content, answered, workspaceEdit, applied, next, changedFiles>>

\* The files are changed by another.
OtherEdit ==
    /\ operation = "idle" \/ ("stale" \in EditFaults /\ operation = "answered")
    /\ content' = [f \in File |-> <<NL>>]
    /\ UNCHANGED <<answered, workspaceEdit, operation, applied, next, changedFiles>>

EditsNext ==
    \/ Answer \/ (\E approved \in BOOLEAN : Approve(approved))
    \/ ApplyToFile \/ WriteFile \/ FileFails \/ WriteFails \/ Applied \/ OtherEdit

-----------------------------------------------------------------------------
(* Properties                                                              *)

\* What the protocol says of edits: all are of the text before, so a character
\* stays unless a range covers it, and new text comes where its range starts;
\* a character past the end of its line is the end of the line.
Meant(text, edits) ==
    LET offset(position) == Max({k \in 0..Len(text) :
            /\ PositionOf(text, k).line = position.line
            /\ PositionOf(text, k).character <= position.character})
        starting(k) == {i \in DOMAIN edits : offset(edits[i].start) = k}
        covered(k) == \E i \in DOMAIN edits : offset(edits[i].start) < k /\ k <= offset(edits[i].end)
    IN  FlattenSeq([k \in 1..(Len(text) + 1) |->
            (IF starting(k - 1) = {} THEN <<>> ELSE edits[CHOOSE i \in starting(k - 1) : TRUE].newText)
            \o (IF k > Len(text) \/ covered(k) THEN <<>> ELSE <<text[k]>>)])

\* Files are edited one after the other, and each gets exactly what the server
\* meant, or nothing, wherever the operation stops: the files before that place
\* have all their edits, those from there on are as they were, save that a write
\* that failed leaves the beginning of what was meant.  An operation that has ended
\* well has edited them all, and the servers are told of those that changed.
\* Nothing happens before approval (applyTextEdits, applyWorkspaceEdit,
\* mutationApproval).
EditsAreExact ==
    \A i \in DOMAIN workspaceEdit :
        LET f == workspaceEdit[i].file
            meant == Meant(answered[f], workspaceEdit[i].edits)
            torn == i = applied + 1 /\ operation \in {"writing", "torn"} IN
        /\ i <= applied => content[f] = meant /\ (f \in changedFiles <=> meant # answered[f])
        /\ i > applied => f \notin changedFiles /\ operation # "touched"
        /\ i > applied /\ ~torn => content[f] = answered[f]
        /\ torn => IsPrefix(content[f], meant)
=============================================================================
