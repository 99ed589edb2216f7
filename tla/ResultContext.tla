--------------------------- MODULE ResultContext ----------------------------
(***************************************************************************)
(* What the model reads of the reports of its subagents (herdr-subagent/   *)
(* notifications.ts, refreshSubagentResultGuidance): before every request  *)
(* the notices in the context are rewritten by what the session's branch   *)
(* says of inspections, new work and closed panels.  The context is the    *)
(* branch from the last compaction on.                                     *)
(***************************************************************************)
EXTENDS Naturals, Sequences, FiniteSets

CONSTANTS
    Panel,          \* the subagents, each in its pane
    Completion,     \* the completion ids
    Old,            \* the id of an envelope of an older version: none
    Text,           \* the texts of reports
    MaxMessages     \* a bound on the branch

VARIABLES
    branch,         \* the messages of the branch
    start           \* where the context begins

resultVars == <<branch, start>>

\* A block of a notice: a report, or what the pane showed (a sample), which
\* comes with the action it requires.
Block == [panel : Panel, id : Completion \cup {Old}, text : Text, sample : BOOLEAN]
Notice(blocks) == [kind |-> "notice", blocks |-> blocks]
Inspection(p, texts, ids) == [kind |-> "inspect", panel |-> p, texts |-> texts, consumed |-> ids]
Action(kind, p) == [kind |-> kind, panel |-> p]

ResultTypeOK == start \in 1..(Len(branch) + 1) /\ Len(branch) <= MaxMessages

ResultInit == branch = <<>> /\ start = 1

-----------------------------------------------------------------------------
(* refreshSubagentResultGuidance                                           *)

Kind(kind) == {i \in 1..Len(branch) : branch[i].kind = kind}
InContext(kind) == {i \in Kind(kind) : i >= start}

\* The completions that an inspection has shown: its receipt is on the branch.
Consumed == UNION {branch[i].consumed : i \in Kind("inspect")}

\* How often panel p was given work before message i.
Epoch(p, i) == Cardinality({j \in InContext("send") : j < i /\ branch[j].panel = p})

\* The text of block b of message i stands in an inspection of the same epoch.
\* Mutant: of the whole branch, compacted or not.
AlreadyVisible_OnBranch(b, i) ==
    \E j \in Kind("inspect") :
        branch[j].panel = b.panel /\ b.text \in branch[j].texts /\ Epoch(b.panel, j) = Epoch(b.panel, i)

AlreadyVisible(b, i) ==
    \E j \in InContext("inspect") :
        branch[j].panel = b.panel /\ b.text \in branch[j].texts /\ Epoch(b.panel, j) = Epoch(b.panel, i)

\* The places of the blocks, in the order they are read.
Blocks == {x \in InContext("notice") \X (1..2) : x[2] <= Len(branch[x[1]].blocks)}
At(x) == branch[x[1]].blocks[x[2]]
Before(x, y) == x[1] < y[1] \/ (x[1] = y[1] /\ x[2] < y[2])

Removed(x) ==
    IF At(x).id = Old THEN AlreadyVisible(At(x), x[1])
    ELSE \/ At(x).id \in Consumed
         \/ \E y \in Blocks : Before(y, x) /\ At(y).id = At(x).id

Remaining == {x \in Blocks : ~Removed(x)}

\* A report that is in the context already is referred to, unless the notice
\* asks for an inspection of the panel.
Referred(x) ==
    /\ x \in Remaining /\ At(x).id # Old
    /\ AlreadyVisible(At(x), x[1])
    /\ ~\E y \in Blocks : y[1] = x[1] /\ At(y).panel = At(x).panel /\ At(y).sample

\* The panels a notice still asks the model to inspect.
Directives(i) ==
    LET removed == {At(x).panel : x \in {y \in Blocks \ Remaining : y[1] = i}}
        closed == {branch[j].panel : j \in InContext("close")} IN
    {At(x).panel : x \in {y \in Remaining : y[1] = i /\ At(y).sample}} \ (removed \cup closed)

-----------------------------------------------------------------------------
(* What happens in the session                                             *)

Add(message) ==
    /\ Len(branch) < MaxMessages
    /\ branch' = Append(branch, message)
    /\ UNCHANGED start

\* A completion has one text.
Consistent(b) ==
    b.id # Old => \A i \in Kind("notice") : \A k \in 1..Len(branch[i].blocks) :
        branch[i].blocks[k].id = b.id => branch[i].blocks[k] = b

ReportArrives(b) == Consistent(b) /\ Add(Notice(<<b>>))

\* A group holds one report of each of its subagents.
GroupArrives(b, c) ==
    /\ b.panel # c.panel
    /\ b.id # c.id /\ Old \notin {b.id, c.id}
    /\ Consistent(b) /\ Consistent(c)
    /\ Add(Notice(<<b, c>>))

\* beginInspection: the receipt names reports whose whole text was returned.
Inspect(p, texts, ids) ==
    /\ \A id \in ids : \E i \in Kind("notice") : \E k \in 1..Len(branch[i].blocks) :
        /\ branch[i].blocks[k].id = id
        /\ branch[i].blocks[k].panel = p
        /\ branch[i].blocks[k].text \in texts
    /\ Add(Inspection(p, texts, ids))

Compact ==
    /\ start' \in (start + 1)..(Len(branch) + 1)
    /\ UNCHANGED branch

ResultNext ==
    \/ \E b \in Block : ReportArrives(b)
    \/ \E b, c \in Block : GroupArrives(b, c)
    \/ \E p \in Panel, texts \in SUBSET Text, ids \in SUBSET Completion : Inspect(p, texts, ids)
    \/ \E p \in Panel : Add(Action("send", p)) \/ Add(Action("close", p))
    \/ Compact

-----------------------------------------------------------------------------
(* Properties                                                              *)

\* The text of x can be read in the context that is sent.
Readable(x) ==
    \/ \E y \in Remaining : At(y).text = At(x).text /\ ~Referred(y)
    \/ \E j \in InContext("inspect") : At(x).text \in branch[j].texts

\* No rewriting loses a report: what a notice in the context reports is either
\* consumed, by an inspection that showed it, or still readable, and is told
\* again when the panel was given work since it was read; and none is told
\* twice.  Whatever is removed or compacted, a notice asks for no inspection of
\* a panel whose report it has dropped.
ReportsStayReadable ==
    /\ \A x \in Blocks :
        /\ At(x).id \notin Consumed => Readable(x)
        /\ (x \notin Remaining /\ At(x).id = Old) =>
            \E j \in InContext("inspect") :
                /\ branch[j].panel = At(x).panel
                /\ ~\E s \in InContext("send") :
                    /\ branch[s].panel = At(x).panel
                    /\ (j < s /\ s < x[1]) \/ (x[1] < s /\ s < j)
    /\ \A x, y \in Remaining : (x # y /\ At(x).id = At(y).id) => At(x).id = Old
    /\ \A x \in Blocks \ Remaining : At(x).panel \notin Directives(x[1])
=============================================================================
