---------------------------- MODULE RelaySnapshot ----------------------------
(***************************************************************************)
(* The view of a session that the web relay sends (web-herdr-relay/        *)
(* normalization.ts): the newest entries of the context, as messages and   *)
(* tools, cut to fixed numbers and to a size in bytes.  A text is the      *)
(* number of its characters, a size counts bytes in the same unit.         *)
(***************************************************************************)
EXTENDS Naturals, Sequences, FiniteSets, FiniteSetsExt

CONSTANTS
    Tool, Writes,   \* the tool calls, and those that write a file
    None,           \* no tool
    MaxText,        \* MAXIMUM_RELAY_TEXT_LENGTH
    MaxMessages,    \* how many entries, and messages, are sent (240)
    MaxTools,       \* how many tools are sent (80)
    Base,           \* the size of an empty snapshot
    MaxBytes,       \* MAXIMUM_RELAY_SNAPSHOT_BYTES
    MaxTime         \* a bound on what is added to the session

VARIABLE entries    \* buildContextEntries()

Entry == [kind : {"user", "assistant", "toolResult", "hidden", "summary"},
          text : 0..(MaxText + 1), time : Nat, tool : Tool \cup {None}, failed : BOOLEAN]

SnapshotTypeOK == entries \in Seq(Entry) /\ Len(entries) <= MaxTime

SnapshotInit == entries = <<>>

-----------------------------------------------------------------------------
(* normalizeActiveBranch                                                   *)

Places == 1..Len(entries)
IsSummary(i) == entries[i].kind = "summary"
IsRenderable(i) == entries[i].kind # "hidden"

\* retainRenderableEntries.  Mutant: it counts from the beginning.
Retained_Oldest ==
    {i \in Places : /\ IsRenderable(i)
                    /\ IsSummary(i) \/ Cardinality({j \in Places : j < i /\ IsRenderable(j)}) < MaxMessages}

Retained ==
    {i \in Places : /\ IsRenderable(i)
                    /\ IsSummary(i) \/ Cardinality({j \in Places : j > i /\ IsRenderable(j)}) < MaxMessages}

\* boundText: what is left of a text, and whether it was cut.
Bounded(text) == IF text > MaxText THEN MaxText ELSE text
Truncated(text) == text > MaxText

Later(i, j) == entries[i].time > entries[j].time

\* slice(-n) of the entries in chronological order.
Newest(S, n) == {i \in S : Cardinality({j \in S : Later(j, i)}) < n}

\* The messages: an entry without text is one only when it is a summary.
MessageSize(i) == 1 + Bounded(entries[i].text)
Messages == Newest({i \in Retained : IsSummary(i) \/ entries[i].text > 0}, MaxMessages)

\* The tools, each at the entry that tells its state last.
Mentions(t) == {i \in Retained : entries[i].tool = t}
ToolPlaces == {Max(Mentions(t)) : t \in {u \in Tool : Mentions(u) # {}}}
Tools == Newest(ToolPlaces, MaxTools)

WriteState(i) ==
    LET asked == \E j \in Retained : j < i /\ entries[j].tool = entries[i].tool IN
    CASE entries[i].tool \notin Writes -> "none"
      [] entries[i].kind = "assistant" -> "pending"
      [] entries[i].kind = "toolResult" /\ ~asked -> "none"
      [] OTHER -> IF entries[i].failed THEN "unavailable" ELSE "available"

View(i) ==
    [status |-> IF entries[i].kind = "toolResult" THEN "complete" ELSE "running",
     isError |-> entries[i].failed, write |-> WriteState(i),
     detail |-> IF entries[i].kind = "toolResult" THEN Bounded(entries[i].text) ELSE 0,
     truncated |-> entries[i].kind = "toolResult" /\ Truncated(entries[i].text)]

ToolSize(i) == 2 + View(i).detail

\* boundSnapshot: as many as fit, the newest first, with a comma between two.
Size(S, SizeOf(_)) == MapThenSumSet(SizeOf, S) + (IF S = {} THEN 0 ELSE Cardinality(S) - 1)

Fitting(S, used, SizeOf(_)) ==
    {i \in S : used + Size({j \in S : j = i \/ Later(j, i)}, SizeOf) <= MaxBytes}

SentMessages == Fitting(Messages, Base, MessageSize)
SentTools == Fitting(Tools, Base + Size(SentMessages, MessageSize), ToolSize)

-----------------------------------------------------------------------------
(* The session                                                             *)

Now == 1 + Max({0} \cup {entries[i].time : i \in Places})

Add(kind, text, tool, failed) ==
    /\ Now <= MaxTime
    /\ entries' = Append(entries,
        [kind |-> kind, text |-> text, time |-> Now, tool |-> tool, failed |-> failed])

Says(kind, text) == Add(kind, text, None, FALSE)

Calls(t, text) ==
    /\ \A i \in Places : entries[i].tool # t
    /\ Add("assistant", text, t, FALSE)

Returns(t, text, failed) ==
    /\ Cardinality({i \in Places : entries[i].tool = t}) = 1
    /\ \A i \in Places : entries[i].tool = t => entries[i].kind = "assistant"
    /\ Add("toolResult", text, t, failed)

\* The context begins with the summary, which is younger than what it keeps.
Summary == [kind |-> "summary", text |-> MaxText, time |-> Now, tool |-> None, failed |-> FALSE]

Compacts(i) ==
    /\ entries[i].kind # "toolResult"
    /\ ~IsSummary(1) /\ Now <= MaxTime
    /\ entries' = <<Summary>> \o SubSeq(entries, i, Len(entries))

\* The user goes back to an entry; the branch that is left is summarized.
Navigates(i) ==
    /\ i < Len(entries) /\ Now <= MaxTime
    /\ entries' = Append(SubSeq(entries, 1, i), Summary)

SnapshotNext ==
    \/ Says("hidden", MaxText) \/ \E text \in {0, MaxText} : Says("user", text)
    \/ \E t \in Tool, text \in {0, MaxText} : Calls(t, text)
    \/ \E t \in Tool, text \in {0, MaxText + 1}, failed \in BOOLEAN : Returns(t, text, failed)
    \/ \E i \in Places : Compacts(i) \/ Navigates(i)

-----------------------------------------------------------------------------
(* Properties                                                              *)

\* A snapshot fits its limits and is current: beside the summaries, the messages
\* sent are the newest of the context, without a gap; a tool is shown complete
\* exactly when its result is in the context, with its outcome, and no write stays
\* pending after it; a text is cut only where the view says so.
SnapshotsAreCurrent ==
    /\ Base + Size(SentMessages, MessageSize) + Size(SentTools, ToolSize) <= MaxBytes
    /\ Cardinality(SentMessages) <= MaxMessages /\ Cardinality(SentTools) <= MaxTools
    /\ \A i \in SentMessages, j \in Places \ SentMessages :
        (~IsSummary(i) /\ IsRenderable(j) /\ entries[j].text > 0) => Later(i, j)
    /\ \A i \in SentTools :
        LET results == {j \in Places : entries[j].kind = "toolResult" /\ entries[j].tool = entries[i].tool} IN
        /\ View(i).status = "complete" <=> results # {}
        /\ \A j \in results :
            /\ View(i).isError = entries[j].failed
            /\ View(i).write # "pending"
            /\ View(i).truncated <=> View(i).detail < entries[j].text
=============================================================================
