--------------------------- MODULE ContextHistory ----------------------------
(***************************************************************************)
(* Reading what the session held before its compactions (smart-context/    *)
(* history.ts): the model pages through a list or a search, and reads an   *)
(* item in chunks, while the branch grows or is left for another one.      *)
(***************************************************************************)
EXTENDS Naturals, Sequences, SequencesExt

CONSTANTS
    NoSnapshot,     \* the snapshotId that is not supplied
    MaxArchive,     \* a bound on the entries of the session
    MaxLimit,       \* a bound on the limits that are asked for
    MaxLength       \* a bound on the texts

VARIABLES
    archive,        \* the active branch
    made,           \* how many entries the session has had
    listing,        \* the list or search that the model pages through
    reading         \* the item that the model reads

historyVars == <<archive, made, listing, reading>>

Kinds == {"item", "hidden", "compaction"}
Filter == [windows : {0..MaxArchive} \cup {{w} : w \in 0..MaxArchive}, hit : BOOLEAN]
Idle == [at |-> "idle"]

HistoryInit ==
    /\ archive = <<>> /\ made = 0
    /\ listing = Idle /\ reading = Idle

HistoryTypeOK ==
    /\ archive \in Seq([id : 1..MaxArchive, kind : Kinds, length : 0..MaxLength, hit : BOOLEAN])
    /\ made \in 0..MaxArchive
    /\ listing # Idle => listing.offset \in Nat /\ listing.snapshot \in {NoSnapshot} \cup 1..MaxArchive
    /\ reading # Idle => reading.id \in 1..MaxArchive

-----------------------------------------------------------------------------
(* historyItems: the entries of the branch that are items, and the window  *)
(* of each: the last compaction before it                                  *)

Window(i) ==
    LET compactions == {j \in 1..i : archive[j].kind = "compaction"} IN
    IF compactions = {} THEN 0 ELSE archive[CHOOSE j \in compactions : \A k \in compactions : k <= j].id

\* The ids of the items up to place n that the request asks for.
Wanted(n, filter) ==
    {archive[i].id : i \in {j \in 1..n :
        /\ archive[j].kind # "hidden"
        /\ Window(j) \in filter.windows
        /\ filter.hit => archive[j].hit}}

\* They are told newest first; a newer entry has a greater id.
Matches(n, filter) ==
    LET wanted == Wanted(n, filter) IN
    [k \in 1..Cardinality(wanted) |->
        CHOOSE id \in wanted : Cardinality({newer \in wanted : newer > id}) = k - 1]

Slice(s, from, to) == SubSeq(s, from, IF to < Len(s) THEN to ELSE Len(s))

\* queryHistory: the place of the snapshot.  Mutant: always the newest entry.
SnapshotIndexes_Newest(snapshotId) == {Len(archive)}

SnapshotIndexes(snapshotId) ==
    IF snapshotId = NoSnapshot THEN {Len(archive)}
    ELSE {i \in 1..Len(archive) : archive[i].id = snapshotId}

-----------------------------------------------------------------------------
(* The session                                                             *)

Entry(kind, length, hit) == [id |-> made + 1, kind |-> kind, length |-> length, hit |-> hit]

Grow(kind, length, hit) ==
    /\ made < MaxArchive /\ made' = made + 1
    /\ archive' = Append(archive, Entry(kind, length, hit))
    /\ UNCHANGED <<listing, reading>>

\* Another branch of the session, with a summary of the one that is left.
Leave(i) ==
    /\ made < MaxArchive /\ made' = made + 1
    /\ archive' = Append(SubSeq(archive, 1, i), Entry("item", 1, FALSE))
    /\ UNCHANGED <<listing, reading>>

\* The first page: the snapshot is the newest entry, and comes with the page.
List(filter, limit) ==
    /\ listing = Idle /\ archive # <<>>
    /\ \E n \in SnapshotIndexes(NoSnapshot) :
        LET matches == Matches(n, filter)
            page == Slice(matches, 1, limit) IN
        listing' = [at |-> IF Len(page) < Len(matches) THEN "paging" ELSE "done",
                    filter |-> filter, snapshot |-> archive[n].id, offset |-> Len(page),
                    told |-> page, held |-> matches]
    /\ UNCHANGED <<archive, made, reading>>

\* A later page; when the snapshot is not on the branch, an error.
Continue(limit) ==
    /\ listing.at = "paging"
    /\ \E n \in SnapshotIndexes(listing.snapshot) :
        LET matches == Matches(n, listing.filter)
            page == Slice(matches, listing.offset + 1, listing.offset + limit) IN
        listing' = [listing EXCEPT
            !.at = IF listing.offset + Len(page) < Len(matches) THEN "paging" ELSE "done",
            !.offset = @ + Len(page),
            !.told = @ \o page]
    /\ UNCHANGED <<archive, made, reading>>

SnapshotIsGone ==
    /\ listing.at = "paging"
    /\ SnapshotIndexes(listing.snapshot) = {}
    /\ listing' = Idle
    /\ UNCHANGED <<archive, made, reading>>

\* The model reads an item it was told of, chunk by chunk.
Read(i, limit) ==
    /\ archive[i].kind # "hidden"
    /\ \/ reading = Idle /\ listing.at = "done" /\ archive[i].id \in Range(listing.told)
       \/ reading.at = "chunks" /\ reading.id = archive[i].id
    /\ LET offset == IF reading = Idle THEN 0 ELSE reading.offset
           length == archive[i].length
           next == IF offset + limit < length THEN offset + limit ELSE length IN
       reading' = [at |-> IF next < length THEN "chunks" ELSE "done",
                   id |-> archive[i].id, offset |-> next, length |-> length]
    /\ UNCHANGED <<archive, made, listing>>

\* The item is not on the branch: an error.
ItemIsGone ==
    /\ reading.at = "chunks"
    /\ \A i \in 1..Len(archive) : archive[i].id # reading.id
    /\ reading' = Idle
    /\ UNCHANGED <<archive, made, listing>>

HistoryNext ==
    \/ \E hit \in BOOLEAN : Grow("item", IF hit THEN MaxLength ELSE 0, hit)
    \/ Grow("hidden", 0, FALSE) \/ Grow("compaction", 1, FALSE)
    \/ \E i \in 1..Len(archive) : Leave(i)
    \/ \E filter \in Filter, limit \in 1..MaxLimit : List(filter, limit)
    \/ \E limit \in 1..MaxLimit : Continue(limit)
    \/ SnapshotIsGone
    \/ \E i \in 1..Len(archive), limit \in 1..MaxLimit : Read(i, limit)
    \/ ItemIsGone

-----------------------------------------------------------------------------
(* Properties                                                              *)

\* However the branch grows or is left between two pages, the pages tell of
\* each matching item of the moment of the first page once, newest first,
\* without a gap, and say so when they have told of all; the chunks of an item
\* end with its text.
PagesAreWhole ==
    /\ listing.at \in {"paging", "done"} =>
        /\ IsPrefix(listing.told, listing.held)
        /\ listing.at = "done" <=> listing.told = listing.held
    /\ reading.at = "done" => reading.offset = reading.length
=============================================================================
