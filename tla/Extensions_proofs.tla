-------------------------- MODULE Extensions_proofs -------------------------
(***************************************************************************)
(* The extensions that share no state, for any number of calls, processes, *)
(* requests, entries and texts: web requests keep their limits; no         *)
(* permission and no instructions of a project are lost; a reset drops only*)
(* what its checkpoint covers; the pages of a history show each item once. *)
(***************************************************************************)
EXTENDS MCExtensions, TLAPS, FiniteSetTheorems, WellFoundedInduction, SequenceTheorems

-----------------------------------------------------------------------------
(* A call of a web tool.                                                   *)

\* Where a call has not yet been answered, and where it is over.
Unanswered == {"idle", "checking", "fetching"}

\* Requests: none before the first URL is checked, and no more than the
\* redirects and the attempts account for, one more when the last is answered.
FirstAttempt == IF agent = "fallback" THEN MaxRedirects + 1 ELSE 0
FetchesCounted ==
    /\ at \in Unanswered => fetches <= FirstAttempt + hops
    /\ fetches <= FirstAttempt + hops + 1

\* The body: not there before the answer, read up to the limit, and whole
\* when the call goes on with it.
BodyLimited ==
    /\ at \in Unanswered => body.read = 0
    /\ at = "reading" => body.read <= MaxBody /\ body.read <= body.length
    /\ at = "readingError" => body.length <= MaxBody /\ body.read <= body.length
    /\ at \in {"read", "truncating"} => body.read = body.length /\ body.length <= MaxBody
    /\ body.read <= MaxBody + 1

\* The outcome is told at the end, by its true reason, and no timer stays.
OutcomeTrue ==
    /\ at # "ended" => outcome = "none"
    /\ outcome \in {"whole", "truncated"} => body.read = body.length /\ body.length <= MaxBody
    /\ outcome = "cancelled" => cancelled
    /\ outcome = "failed" => ~cancelled
    /\ at \in {"idle", "ended"} => timer = "off"

WebInv == Web!WebTypeOK /\ FetchesCounted /\ BodyLimited /\ OutcomeTrue

LEMMA WebBegins == ASSUME Web!WebInit PROVE WebInv
<1> USE ExtensionsAssumption DEF ExtensionsAssumption, Web!WebInit
<1>1. body = [length |-> 0, read |-> 0]
  BY DEF Web!NoBody
<1>2. 0 \in 0..(MaxBody + 2) /\ 0 \in 0..MaxRedirects
  OBVIOUS
<1>6. body \in [length : 0..(MaxBody + 2), read : 0..(MaxBody + 2)]
  BY <1>1, <1>2
<1>3. Web!WebTypeOK
  BY <1>6, <1>2 DEF Web!WebTypeOK
<1>4. FetchesCounted
  BY DEF FetchesCounted, FirstAttempt
<1>5. BodyLimited /\ OutcomeTrue
  BY <1>1 DEF BodyLimited, OutcomeTrue
<1> QED
  BY <1>3, <1>4, <1>5 DEF WebInv

LEMMA WebStays == ASSUME WebInv, UNCHANGED webVars PROVE WebInv'
BY DEF webVars, WebInv, Web!WebTypeOK, FetchesCounted, BodyLimited, OutcomeTrue, Unanswered, FirstAttempt,
       Web!Running

\* What a failure tells.
LEMMA FailsTells ==
    ASSUME Web!Fails, cancelled' = cancelled
    PROVE  /\ at' = "ended" /\ timer' = "off"
           /\ outcome' \in {"failed", "cancelled", "timedOut"}
           /\ outcome' = "cancelled" => cancelled'
           /\ outcome' = "failed" => ~cancelled'
BY DEF Web!Fails, Web!Answers

\* A call that fails, with at most one request more.
LEMMA FailureKeeps ==
    ASSUME WebInv, Web!Fails, UNCHANGED <<tool, cancelled, hops, agent, kind, body>>,
           fetches' = fetches \/ (at = "fetching" /\ fetches' = fetches + 1)
    PROVE  WebInv'
<1> USE ExtensionsAssumption DEF ExtensionsAssumption
<1>1. /\ at' = "ended" /\ timer' = "off"
      /\ outcome' \in {"failed", "cancelled", "timedOut"}
      /\ outcome' = "cancelled" => cancelled'
      /\ outcome' = "failed" => ~cancelled'
  BY FailsTells
<1>2. Web!WebTypeOK'
  BY <1>1 DEF WebInv, Web!WebTypeOK, Web!Running
<1>3. FetchesCounted'
  BY <1>1 DEF WebInv, Web!WebTypeOK, FetchesCounted, FirstAttempt, Unanswered
<1>4. BodyLimited'
  BY <1>1 DEF WebInv, BodyLimited, Unanswered
<1>5. OutcomeTrue'
  BY <1>1 DEF OutcomeTrue
<1> QED
  BY <1>2, <1>3, <1>4, <1>5 DEF WebInv

LEMMA ExecuteKeeps == ASSUME WebInv, Web!Execute PROVE WebInv'
BY ExtensionsAssumption
   DEF ExtensionsAssumption, Web!Execute, Web!CreateOperationSignal, WebInv, Web!WebTypeOK, FetchesCounted,
       BodyLimited, OutcomeTrue, Unanswered, FirstAttempt, Web!Running, Web!Tool

LEMMA TimerFiresKeeps == ASSUME WebInv, Web!TimerFires PROVE WebInv'
BY DEF Web!TimerFires, WebInv, Web!WebTypeOK, FetchesCounted, BodyLimited, OutcomeTrue, Unanswered, FirstAttempt

LEMMA CancelKeeps == ASSUME WebInv, Web!Cancel PROVE WebInv'
BY DEF Web!Cancel, WebInv, Web!WebTypeOK, FetchesCounted, BodyLimited, OutcomeTrue, Unanswered, FirstAttempt,
       Web!Running

LEMMA AbortsKeeps == ASSUME WebInv, Web!Aborts PROVE WebInv'
BY FailureKeeps DEF Web!Aborts

LEMMA CheckUrlKeeps == ASSUME WebInv, Web!CheckUrl PROVE WebInv'
<1>1. CASE Web!Fails
  BY <1>1, FailureKeeps DEF Web!CheckUrl
<1>2. CASE at' = "fetching" /\ UNCHANGED <<timer, outcome>>
  BY <1>2 DEF Web!CheckUrl, WebInv, Web!WebTypeOK, FetchesCounted, BodyLimited, OutcomeTrue, Unanswered,
              FirstAttempt, Web!Running
<1> QED
  BY <1>1, <1>2 DEF Web!CheckUrl

LEMMA FetchFailsKeeps == ASSUME WebInv, Web!FetchFails PROVE WebInv'
BY FailureKeeps DEF Web!FetchFails

LEMMA RedirectedKeeps == ASSUME WebInv, Web!Redirected PROVE WebInv'
<1>1. CASE hops >= MaxRedirects
  BY <1>1, FailureKeeps DEF Web!Redirected
<1>2. CASE ~(hops >= MaxRedirects)
  BY <1>2, ExtensionsAssumption
     DEF ExtensionsAssumption, Web!Redirected, WebInv, Web!WebTypeOK, FetchesCounted, BodyLimited, OutcomeTrue,
         Unanswered, FirstAttempt, Web!Running
<1> QED
  BY <1>1, <1>2

LEMMA ChallengedKeeps == ASSUME WebInv, Web!Challenged PROVE WebInv'
<1>1. CASE agent = "default"
  BY <1>1, ExtensionsAssumption
     DEF ExtensionsAssumption, Web!Challenged, WebInv, Web!WebTypeOK, FetchesCounted, BodyLimited, OutcomeTrue,
         Unanswered, FirstAttempt, Web!Running
<1>2. CASE agent # "default"
  BY <1>2, FailureKeeps DEF Web!Challenged
<1> QED
  BY <1>1, <1>2

\* A search that is answered with an error reads a body within the limit.
LEMMA ErrorResponseKeeps ==
    ASSUME WebFaults = {}, WebInv, NEW length \in 0..(MaxBody + 2), Web!ErrorResponse(length)
    PROVE  WebInv'
<1>1. CASE tool = "webfetch"
  BY <1>1, FailureKeeps DEF Web!ErrorResponse
<1>2. CASE tool # "webfetch"
  <2> USE ExtensionsAssumption DEF ExtensionsAssumption
  <2>1. at' = "readingError" /\ body' = [length |-> length, read |-> 0] /\ length <= MaxBody
    BY <1>2 DEF Web!ErrorResponse
  <2>2. at = "fetching" /\ fetches' = fetches + 1
        /\ UNCHANGED <<timer, outcome, tool, cancelled, hops, agent, kind>>
    BY <1>2 DEF Web!ErrorResponse
  <2>3. body' \in [length : 0..(MaxBody + 2), read : 0..(MaxBody + 2)]
    BY <2>1
  <2>4. Web!WebTypeOK'
    BY <2>1, <2>2, <2>3 DEF WebInv, Web!WebTypeOK, Web!Running
  <2>5. FetchesCounted'
    BY <2>1, <2>2 DEF WebInv, FetchesCounted, Unanswered, FirstAttempt, Web!WebTypeOK
  <2>6. BodyLimited' /\ OutcomeTrue'
    BY <2>1, <2>2 DEF WebInv, BodyLimited, OutcomeTrue, Unanswered
  <2> QED
    BY <2>4, <2>5, <2>6 DEF WebInv
<1> QED
  BY <1>1, <1>2

LEMMA ResponseKeeps ==
    ASSUME WebInv, NEW length \in 0..(MaxBody + 2), NEW content \in Web!ContentKind, Web!Response(length, content)
    PROVE  WebInv'
<1>1. CASE Web!Fails /\ length > MaxBody /\ UNCHANGED <<body, kind>>
  BY <1>1, FailureKeeps DEF Web!Response
<1>2. CASE at' = "reading" /\ body' = [length |-> length, read |-> 0] /\ kind' = content
           /\ UNCHANGED <<timer, outcome>>
  <2> USE ExtensionsAssumption DEF ExtensionsAssumption
  <2>2. at = "fetching" /\ fetches' = fetches + 1
        /\ UNCHANGED <<timer, outcome, tool, cancelled, hops, agent>>
    BY <1>2 DEF Web!Response
  <2>3. body' \in [length : 0..(MaxBody + 2), read : 0..(MaxBody + 2)]
    BY <1>2
  <2>4. Web!WebTypeOK'
    BY <1>2, <2>2, <2>3 DEF WebInv, Web!WebTypeOK, Web!Running, Web!ContentKind
  <2>5. FetchesCounted'
    BY <1>2, <2>2 DEF WebInv, FetchesCounted, Unanswered, FirstAttempt, Web!WebTypeOK
  <2>6. BodyLimited' /\ OutcomeTrue'
    BY <1>2, <2>2 DEF WebInv, BodyLimited, OutcomeTrue, Unanswered
  <2> QED
    BY <2>4, <2>5, <2>6 DEF WebInv
<1> QED
  BY <1>1, <1>2 DEF Web!Response

\* One more chunk has been read; nothing else that counts requests changes.
LEMMA ChunkRead ==
    ASSUME WebInv, body' = [body EXCEPT !.read = @ + 1], at \in {"reading", "readingError"},
           body.read # body.length
    PROVE  /\ body'.length = body.length /\ body'.read = body.read + 1
           /\ body'.read <= body'.length /\ body'.read <= MaxBody + 1
           /\ body' \in [length : 0..(MaxBody + 2), read : 0..(MaxBody + 2)]
<1> USE ExtensionsAssumption DEF ExtensionsAssumption
<1>1. body \in [length : 0..(MaxBody + 2), read : 0..(MaxBody + 2)]
  BY DEF WebInv, Web!WebTypeOK
<1>2. body.length \in 0..(MaxBody + 2) /\ body.read \in 0..(MaxBody + 2)
  BY <1>1
<1>3. body.read <= MaxBody /\ body.read <= body.length
  BY <1>2 DEF WebInv, BodyLimited
<1>4. body' = [length |-> body.length, read |-> body.read + 1]
  BY <1>1
<1>5. body.read + 1 \in 0..(MaxBody + 2) /\ body.read + 1 <= body.length /\ body.read + 1 <= MaxBody + 1
  BY <1>2, <1>3
<1> QED
  BY <1>2, <1>4, <1>5

LEMMA ReadBodyKeeps == ASSUME WebInv, Web!ReadBodyWithLimit PROVE WebInv'
<1> USE ExtensionsAssumption DEF ExtensionsAssumption
<1>0. at = "reading" /\ UNCHANGED <<tool, cancelled, hops, agent, fetches, kind>>
  BY DEF Web!ReadBodyWithLimit
<1>1. CASE body.read = body.length
  <2>1. at' = "read" /\ UNCHANGED <<timer, outcome, body>>
    BY <1>1 DEF Web!ReadBodyWithLimit
  <2> QED
    BY <1>0, <1>1, <2>1
       DEF WebInv, Web!WebTypeOK, FetchesCounted, BodyLimited, OutcomeTrue, Unanswered, FirstAttempt, Web!Running
<1>2. CASE body.read # body.length
  <2>1. body' = [body EXCEPT !.read = @ + 1]
    BY <1>2 DEF Web!ReadBodyWithLimit
  <2>2. /\ body'.length = body.length /\ body'.read = body.read + 1
        /\ body'.read <= body'.length /\ body'.read <= MaxBody + 1
        /\ body' \in [length : 0..(MaxBody + 2), read : 0..(MaxBody + 2)]
    BY <1>0, <1>2, <2>1, ChunkRead
  <2>3. CASE body'.read > MaxBody
    <3>1. Web!Fails
      BY <1>2, <2>3 DEF Web!ReadBodyWithLimit
    <3>2. /\ at' = "ended" /\ timer' = "off"
          /\ outcome' \in {"failed", "cancelled", "timedOut"}
          /\ outcome' = "cancelled" => cancelled'
          /\ outcome' = "failed" => ~cancelled'
      BY <1>0, <3>1, FailsTells
    <3>3. Web!WebTypeOK'
      BY <1>0, <2>2, <3>2 DEF WebInv, Web!WebTypeOK
    <3>4. FetchesCounted'
      BY <1>0, <3>2 DEF WebInv, FetchesCounted, Unanswered, FirstAttempt
    <3>5. BodyLimited' /\ OutcomeTrue'
      BY <2>2, <3>2 DEF BodyLimited, OutcomeTrue, Unanswered
    <3> QED
      BY <3>3, <3>4, <3>5 DEF WebInv
  <2>4. CASE ~(body'.read > MaxBody)
    <3>1. UNCHANGED <<at, timer, outcome>>
      BY <1>2, <2>4 DEF Web!ReadBodyWithLimit
    <3>2. body'.read \in 0..(MaxBody + 2)
      BY <2>2
    <3>3. body'.read <= MaxBody
      BY <3>2, <2>4
    <3>4. Web!WebTypeOK'
      BY <1>0, <2>2, <3>1 DEF WebInv, Web!WebTypeOK
    <3>5. FetchesCounted'
      BY <1>0, <3>1 DEF WebInv, FetchesCounted, Unanswered, FirstAttempt
    <3>6. BodyLimited' /\ OutcomeTrue'
      BY <1>0, <2>2, <3>1, <3>3 DEF WebInv, BodyLimited, OutcomeTrue, Unanswered
    <3> QED
      BY <3>4, <3>5, <3>6 DEF WebInv
  <2> QED
    BY <2>3, <2>4
<1> QED
  BY <1>1, <1>2

LEMMA ReadErrorKeeps == ASSUME WebInv, Web!ReadError PROVE WebInv'
<1>0. at = "readingError" /\ UNCHANGED <<tool, cancelled, hops, agent, fetches, kind>>
  BY DEF Web!ReadError
<1>1. CASE body.read = body.length
  BY <1>0, <1>1, FailureKeeps DEF Web!ReadError
<1>2. CASE body.read # body.length
  <2>1. body' = [body EXCEPT !.read = @ + 1] /\ UNCHANGED <<at, timer, outcome>>
    BY <1>2 DEF Web!ReadError
  <2>2. /\ body'.length = body.length /\ body'.read = body.read + 1
        /\ body'.read <= body'.length /\ body'.read <= MaxBody + 1
        /\ body' \in [length : 0..(MaxBody + 2), read : 0..(MaxBody + 2)]
    BY <1>0, <1>2, <2>1, ChunkRead
  <2>3. Web!WebTypeOK'
    BY <1>0, <2>1, <2>2 DEF WebInv, Web!WebTypeOK
  <2>4. FetchesCounted'
    BY <1>0, <2>1 DEF WebInv, FetchesCounted, Unanswered, FirstAttempt
  <2>5. BodyLimited' /\ OutcomeTrue'
    BY <1>0, <2>1, <2>2 DEF WebInv, BodyLimited, OutcomeTrue, Unanswered
  <2> QED
    BY <2>3, <2>4, <2>5 DEF WebInv
<1> QED
  BY <1>1, <1>2

LEMMA ReadFailsKeeps == ASSUME WebInv, Web!ReadFails PROVE WebInv'
BY FailureKeeps DEF Web!ReadFails

\* A call that ends with what it has read.
LEMMA AnswerKeeps ==
    ASSUME WebInv, NEW told \in {"whole", "truncated"}, Web!Answers(told), at \in {"read", "truncating"},
           UNCHANGED <<tool, cancelled, hops, agent, fetches, body, kind>>
    PROVE  WebInv'
BY DEF Web!Answers, WebInv, Web!WebTypeOK, FetchesCounted, BodyLimited, OutcomeTrue, Unanswered, FirstAttempt

\* A body that was read goes on to be cut.
LEMMA TruncatesNext ==
    ASSUME WebInv, at = "read", at' = "truncating",
           UNCHANGED <<tool, cancelled, hops, agent, fetches, body, kind, timer, outcome>>
    PROVE  WebInv'
BY DEF WebInv, Web!WebTypeOK, FetchesCounted, BodyLimited, OutcomeTrue, Unanswered, FirstAttempt, Web!Running

LEMMA ConvertKeeps == ASSUME WebInv, Web!Convert PROVE WebInv'
BY AnswerKeeps, TruncatesNext, FailureKeeps DEF Web!Convert

LEMMA ParseResultsKeeps == ASSUME WebInv, Web!ParseResults PROVE WebInv'
BY TruncatesNext, FailureKeeps DEF Web!ParseResults

LEMMA TruncateKeeps == ASSUME WebInv, Web!TruncateTextOutput PROVE WebInv'
BY AnswerKeeps, FailureKeeps DEF Web!TruncateTextOutput

LEMMA WebKeeps == ASSUME WebFaults = {}, WebInv, Web!WebNext PROVE WebInv'
BY ExecuteKeeps, TimerFiresKeeps, CancelKeeps, AbortsKeeps, CheckUrlKeeps, FetchFailsKeeps, RedirectedKeeps,
   ChallengedKeeps, ErrorResponseKeeps, ResponseKeeps, ReadBodyKeeps, ReadErrorKeeps, ReadFailsKeeps,
   ConvertKeeps, ParseResultsKeeps, TruncateKeeps
   DEF Web!WebNext

\* Requests are bounded where the invariant holds.
LEMMA WebIsBounded == ASSUME WebInv PROVE Web!RequestsAreBounded
BY ExtensionsAssumption
   DEF ExtensionsAssumption, WebInv, Web!WebTypeOK, FetchesCounted, BodyLimited, OutcomeTrue, FirstAttempt,
       Web!RequestsAreBounded

\* Requests and responses keep their limits, and a call ends as it says
\* (fetchWithRedirects, readBodyWithLimit), whatever the limits are, when the
\* body of an error is not longer than the limit.
THEOREM RequestsStayBounded == ASSUME WebFaults = {} PROVE Spec => []RequestsAreBounded
<1>1. Init => WebInv
  BY WebBegins DEF Init
<1>2. WebInv /\ [Next]_vars => WebInv'
  <2> SUFFICES ASSUME WebInv, [Next]_vars PROVE WebInv'
    OBVIOUS
  <2>1. CASE Web!WebNext
    BY <2>1, WebKeeps
  <2>2. CASE UNCHANGED webVars
    BY <2>2, WebStays
  <2>3. [Next]_vars => Web!WebNext \/ UNCHANGED webVars
    BY DEF Next, vars
  <2> QED
    BY <2>1, <2>2, <2>3
<1>3. WebInv => RequestsAreBounded
  BY WebIsBounded DEF RequestsAreBounded
<1> QED
  BY <1>1, <1>2, <1>3, PTL DEF Spec

-----------------------------------------------------------------------------
(* Permissions                                                             *)

\* A call that is under way holds the lock of its process alone, and what a
\* call has read is what the file has: no other process writes in between.
LockHeld ==
    \A c \in Caller : change[c].pc \in {"locked", "read"} => lock[Permissions!At(c)] = {c}
OneReader ==
    \A c, d \in Caller :
        change[c].pc = "read" /\ change[d].pc = "read" => Permissions!At(c) = Permissions!At(d)
ReadersHaveFile == \A c \in Caller : change[c].pc = "read" => change[c].file = stored

PermissionsInv ==
    /\ Permissions!PermissionsTypeOK
    /\ LockHeld /\ OneReader /\ ReadersHaveFile
    /\ Permissions!PermissionsKept

LEMMA PermissionsBegin == ASSUME Permissions!PermissionsInit PROVE PermissionsInv
<1>1. PICK places \in [Caller -> Pi] :
        change = [c \in Caller |-> [pc |-> "idle", at |-> places[c], servers |-> {},
                                    permission |-> "ask", file |-> Permissions!Nothing]]
  BY DEF Permissions!PermissionsInit
<1>2. Permissions!Nothing \in Permissions!Kept
  BY DEF Permissions!Nothing, Permissions!Kept
<1>3. Permissions!PermissionsTypeOK
  BY <1>1, <1>2 DEF Permissions!PermissionsInit, Permissions!PermissionsTypeOK
<1>4. \A c \in Caller : change[c].pc = "idle"
  BY <1>1
<1>5. LockHeld /\ OneReader /\ ReadersHaveFile
  BY <1>4 DEF LockHeld, OneReader, ReadersHaveFile
<1> QED
  BY <1>3, <1>5 DEF PermissionsInv, Permissions!PermissionsInit, Permissions!PermissionsKept

LEMMA PermissionsStay == ASSUME PermissionsInv, UNCHANGED permissionsVars PROVE PermissionsInv'
BY DEF permissionsVars, PermissionsInv, Permissions!PermissionsTypeOK, LockHeld, OneReader, ReadersHaveFile,
       Permissions!At, Permissions!PermissionsKept

\* What a call is asked for keeps its place and what it has read.
LEMMA ChosenKeeps ==
    ASSUME Permissions!PermissionsTypeOK, NEW c \in Caller, Permissions!Chosen(c, "locked")
    PROVE  /\ change' \in [Caller -> [pc : {"idle", "locked", "read", "done"}, at : Pi,
                              servers : SUBSET Server,
                              permission : Permissions!Permission \cup {"ask"}, file : Permissions!Kept]]
           /\ change'[c].pc = "locked"
           /\ \A d \in Caller : d # c => change'[d] = change[d]
           /\ \A d \in Caller : change'[d].at = change[d].at
<1>0. change \in [Caller -> [pc : {"idle", "locked", "read", "done"}, at : Pi,
                              servers : SUBSET Server,
                              permission : Permissions!Permission \cup {"ask"}, file : Permissions!Kept]]
  BY DEF Permissions!PermissionsTypeOK
<1>1. PICK servers \in SUBSET Server, permission \in Permissions!Permission \cup {"ask"} :
        change' = [change EXCEPT ![c].pc = "locked", ![c].servers = servers, ![c].permission = permission]
  BY DEF Permissions!Chosen
<1>2. change'[c] = [pc |-> "locked", at |-> change[c].at, servers |-> servers,
                   permission |-> permission, file |-> change[c].file]
  <2>1. change[c] = [pc |-> change[c].pc, at |-> change[c].at, servers |-> change[c].servers,
                     permission |-> change[c].permission, file |-> change[c].file]
    BY <1>0
  <2>2. change'[c] = [change[c] EXCEPT !.pc = "locked", !.servers = servers, !.permission = permission]
    BY <1>0, <1>1
  <2> QED
    BY <2>1, <2>2
<1>3. \A d \in Caller : d # c => change'[d] = change[d]
  BY <1>0, <1>1
<1>4. /\ change'[c] \in [pc : {"idle", "locked", "read", "done"}, at : Pi,
                         servers : SUBSET Server,
                         permission : Permissions!Permission \cup {"ask"}, file : Permissions!Kept]
      /\ change'[c].pc = "locked" /\ change'[c].at = change[c].at
  BY <1>0, <1>2
<1>5. DOMAIN change' = Caller /\ change' = [d \in Caller |-> change'[d]]
  BY <1>0, <1>1
<1>6. \A d \in Caller :
        change'[d] \in [pc : {"idle", "locked", "read", "done"}, at : Pi,
                        servers : SUBSET Server,
                        permission : Permissions!Permission \cup {"ask"}, file : Permissions!Kept]
  BY <1>0, <1>3, <1>4
<1> QED
  BY <1>3, <1>4, <1>5, <1>6

LEMMA BeginKeepsPermissions ==
    ASSUME PermissionsInv, NEW c \in Caller, Permissions!Begin(c)
    PROVE  PermissionsInv'
<1>0. /\ change[c].pc = "idle" /\ lock[Permissions!At(c)] = {}
      /\ lock' = [lock EXCEPT ![Permissions!At(c)] = {c}]
      /\ Permissions!Chosen(c, "locked") /\ UNCHANGED <<stored, cache, decided>>
  BY DEF Permissions!Begin
<1>1. /\ change' \in [Caller -> [pc : {"idle", "locked", "read", "done"}, at : Pi,
                              servers : SUBSET Server,
                              permission : Permissions!Permission \cup {"ask"}, file : Permissions!Kept]]
      /\ change'[c].pc = "locked"
      /\ \A d \in Caller : d # c => change'[d] = change[d]
      /\ \A d \in Caller : change'[d].at = change[d].at
  BY <1>0, ChosenKeeps DEF PermissionsInv
<1>2. Permissions!At(c) \in Pi /\ lock \in [Pi -> SUBSET Caller]
  BY DEF PermissionsInv, Permissions!PermissionsTypeOK, Permissions!At
<1>3. lock' \in [Pi -> SUBSET Caller]
  BY <1>0, <1>2
<1>4. Permissions!PermissionsTypeOK'
  BY <1>0, <1>1, <1>3 DEF PermissionsInv, Permissions!PermissionsTypeOK
<1>5. LockHeld'
  <2> SUFFICES ASSUME NEW d \in Caller, change'[d].pc \in {"locked", "read"}
               PROVE  lock'[Permissions!At(d)'] = {d}
    BY DEF LockHeld
  <2>1. Permissions!At(d)' = Permissions!At(d)
    BY <1>1 DEF Permissions!At
  <2>2. CASE d = c
    BY <2>1, <2>2, <1>0, <1>2
  <2>3. CASE d # c
    <3>1. lock[Permissions!At(d)] = {d}
      BY <2>3, <1>1 DEF PermissionsInv, LockHeld
    <3>2. Permissions!At(d) # Permissions!At(c)
      BY <3>1, <1>0
    <3> QED
      BY <3>1, <3>2, <2>1, <1>0, <1>2
  <2> QED
    BY <2>2, <2>3
<1>6. OneReader' /\ ReadersHaveFile'
  BY <1>0, <1>1 DEF PermissionsInv, OneReader, ReadersHaveFile, Permissions!At
<1> QED
  BY <1>0, <1>4, <1>5, <1>6 DEF PermissionsInv, Permissions!PermissionsKept

LEMMA ReadFileKeeps ==
    ASSUME PermissionFaults = {}, PermissionsInv, NEW c \in Caller, Permissions!ReadFile(c)
    PROVE  PermissionsInv'
<1>0. /\ change[c].pc = "locked"
      /\ \A d \in Caller : change[d].pc = "read" => Permissions!At(d) = Permissions!At(c)
      /\ change' = [change EXCEPT ![c].pc = "read", ![c].file = stored]
      /\ UNCHANGED <<stored, cache, lock, decided>>
  BY DEF Permissions!ReadFile
<1>1. /\ change \in [Caller -> [pc : {"idle", "locked", "read", "done"}, at : Pi,
                              servers : SUBSET Server,
                              permission : Permissions!Permission \cup {"ask"}, file : Permissions!Kept]]
      /\ stored \in Permissions!Kept
  BY DEF PermissionsInv, Permissions!PermissionsTypeOK
<1>2. /\ change' \in [Caller -> [pc : {"idle", "locked", "read", "done"}, at : Pi,
                              servers : SUBSET Server,
                              permission : Permissions!Permission \cup {"ask"}, file : Permissions!Kept]]
      /\ change'[c].pc = "read" /\ change'[c].file = stored
      /\ \A d \in Caller : d # c => change'[d] = change[d]
      /\ \A d \in Caller : change'[d].at = change[d].at
  BY <1>0, <1>1
<1>3. Permissions!PermissionsTypeOK'
  BY <1>0, <1>2 DEF PermissionsInv, Permissions!PermissionsTypeOK
<1>4. LockHeld'
  <2> SUFFICES ASSUME NEW d \in Caller, change'[d].pc \in {"locked", "read"}
               PROVE  lock'[Permissions!At(d)'] = {d}
    BY DEF LockHeld
  <2>1. Permissions!At(d)' = Permissions!At(d) /\ change[d].pc \in {"locked", "read"}
    BY <1>0, <1>2 DEF Permissions!At
  <2> QED
    BY <2>1, <1>0 DEF PermissionsInv, LockHeld
<1>5. OneReader' /\ ReadersHaveFile'
  BY <1>0, <1>2 DEF PermissionsInv, OneReader, ReadersHaveFile, Permissions!At
<1> QED
  BY <1>0, <1>3, <1>4, <1>5 DEF PermissionsInv, Permissions!PermissionsKept

\* A call that is over releases the lock of its process.
LEMMA ReleaseKeeps ==
    ASSUME PermissionsInv, NEW c \in Caller, Permissions!Release(c), change[c].pc \in {"locked", "read"},
           change' = [change EXCEPT ![c].pc = "done", ![c].file = Permissions!Nothing]
    PROVE  /\ lock' \in [Pi -> SUBSET Caller]
           /\ change' \in [Caller -> [pc : {"idle", "locked", "read", "done"}, at : Pi,
                              servers : SUBSET Server,
                              permission : Permissions!Permission \cup {"ask"}, file : Permissions!Kept]]
           /\ change'[c].pc = "done"
           /\ \A d \in Caller : d # c => change'[d] = change[d]
           /\ LockHeld' /\ OneReader'
<1>1. /\ change \in [Caller -> [pc : {"idle", "locked", "read", "done"}, at : Pi,
                              servers : SUBSET Server,
                              permission : Permissions!Permission \cup {"ask"}, file : Permissions!Kept]]
      /\ lock \in [Pi -> SUBSET Caller]
  BY DEF PermissionsInv, Permissions!PermissionsTypeOK
<1>2. Permissions!Nothing \in Permissions!Kept
  BY DEF Permissions!Nothing, Permissions!Kept
<1>3. /\ change' \in [Caller -> [pc : {"idle", "locked", "read", "done"}, at : Pi,
                              servers : SUBSET Server,
                              permission : Permissions!Permission \cup {"ask"}, file : Permissions!Kept]]
      /\ change'[c].pc = "done"
      /\ \A d \in Caller : d # c => change'[d] = change[d]
      /\ \A d \in Caller : change'[d].at = change[d].at
  BY <1>1, <1>2
<1>4. lock' = [lock EXCEPT ![Permissions!At(c)] = @ \ {c}] /\ Permissions!At(c) \in Pi
  BY <1>1 DEF Permissions!Release, Permissions!At
<1>5. lock' \in [Pi -> SUBSET Caller]
  BY <1>1, <1>4
<1>6. LockHeld'
  <2> SUFFICES ASSUME NEW d \in Caller, change'[d].pc \in {"locked", "read"}
               PROVE  lock'[Permissions!At(d)'] = {d}
    BY DEF LockHeld
  <2>1. d # c /\ Permissions!At(d)' = Permissions!At(d) /\ Permissions!At(d) \in Pi
    BY <1>1, <1>3 DEF Permissions!At
  <2>2. lock[Permissions!At(d)] = {d} /\ lock[Permissions!At(c)] = {c}
    BY <2>1, <1>3 DEF PermissionsInv, LockHeld
  <2> QED
    BY <2>1, <2>2, <1>1, <1>4
<1>7. OneReader'
  BY <1>3 DEF PermissionsInv, OneReader, Permissions!At
<1> QED
  BY <1>3, <1>5, <1>6, <1>7

LEMMA FailKeepsPermissions ==
    ASSUME PermissionsInv, NEW c \in Caller, Permissions!Fail(c)
    PROVE  PermissionsInv'
<1>0. /\ change[c].pc \in {"locked", "read"}
      /\ change' = [change EXCEPT ![c].pc = "done", ![c].file = Permissions!Nothing]
      /\ Permissions!Release(c) /\ UNCHANGED <<stored, cache, decided>>
  BY DEF Permissions!Fail
<1>1. /\ lock' \in [Pi -> SUBSET Caller]
      /\ change' \in [Caller -> [pc : {"idle", "locked", "read", "done"}, at : Pi,
                              servers : SUBSET Server,
                              permission : Permissions!Permission \cup {"ask"}, file : Permissions!Kept]]
      /\ change'[c].pc = "done"
      /\ \A d \in Caller : d # c => change'[d] = change[d]
      /\ LockHeld' /\ OneReader'
  BY <1>0, ReleaseKeeps
<1>2. Permissions!PermissionsTypeOK'
  BY <1>0, <1>1 DEF PermissionsInv, Permissions!PermissionsTypeOK
<1>3. ReadersHaveFile' /\ Permissions!PermissionsKept'
  BY <1>0, <1>1 DEF PermissionsInv, ReadersHaveFile, Permissions!PermissionsKept
<1> QED
  BY <1>1, <1>2, <1>3 DEF PermissionsInv

\* The call that writes is the only one that has read, so that what it writes
\* is what the user has decided.
LEMMA ReplaceKeeps ==
    ASSUME PermissionsInv, NEW c \in Caller, Permissions!Replace(c)
    PROVE  PermissionsInv'
<1>0. /\ change[c].pc = "read"
      /\ stored' = Permissions!With(change[c].file, c)
      /\ cache' = [cache EXCEPT ![Permissions!At(c)] = stored']
      /\ decided' = Permissions!With(decided, c)
      /\ change' = [change EXCEPT ![c].pc = "done", ![c].file = Permissions!Nothing]
      /\ Permissions!Release(c)
  BY DEF Permissions!Replace
<1>1. /\ lock' \in [Pi -> SUBSET Caller]
      /\ change' \in [Caller -> [pc : {"idle", "locked", "read", "done"}, at : Pi,
                              servers : SUBSET Server,
                              permission : Permissions!Permission \cup {"ask"}, file : Permissions!Kept]]
      /\ change'[c].pc = "done"
      /\ \A d \in Caller : d # c => change'[d] = change[d]
      /\ LockHeld' /\ OneReader'
  BY <1>0, ReleaseKeeps
<1>2. change[c].file = decided
  BY <1>0 DEF PermissionsInv, ReadersHaveFile, Permissions!PermissionsKept
<1>3. stored' = decided'
  BY <1>0, <1>2
<1>4. /\ decided \in Permissions!Kept /\ cache \in [Pi -> Permissions!Kept]
      /\ change[c].permission \in Permissions!Permission \cup {"ask"}
  BY DEF PermissionsInv, Permissions!PermissionsTypeOK
<1>5. decided' \in Permissions!Kept
  BY <1>0, <1>4 DEF Permissions!With, Permissions!Kept
<1>6. cache' \in [Pi -> Permissions!Kept]
  BY <1>0, <1>3, <1>4, <1>5
<1>7. Permissions!PermissionsTypeOK'
  BY <1>1, <1>3, <1>5, <1>6 DEF Permissions!PermissionsTypeOK
<1>8. ReadersHaveFile'
  <2> SUFFICES ASSUME NEW d \in Caller, change'[d].pc = "read" PROVE FALSE
    BY DEF ReadersHaveFile
  <2>1. d # c /\ change[d].pc = "read"
    BY <1>1
  <2>2. Permissions!At(d) = Permissions!At(c)
    BY <2>1, <1>0 DEF PermissionsInv, OneReader
  <2>3. lock[Permissions!At(d)] = {d} /\ lock[Permissions!At(c)] = {c}
    BY <2>1, <1>0 DEF PermissionsInv, LockHeld
  <2> QED
    BY <2>1, <2>2, <2>3
<1> QED
  BY <1>1, <1>3, <1>7, <1>8 DEF PermissionsInv, Permissions!PermissionsKept

LEMMA LoadKeeps ==
    ASSUME PermissionsInv, NEW p \in Pi, Permissions!Load(p)
    PROVE  PermissionsInv'
BY DEF Permissions!Load, PermissionsInv, Permissions!PermissionsTypeOK, LockHeld, OneReader, ReadersHaveFile,
       Permissions!At, Permissions!PermissionsKept

LEMMA PermissionsKeep ==
    ASSUME PermissionFaults = {}, PermissionsInv, Permissions!PermissionsNext
    PROVE  PermissionsInv'
BY BeginKeepsPermissions, ReadFileKeeps, FailKeepsPermissions, ReplaceKeeps, LoadKeeps
   DEF Permissions!PermissionsNext

-----------------------------------------------------------------------------
(* Greatest numbers                                                        *)

LEMMA LeastNumber ==
    ASSUME NEW T, T \subseteq Nat, T # {}
    PROVE  \E x \in T : \A y \in T : x <= y
<1>1. PICK n \in T : TRUE
  OBVIOUS
<1> DEFINE S == 0..n
           R == StrictSubsetOrdering(S)
           TT == {0..t : t \in {u \in T : u <= n}}
<1>2. IsWellFoundedOn(R, SUBSET S)
  <2>1. IsFiniteSet(S)
    BY <1>1, FS_Interval
  <2>2. FiniteSubsetsOf(S) = SUBSET S
    BY <2>1, FS_FiniteSubsetsOfFinite
  <2> QED
    BY <2>2, FS_StrictSubsetOrderingWellFounded
<1>3. TT \subseteq SUBSET S /\ TT # {}
  BY <1>1
<1>4. PICK X \in TT : \A Y \in TT : ~(<<Y, X>> \in R)
  BY <1>2, <1>3, WFMin
<1>5. PICK x \in T : x <= n /\ X = 0..x
  BY <1>4
<1>6. ASSUME NEW y \in T, y < x PROVE FALSE
  <2>1. 0..y \in TT /\ 0..y \subseteq 0..x /\ 0..y # 0..x
    BY <1>5, <1>6, <1>1
  <2>2. <<0..y, X>> \in R
    BY <2>1, <1>3, <1>5 DEF StrictSubsetOrdering
  <2> QED
    BY <2>1, <2>2, <1>4
<1> QED
  BY <1>5, <1>6

\* A set of numbers up to n has a greatest one.
LEMMA GreatestNumber ==
    ASSUME NEW n \in Nat, NEW S, S \subseteq 0..n, S # {}
    PROVE  \E x \in S : \A y \in S : x >= y
<1> DEFINE T == {n - x : x \in S}
<1>1. T \subseteq Nat /\ T # {}
  <2>1. ASSUME NEW x \in S PROVE n - x \in Nat
    <3>1. x \in 0..n
      OBVIOUS
    <3> QED
      BY <3>1
  <2> QED
    BY <2>1
<1>2. PICK t \in T : \A u \in T : t <= u
  BY <1>1, LeastNumber
<1>3. PICK x \in S : t = n - x
  BY <1>2
<1>4. \A y \in S : n - x <= n - y
  BY <1>2, <1>3
<1>5. \A y \in S : x >= y
  BY <1>3, <1>4
<1> QED
  BY <1>3, <1>5

-----------------------------------------------------------------------------
(* The instructions of a project                                           *)

\* findGitMarker finds a directory around d, or none.
LEMMA RootIsAround ==
    ASSUME NEW d \in Project!Dir
    PROVE  Project!Root(d) \in {0} \cup Project!Dir
<1> USE ExtensionsAssumption DEF ExtensionsAssumption
<1> DEFINE S == {0} \cup {e \in 1..d : marker[e] # "absent"}
<1>1. d \in 1..Depth /\ d \in Nat
  BY DEF Project!Dir
<1>2. S \subseteq 0..d /\ S # {}
  BY <1>1
<1>3. \E x \in S : \A y \in S : x >= y
  BY <1>1, <1>2, GreatestNumber
<1>4. Project!Max(S) \in S
  BY <1>3 DEF Project!Max
<1>5. Project!Root(d) = Project!Max(S)
  BY DEF Project!Root
<1>6. S \subseteq {0} \cup Project!Dir
  BY <1>1 DEF Project!Dir
<1> QED
  BY <1>4, <1>5, <1>6

\* What the layout is.
LayoutOK ==
    /\ marker \in [Project!Dir -> Project!Markers]
    /\ metadata \in [separate : BOOLEAN, backlink : {0} \cup Project!Dir, common : Project!Dir, inside : BOOLEAN]

\* Where a directory is located, by what its root is.
LEMMA LocatedCases ==
    ASSUME LayoutOK, NEW d \in Project!Dir
    PROVE  \/ Project!Root(d) = 0 /\ Project!Located(d) = <<"path", d>>
           \/ /\ Project!Root(d) \in Project!Dir /\ marker[Project!Root(d)] = "directory"
              /\ Project!Located(d) = <<"git", Project!Root(d)>>
           \/ /\ Project!Root(d) \in Project!Dir /\ marker[Project!Root(d)] = "file"
              /\ \/ Project!Located(d) = <<"marker", Project!Root(d)>>
                 \/ /\ metadata.backlink = Project!Root(d)
                    /\ Project!Located(d) = <<"git", metadata.common>>
                 \/ Project!Located(d) = Project!Unlocated
           \/ Project!Located(d) = Project!Unlocated
<1> DEFINE r == Project!Root(d)
<1>1. r \in {0} \cup Project!Dir
  BY RootIsAround
<1>2. \A e \in Project!Dir : e \in Nat /\ e > 0
  BY ExtensionsAssumption DEF ExtensionsAssumption, Project!Dir
<1>3. CASE r = 0
  BY <1>3 DEF Project!Located
<1>4. CASE r # 0 /\ marker[r] = "directory"
  <2>1. r \in Project!Dir /\ r > 0
    BY <1>1, <1>2, <1>4
  <2> QED
    BY <1>4, <2>1 DEF Project!Located
<1>5. CASE r # 0 /\ marker[r] = "file"
  <2>1. r \in Project!Dir /\ r > 0
    BY <1>1, <1>2, <1>5
  <2>2. Project!Located(d) = Project!WorktreeIdentity(r)
    BY <1>5, <2>1 DEF Project!Located
  <2>3. \/ Project!WorktreeIdentity(r) = <<"marker", r>>
        \/ metadata.backlink = r /\ Project!WorktreeIdentity(r) = <<"git", metadata.common>>
        \/ Project!WorktreeIdentity(r) = Project!Unlocated
    BY DEF Project!WorktreeIdentity
  <2> QED
    BY <1>5, <2>1, <2>2, <2>3
<1>6. CASE r # 0 /\ marker[r] \notin {"directory", "file"}
  BY <1>6 DEF Project!Located
<1> QED
  BY <1>3, <1>4, <1>5, <1>6

LEMMA LocatedIsLocation ==
    ASSUME LayoutOK, NEW d \in Project!Dir
    PROVE  Project!Located(d) \in Project!Locations \cup {Project!Unlocated}
<1>1. metadata.common \in Project!Dir
  BY DEF LayoutOK
<1> QED
  BY <1>1, LocatedCases DEF Project!Locations

\* The identity of a checkout is not taken by another directory, whatever its
\* .git names.
LEMMA IdentitiesAreOwn ==
    ASSUME LayoutOK, NEW d \in Project!Dir, NEW e \in Project!Dir,
           Project!Located(d) = Project!Located(e), Project!Located(d) # Project!Unlocated
    PROVE  \/ Project!Root(d) = Project!Root(e)
           \/ "directory" \in {marker[Project!Root(d)], marker[Project!Root(e)]}
<1> DEFINE D == Project!Located(d)
           E == Project!Located(e)
           r == Project!Root(d)
           q == Project!Root(e)
<1>0. D = E /\ E # Project!Unlocated /\ D # Project!Unlocated
  OBVIOUS
<1>1. \/ r = 0 /\ D = <<"path", d>>
      \/ marker[r] = "directory"
      \/ D = <<"marker", r>>
      \/ metadata.backlink = r /\ D = <<"git", metadata.common>>
  BY <1>0, LocatedCases
<1>2. \/ q = 0 /\ E = <<"path", e>>
      \/ marker[q] = "directory"
      \/ E = <<"marker", q>>
      \/ metadata.backlink = q /\ E = <<"git", metadata.common>>
  BY <1>0, LocatedCases
<1> HIDE DEF D, E, r, q
<1>3. r = q \/ marker[r] = "directory" \/ marker[q] = "directory"
  BY <1>0, <1>1, <1>2
<1> QED
  BY <1>3 DEF r, q

Places == Project!Locations \cup {Project!Unlocated}
Texts == Instructions \cup {Project!Absent}
Doing == [at : {"idle", "start", "edit", "editor", "write", "remove", "confirm"}, cwd : Project!Dir,
          location : Places, cached : Places, text : Texts, told : Texts \cup {"unavailable"}]

\* What a process has cached is where its directory is, and what it does is
\* done there.
Located(s) ==
    /\ s.cached \in {Project!Unlocated, Project!Located(s.cwd)}
    /\ s.at # "idle" => s.location = s.cached /\ s.cached # Project!Unlocated
    /\ s.at = "write" => s.text \in Instructions

ProjectInv ==
    /\ LayoutOK
    /\ saved \in [Project!Locations -> Texts]
    /\ temporary \in [Process -> Texts \cup {Project!Partial}]
    /\ process \in [Process -> Doing]
    /\ \A p \in Process : Located(process[p])

LEMMA ProjectBegins == ASSUME Project!InstructionsInit PROVE ProjectInv
<1>1. process \in [Process -> {Project!Idle(d) : d \in Project!Dir}]
  BY DEF Project!InstructionsInit
<1>2. ASSUME NEW p \in Process PROVE process[p] \in Doing /\ Located(process[p])
  <2>1. PICK d \in Project!Dir : process[p] = Project!Idle(d)
    BY <1>1
  <2> QED
    BY <2>1 DEF Project!Idle, Doing, Places, Texts, Located
<1>3. process \in [Process -> Doing]
  BY <1>1, <1>2
<1> QED
  BY <1>2, <1>3 DEF ProjectInv, Project!InstructionsInit, LayoutOK, Texts

LEMMA ProjectStays == ASSUME ProjectInv, UNCHANGED instructionsVars PROVE ProjectInv'
BY DEF instructionsVars, ProjectInv, LayoutOK, Located, Project!Located, Project!Root, Project!WorktreeIdentity

\* A step of one process.
LEMMA ProcessGoes ==
    ASSUME ProjectInv, NEW p \in Process, NEW now \in Doing, Located(now), Project!Goes(p, now),
           UNCHANGED <<marker, metadata>>,
           saved' \in [Project!Locations -> Texts],
           temporary' \in [Process -> Texts \cup {Project!Partial}]
    PROVE  ProjectInv'
<1>1. process \in [Process -> Doing] /\ process' = [process EXCEPT ![p] = now]
  BY DEF ProjectInv, Project!Goes
<1>2. process' \in [Process -> Doing]
  BY <1>1
<1>3. LayoutOK'
  BY DEF ProjectInv, LayoutOK
<1>4. \A d : Project!Located(d)' = Project!Located(d)
  BY DEF Project!Located, Project!Root, Project!WorktreeIdentity
<1>5. ASSUME NEW q \in Process PROVE Located(process[q])'
  <2>1. process'[q] = IF q = p THEN now ELSE process[q]
    BY <1>1
  <2>2. Located(process'[q])
    BY <2>1 DEF ProjectInv
  <2> QED
    BY <2>2, <1>4 DEF Located
<1> QED
  BY <1>2, <1>3, <1>5 DEF ProjectInv

\* The same, when no file is touched.
LEMMA ProcessGoesAlone ==
    ASSUME ProjectInv, NEW p \in Process, NEW now \in Doing, Located(now), Project!Goes(p, now),
           UNCHANGED <<marker, metadata, saved, temporary>>
    PROVE  ProjectInv'
BY ProcessGoes DEF ProjectInv

\* What a process is after its command.
LEMMA EndIsIdle ==
    ASSUME NEW s \in Doing, Located(s)
    PROVE  LET now == [s EXCEPT !.at = "idle", !.location = Project!Unlocated, !.text = Project!Absent]
           IN now \in Doing /\ Located(now)
BY DEF Doing, Located, Places, Texts

LEMMA ProcessIs ==
    ASSUME ProjectInv, NEW p \in Process
    PROVE  process[p] \in Doing /\ Located(process[p])
BY DEF ProjectInv

LEMMA BeginKeepsProject ==
    ASSUME ProjectInv, NEW p \in Process, NEW what \in {"start", "edit", "remove"}, Project!Begin(p, what)
    PROVE  ProjectInv'
<1> DEFINE s == process[p]
           there == IF s.cached # Project!Unlocated THEN s.cached ELSE Project!Located(s.cwd)
           now == IF there # Project!Unlocated
                  THEN [s EXCEPT !.at = what, !.location = there, !.cached = there, !.told = Project!Absent]
                  ELSE [s EXCEPT !.told = IF what = "start" THEN "unavailable" ELSE @]
<1>1. s \in Doing /\ Located(s) /\ s.at = "idle" /\ Project!Goes(p, now)
      /\ UNCHANGED <<marker, metadata, saved, temporary>>
  BY ProcessIs DEF Project!Begin
<1>2. there \in Places /\ there \in {Project!Unlocated, Project!Located(s.cwd)}
  BY <1>1, LocatedIsLocation DEF Doing, Places, Located, ProjectInv
<1>3. now \in Doing
  BY <1>1, <1>2 DEF Doing, Texts
<1>4. Located(now)
  BY <1>1, <1>2 DEF Doing, Located
<1> HIDE DEF now
<1> QED
  BY <1>1, <1>3, <1>4, ProcessGoesAlone

LEMMA StartAgentKeeps ==
    ASSUME ProjectInv, NEW p \in Process, Project!StartAgent(p)
    PROVE  ProjectInv'
<1>1. PICK told \in {saved[process[p].location], "unavailable"} :
        Project!Goes(p, [process[p] EXCEPT !.at = "idle", !.location = Project!Unlocated, !.told = told])
  BY DEF Project!StartAgent
<1>2. process[p] \in Doing /\ Located(process[p]) /\ process[p].at = "start"
      /\ UNCHANGED <<marker, metadata, saved, temporary>>
  BY ProcessIs DEF Project!StartAgent
<1>3. process[p].location \in Project!Locations
  BY <1>2 DEF Doing, Located, Places
<1>4. told \in Texts \cup {"unavailable"}
  BY <1>1, <1>3 DEF ProjectInv
<1> DEFINE now == [process[p] EXCEPT !.at = "idle", !.location = Project!Unlocated, !.told = told]
<1>5. now \in Doing /\ Located(now)
  BY <1>2, <1>4 DEF Doing, Located, Places
<1> HIDE DEF now
<1>6. Project!Goes(p, now)
  BY <1>1 DEF now
<1> QED
  BY <1>2, <1>5, <1>6, ProcessGoesAlone

\* The end of a command that touches no file.
LEMMA EndsAlone ==
    ASSUME ProjectInv, NEW p \in Process, Project!Ends(p), UNCHANGED <<marker, metadata, saved, temporary>>
    PROVE  ProjectInv'
<1> DEFINE now == [process[p] EXCEPT !.at = "idle", !.location = Project!Unlocated, !.text = Project!Absent]
<1>1. now \in Doing /\ Located(now)
  BY ProcessIs, EndIsIdle
<1>2. Project!Goes(p, now)
  BY DEF Project!Ends
<1> HIDE DEF now
<1> QED
  BY <1>1, <1>2, ProcessGoesAlone

\* The end of a command that changes files.
LEMMA EndsWithFiles ==
    ASSUME ProjectInv, NEW p \in Process, Project!Ends(p), UNCHANGED <<marker, metadata>>,
           saved' \in [Project!Locations -> Texts],
           temporary' \in [Process -> Texts \cup {Project!Partial}]
    PROVE  ProjectInv'
<1> DEFINE now == [process[p] EXCEPT !.at = "idle", !.location = Project!Unlocated, !.text = Project!Absent]
<1>1. now \in Doing /\ Located(now)
  BY ProcessIs, EndIsIdle
<1>2. Project!Goes(p, now)
  BY DEF Project!Ends
<1> HIDE DEF now
<1> QED
  BY <1>1, <1>2, ProcessGoes

\* A process takes the next step of its command.
LEMMA StepGoes ==
    ASSUME ProjectInv, NEW p \in Process, NEW next \in {"editor", "confirm"}, process[p].at # "idle",
           Project!Goes(p, [process[p] EXCEPT !.at = next]), UNCHANGED <<marker, metadata, saved, temporary>>
    PROVE  ProjectInv'
<1> DEFINE now == [process[p] EXCEPT !.at = next]
<1>1. now \in Doing /\ Located(now)
  BY ProcessIs DEF Doing, Located
<1>2. Project!Goes(p, now)
  OBVIOUS
<1> HIDE DEF now
<1> QED
  BY <1>1, <1>2, ProcessGoesAlone

LEMMA ReadFirstKeeps ==
    ASSUME ProjectInv, NEW p \in Process, Project!ReadFirst(p)
    PROVE  ProjectInv'
<1>1. CASE process[p].at = "edit" /\ Project!Goes(p, [process[p] EXCEPT !.at = "editor"])
  BY <1>1, StepGoes DEF Project!ReadFirst
<1>2. CASE process[p].at = "remove" /\ Project!Goes(p, [process[p] EXCEPT !.at = "confirm"])
  BY <1>2, StepGoes DEF Project!ReadFirst
<1>3. CASE Project!Ends(p)
  BY <1>3, EndsAlone DEF Project!ReadFirst
<1> QED
  BY <1>1, <1>2, <1>3 DEF Project!ReadFirst

LEMMA EditedKeeps ==
    ASSUME ProjectInv, NEW p \in Process, NEW text \in Instructions, Project!Edited(p, text)
    PROVE  ProjectInv'
<1> DEFINE now == [process[p] EXCEPT !.at = "write", !.text = text]
<1>1. process[p] \in Doing /\ Located(process[p]) /\ process[p].at = "editor"
      /\ UNCHANGED <<marker, metadata, saved, temporary>>
  BY ProcessIs DEF Project!Edited
<1>2. now \in Doing /\ Located(now)
  BY <1>1 DEF Doing, Located, Texts
<1>3. Project!Goes(p, now)
  BY DEF Project!Edited
<1> HIDE DEF now
<1> QED
  BY <1>1, <1>2, <1>3, ProcessGoesAlone

LEMMA CancelledKeeps ==
    ASSUME ProjectInv, NEW p \in Process, Project!Cancelled(p)
    PROVE  ProjectInv'
BY EndsAlone DEF Project!Cancelled

LEMMA RemoveKeeps ==
    ASSUME ProjectInv, NEW p \in Process, Project!Remove(p)
    PROVE  ProjectInv'
<1>1. saved' = [saved EXCEPT ![process[p].location] = Project!Absent] /\ Project!Ends(p)
      /\ UNCHANGED <<marker, metadata, temporary>>
  BY DEF Project!Remove
<1>2. saved' \in [Project!Locations -> Texts]
  BY <1>1 DEF ProjectInv, Texts
<1> QED
  BY <1>1, <1>2, EndsWithFiles DEF ProjectInv

LEMMA WriteTemporaryKeeps ==
    ASSUME ProjectInv, NEW p \in Process, Project!WriteTemporary(p)
    PROVE  ProjectInv'
<1>1. temporary' = [temporary EXCEPT ![p] =
                IF @ = Project!Absent THEN Project!Partial ELSE process[p].text]
      /\ UNCHANGED <<marker, metadata, saved, process>> /\ process[p].at = "write"
  BY DEF Project!WriteTemporary
<1>2. process[p].text \in Instructions
  BY <1>1, ProcessIs DEF Located
<1>3. temporary' \in [Process -> Texts \cup {Project!Partial}]
  BY <1>1, <1>2 DEF ProjectInv, Texts
<1>4. \A d : Project!Located(d)' = Project!Located(d)
  BY <1>1 DEF Project!Located, Project!Root, Project!WorktreeIdentity
<1> QED
  BY <1>1, <1>3, <1>4 DEF ProjectInv, LayoutOK, Located

\* Only a text that is whole takes the place of the file.
LEMMA RenameKeeps ==
    ASSUME ProjectInv, NEW p \in Process, Project!Rename(p)
    PROVE  ProjectInv'
<1>1. /\ process[p].at = "write" /\ Project!Ends(p) /\ UNCHANGED <<marker, metadata>>
      /\ saved' = [saved EXCEPT ![process[p].location] = process[p].text]
      /\ temporary' = [temporary EXCEPT ![p] = Project!Absent]
  BY DEF Project!Rename
<1>2. process[p].text \in Instructions
  BY <1>1, ProcessIs DEF Located
<1>3. saved' \in [Project!Locations -> Texts]
  BY <1>1, <1>2 DEF ProjectInv, Texts
<1>4. temporary' \in [Process -> Texts \cup {Project!Partial}]
  BY <1>1 DEF ProjectInv, Texts
<1> QED
  BY <1>1, <1>3, <1>4, EndsWithFiles

LEMMA WriteFailsKeeps ==
    ASSUME ProjectInv, NEW p \in Process, Project!WriteFails(p)
    PROVE  ProjectInv'
<1>1. /\ Project!Ends(p) /\ UNCHANGED <<marker, metadata, saved>>
      /\ temporary' = [temporary EXCEPT ![p] = Project!Absent]
  BY DEF Project!WriteFails
<1>2. temporary' \in [Process -> Texts \cup {Project!Partial}]
  BY <1>1 DEF ProjectInv, Texts
<1> QED
  BY <1>1, <1>2, EndsWithFiles DEF ProjectInv

LEMMA CrashKeeps ==
    ASSUME ProjectInv, NEW p \in Process, Project!Crash(p)
    PROVE  ProjectInv'
<1> DEFINE now == Project!Idle(process[p].cwd)
<1>1. /\ Project!Goes(p, now) /\ UNCHANGED <<marker, metadata, saved>>
      /\ temporary' = [temporary EXCEPT ![p] = Project!Absent]
  BY DEF Project!Crash
<1>2. temporary' \in [Process -> Texts \cup {Project!Partial}]
  BY <1>1 DEF ProjectInv, Texts
<1>3. process[p].cwd \in Project!Dir
  BY ProcessIs DEF Doing
<1>4. now \in Doing /\ Located(now)
  BY <1>3 DEF Project!Idle, Doing, Located, Places, Texts
<1> HIDE DEF now
<1> QED
  BY <1>1, <1>2, <1>4, ProcessGoes DEF ProjectInv

\* The layout changes before any process has located its project.
LEMMA LayoutKeeps ==
    ASSUME LayoutFaults = {}, ProjectInv, NEW d \in Project!Dir, Project!Layout(d)
    PROVE  ProjectInv'
<1>1. /\ \A p \in Process : process[p].cached = Project!Unlocated
      /\ marker' = [marker EXCEPT ![d] = "directory"]
      /\ process' = [p \in Process |-> [process[p] EXCEPT !.told = Project!Absent]]
      /\ UNCHANGED <<metadata, saved, temporary>>
  BY DEF Project!Layout
<1>2. LayoutOK'
  BY <1>1 DEF ProjectInv, LayoutOK, Project!Markers
<1>3. ASSUME NEW p \in Process PROVE process'[p] \in Doing /\ Located(process[p])'
  <2>1. process[p] \in Doing /\ Located(process[p])
    BY ProcessIs
  <2>2. process[p].at = "idle" /\ process[p].cached = Project!Unlocated
    BY <2>1, <1>1 DEF Located
  <2>3. process'[p] = [process[p] EXCEPT !.told = Project!Absent]
    BY <1>1
  <2>4. process'[p] \in Doing
    BY <2>1, <2>3 DEF Doing, Texts
  <2>5. process'[p].at = "idle" /\ process'[p].cached = Project!Unlocated
    BY <2>1, <2>2, <2>3 DEF Doing
  <2> QED
    BY <2>4, <2>5 DEF Located, Project!Unlocated
<1>4. process' \in [Process -> Doing]
  BY <1>1, <1>3
<1> QED
  BY <1>1, <1>2, <1>3, <1>4 DEF ProjectInv

LEMMA ProjectKeeps ==
    ASSUME LayoutFaults = {}, ProjectInv, Project!InstructionsNext
    PROVE  ProjectInv'
BY BeginKeepsProject, StartAgentKeeps, ReadFirstKeeps, EditedKeeps, CancelledKeeps, RemoveKeeps,
   WriteTemporaryKeeps, RenameKeeps, WriteFailsKeeps, CrashKeeps, LayoutKeeps
   DEF Project!InstructionsNext

LEMMA ProjectIsTyped == ASSUME ProjectInv PROVE Project!InstructionsTypeOK
<1>1. ASSUME NEW p \in Process
      PROVE  /\ process[p].at \in {"idle", "start", "edit", "editor", "write", "remove", "confirm"}
             /\ process[p].at # "idle" => process[p].location \in Project!Locations
             /\ process[p].at = "write" => process[p].text \in Instructions
  BY ProcessIs DEF Doing, Located, Places
<1> QED
  BY <1>1 DEF ProjectInv, LayoutOK, Texts, Project!InstructionsTypeOK

LEMMA ProjectIsKept == ASSUME ProjectInv PROVE Project!InstructionsAreKept
<1> USE ExtensionsAssumption DEF ExtensionsAssumption
<1>1. \A l \in Project!Locations : saved[l] # Project!Partial
  BY DEF ProjectInv, Texts, Project!Absent, Project!Partial
<1>2. ASSUME NEW p \in Process
      PROVE  /\ process[p].told # Project!Partial
             /\ process[p].at # "idle" => process[p].location = Project!Located(process[p].cwd)
  BY ProcessIs DEF Doing, Located, Texts, Project!Absent, Project!Partial
<1>3. \A d, e \in Project!Dir :
        (Project!Located(d) = Project!Located(e) /\ Project!Located(d) # Project!Unlocated) =>
            Project!Root(d) = Project!Root(e) \/ "directory" \in {marker[Project!Root(d)], marker[Project!Root(e)]}
  BY IdentitiesAreOwn DEF ProjectInv
<1> QED
  BY <1>1, <1>2, <1>3 DEF Project!InstructionsAreKept

-----------------------------------------------------------------------------
(* Context resets: the types                                               *)

Commands == [pc : {"none", "dispatched", "loop", "compacting", "outcome", "continuing"},
             request : 0..MaxRequests, signal : BOOLEAN,
             outcome : {"none", "compacted", "other", "cancelled", "unavailable"}]
Entries == [kind : {"input", "checkpoint", "boundary", "compaction"}, of : Nat]

\* Only a request that was made is asked for, and only one that is asked for
\* gets a coordinator.
ContextInv ==
    /\ Context!ContextTypeOK
    /\ turn = "asked" => requests > 0
    /\ reset.phase # "idle" => reset.id \in Context!Request

LEMMA ContextTypes ==
    ASSUME ContextInv
    PROVE  /\ branch \in Seq(Entries) /\ pending \in BOOLEAN /\ tools \in BOOLEAN /\ aborted \in BOOLEAN
           /\ turn \in {"none", "open", "asked", "ended", "terminated"}
           /\ requests \in 0..MaxRequests
           /\ reset \in [phase : {"idle", "requested", "running"}, id : 0..MaxRequests]
           /\ coordinator \in 0..MaxRequests
           /\ command \in [Context!Request -> Commands]
           /\ compaction \in [phase : {"none", "started", "seeded"}, request : 0..MaxRequests, aborted : BOOLEAN]
           /\ waiting \subseteq Context!Request
BY DEF ContextInv, Context!ContextTypeOK, Entries, Commands

LEMMA NoCommandIsTyped ==
    /\ Context!NoCommand \in Commands
    /\ Context!NoCompaction \in [phase : {"none", "started", "seeded"}, request : 0..MaxRequests, aborted : BOOLEAN]
    /\ Context!Idle \in [phase : {"idle", "requested", "running"}, id : 0..MaxRequests]
    /\ Context!Idle.phase = "idle"
<1>1. 0 \in 0..MaxRequests
  BY ExtensionsAssumption DEF ExtensionsAssumption
<1>2. Context!NoCommand \in Commands
  BY <1>1 DEF Context!NoCommand, Commands
<1>3. Context!NoCompaction \in [phase : {"none", "started", "seeded"}, request : 0..MaxRequests, aborted : BOOLEAN]
  BY <1>1 DEF Context!NoCompaction
<1>4. Context!Idle \in [phase : {"idle", "requested", "running"}, id : 0..MaxRequests]
  BY <1>1 DEF Context!Idle
<1>5. Context!Idle.phase = "idle"
  BY DEF Context!Idle
<1> QED
  BY <1>2, <1>3, <1>4, <1>5

LEMMA ContextBegins == ASSUME Context!ContextInit PROVE ContextInv
<1>0. 0 \in 0..MaxRequests
  BY ExtensionsAssumption DEF ExtensionsAssumption
<1>1. command \in [Context!Request -> Commands]
  BY NoCommandIsTyped DEF Context!ContextInit
<1>2. branch \in Seq(Entries)
  BY DEF Context!ContextInit
<1>3. Context!ContextTypeOK
  BY <1>0, <1>1, <1>2, NoCommandIsTyped DEF Context!ContextInit, Context!ContextTypeOK, Entries, Commands
<1> QED
  BY <1>3, NoCommandIsTyped DEF ContextInv, Context!ContextInit

LEMMA ContextStays == ASSUME ContextInv, UNCHANGED contextVars PROVE ContextInv'
BY DEF contextVars, ContextInv, Context!ContextTypeOK

LEMMA AddKeeps ==
    ASSUME branch \in Seq(Entries), NEW sort \in {"input", "checkpoint", "boundary", "compaction"}, NEW of \in Nat,
           Context!Add(sort, of)
    PROVE  branch' \in Seq(Entries)
BY DEF Context!Add, Entries

\* The window is numbered by the entry that opened it.
LEMMA WindowIsNumber == ASSUME branch \in Seq(Entries) PROVE Context!CurrentWindow \in Nat
<1> DEFINE S == {0} \cup {i \in DOMAIN branch : branch[i].kind = "compaction"}
<1>1. DOMAIN branch = 1..Len(branch) /\ Len(branch) \in Nat
  OBVIOUS
<1>2. S \subseteq 0..Len(branch) /\ S # {}
  BY <1>1
<1>3. \E x \in S : \A y \in S : x >= y
  BY <1>1, <1>2, GreatestNumber
<1>4. Context!Max(S) \in S
  BY <1>3 DEF Context!Max
<1>5. S \subseteq Nat
  BY <1>1
<1> QED
  BY <1>4, <1>5 DEF Context!CurrentWindow, Context!LastOf

\* A step of the run of the agent leaves commands and compactions alone.
LEMMA TurnStartKeeps ==
    ASSUME ContextInv, Context!TurnStart
    PROVE  /\ turn' = "open"
           /\ reset' \in [phase : {"idle", "requested", "running"}, id : 0..MaxRequests]
           /\ reset'.phase # "idle" => reset'.id \in Context!Request
BY NoCommandIsTyped, ContextTypes DEF ContextInv, Context!TurnStart

LEMMA RunStartsKeeps == ASSUME ContextInv, Context!RunStarts PROVE ContextInv'
<1>1. branch' \in Seq(Entries)
  BY ContextTypes, AddKeeps DEF Context!RunStarts
<1>2. /\ turn' = "open"
      /\ reset' \in [phase : {"idle", "requested", "running"}, id : 0..MaxRequests]
      /\ reset'.phase # "idle" => reset'.id \in Context!Request
  BY TurnStartKeeps DEF Context!RunStarts
<1> QED
  BY <1>1, <1>2 DEF ContextInv, Context!ContextTypeOK, Context!RunStarts, Context!Request, Entries

LEMMA QueueInputKeeps == ASSUME ContextInv, Context!QueueInput PROVE ContextInv'
BY DEF ContextInv, Context!ContextTypeOK, Context!QueueInput, Context!Request

LEMMA NextTurnKeeps == ASSUME ContextInv, Context!NextTurn PROVE ContextInv'
<1>1. branch' \in Seq(Entries)
  BY ContextTypes, AddKeeps DEF Context!NextTurn
<1>2. /\ turn' = "open"
      /\ reset' \in [phase : {"idle", "requested", "running"}, id : 0..MaxRequests]
      /\ reset'.phase # "idle" => reset'.id \in Context!Request
  BY TurnStartKeeps DEF Context!NextTurn
<1> QED
  BY <1>1, <1>2 DEF ContextInv, Context!ContextTypeOK, Context!NextTurn, Context!Request, Entries

LEMMA CustomMessageKeeps == ASSUME ContextInv, Context!CustomMessage PROVE ContextInv'
<1>1. branch' \in Seq(Entries)
  BY ContextTypes, AddKeeps DEF Context!CustomMessage
<1> QED
  BY <1>1 DEF ContextInv, Context!ContextTypeOK, Context!CustomMessage, Context!Request, Entries

LEMMA WriteCheckpointKeeps == ASSUME ContextInv, Context!WriteCheckpoint PROVE ContextInv'
<1>1. branch' \in Seq(Entries)
  BY ContextTypes, WindowIsNumber, AddKeeps DEF Context!WriteCheckpoint
<1> QED
  BY <1>1 DEF ContextInv, Context!ContextTypeOK, Context!WriteCheckpoint, Context!Request, Entries

LEMMA NewContextKeeps ==
    ASSUME ContextInv, NEW alone \in BOOLEAN, Context!NewContext(alone) PROVE ContextInv'
BY ExtensionsAssumption
   DEF ExtensionsAssumption, ContextInv, Context!ContextTypeOK, Context!NewContext, Context!Request

LEMMA TurnEndKeeps == ASSUME ContextInv, Context!TurnEnd PROVE ContextInv'
<1>0. MaxRequests \in Nat
  BY ExtensionsAssumption DEF ExtensionsAssumption
<1>1. reset' \in [phase : {"idle", "requested", "running"}, id : 0..MaxRequests]
  BY ContextTypes DEF Context!TurnEnd
<1>2. reset'.phase # "idle" => reset'.id \in Context!Request
  BY <1>0, ContextTypes DEF ContextInv, Context!TurnEnd, Context!Request
<1> QED
  BY <1>1, <1>2 DEF ContextInv, Context!ContextTypeOK, Context!TurnEnd, Context!Request

LEMMA EscapeKeeps == ASSUME ContextInv, Context!Escape PROVE ContextInv'
<1>1. aborted' \in BOOLEAN
  BY ContextTypes DEF Context!Escape
<1>2. compaction' \in [phase : {"none", "started", "seeded"}, request : 0..MaxRequests, aborted : BOOLEAN]
  BY ContextTypes DEF Context!Escape
<1> QED
  BY <1>1, <1>2 DEF ContextInv, Context!ContextTypeOK, Context!Escape, Context!Request

LEMMA SwitchToolsKeeps == ASSUME ContextInv, Context!SwitchTools PROVE ContextInv'
BY DEF ContextInv, Context!ContextTypeOK, Context!SwitchTools, Context!Request

LEMMA AgentSettledKeeps == ASSUME ContextInv, Context!AgentSettled PROVE ContextInv'
<1> USE ContextTypes
<1>1. turn' = "none" /\ UNCHANGED <<branch, pending, tools, requests, compaction>>
  BY DEF Context!AgentSettled
<1>2. aborted' \in BOOLEAN
  BY DEF Context!AgentSettled
<1>3. CASE UNCHANGED <<reset, coordinator, command, waiting>>
  BY <1>1, <1>2, <1>3 DEF ContextInv, Context!ContextTypeOK, Context!Request
<1>4. CASE reset' = Context!Idle /\ UNCHANGED <<coordinator, command, waiting>>
  <2>1. reset' \in [phase : {"idle", "requested", "running"}, id : 0..MaxRequests] /\ reset'.phase = "idle"
    BY <1>4, NoCommandIsTyped
  <2> QED
    BY <1>1, <1>2, <1>4, <2>1 DEF ContextInv, Context!ContextTypeOK, Context!Request
<1>5. CASE /\ reset.phase = "requested" /\ coordinator' = reset.id
           /\ command' = [command EXCEPT ![reset.id].pc = "dispatched"]
           /\ waiting' = waiting \cup {reset.id}
           /\ UNCHANGED reset
  <2>1. reset.id \in Context!Request /\ reset.id \in 0..MaxRequests
    BY <1>5 DEF ContextInv
  <2>2. command[reset.id] \in Commands
    BY <2>1
  <2>3. [command[reset.id] EXCEPT !.pc = "dispatched"] \in Commands
    BY <2>2 DEF Commands
  <2>4. command' \in [Context!Request -> Commands]
    BY <1>5, <2>1, <2>3
  <2>5. coordinator' \in 0..MaxRequests /\ waiting' \subseteq Context!Request
    BY <1>5, <2>1
  <2>6. Context!ContextTypeOK'
    BY <1>1, <1>2, <1>5, <2>4, <2>5 DEF ContextInv, Context!ContextTypeOK, Context!Request, Commands
  <2> QED
    BY <2>6, <1>1, <1>5 DEF ContextInv, Context!Request
<1> QED
  BY <1>3, <1>4, <1>5 DEF Context!AgentSettled

\* The end of the command, whatever becomes of the reset.
LEMMA FinishTypes ==
    ASSUME ContextInv, NEW c \in Context!Request, Context!Finish(c)
    PROVE  /\ command' \in [Context!Request -> Commands]
           /\ coordinator' \in 0..MaxRequests
           /\ waiting' \subseteq Context!Request
BY ContextTypes, NoCommandIsTyped, ExtensionsAssumption DEF Context!Finish, ExtensionsAssumption

LEMMA ResetEnds ==
    ASSUME ContextInv, NEW r \in {reset, Context!Idle}
    PROVE  /\ r \in [phase : {"idle", "requested", "running"}, id : 0..MaxRequests]
           /\ r.phase # "idle" => r.id \in Context!Request
BY ContextTypes, NoCommandIsTyped DEF ContextInv

\* The state after a step of a command, from its parts.
LEMMA CommandStepKeeps ==
    ASSUME ContextInv, UNCHANGED <<branch, pending, tools, requests>>,
           turn' \in {turn, "open"}, aborted' \in BOOLEAN,
           command' \in [Context!Request -> Commands],
           coordinator' \in 0..MaxRequests, waiting' \subseteq Context!Request,
           compaction' \in [phase : {"none", "started", "seeded"}, request : 0..MaxRequests, aborted : BOOLEAN],
           reset' \in [phase : {"idle", "requested", "running"}, id : 0..MaxRequests],
           reset'.phase # "idle" => reset'.id \in Context!Request
    PROVE  ContextInv'
<1>1. Context!ContextTypeOK'
  BY DEF ContextInv, Context!ContextTypeOK, Context!Request, Commands
<1> QED
  BY <1>1 DEF ContextInv, Context!Request

LEMMA CommandStartKeeps ==
    ASSUME ContextInv, NEW c \in Context!Request, Context!CommandStart(c) PROVE ContextInv'
<1>1. PICK pc \in {"loop", "none"} : command' = [command EXCEPT ![c].pc = pc]
  BY DEF Context!CommandStart
<1>2. command[c] \in Commands
  BY ContextTypes
<1>3. [command[c] EXCEPT !.pc = pc] \in Commands
  BY <1>2 DEF Commands
<1>4. command' \in [Context!Request -> Commands]
  BY <1>1, <1>3, ContextTypes
<1> QED
  BY <1>4, ContextTypes, ResetEnds, CommandStepKeeps DEF Context!CommandStart

LEMMA CommandLoopKeeps ==
    ASSUME ContextInv, NEW c \in Context!Request, Context!CommandLoop(c) PROVE ContextInv'
<1>0. UNCHANGED <<branch, pending, tools, turn, aborted, requests>>
  BY DEF Context!CommandLoop
<1>1. CASE Context!Finish(c) /\ reset' \in {reset, Context!Idle} /\ UNCHANGED compaction
  BY <1>0, <1>1, ContextTypes, FinishTypes, ResetEnds, CommandStepKeeps
<1>2. CASE /\ reset.phase = "requested"
           /\ reset' = [reset EXCEPT !.phase = "running"]
           /\ command' = [command EXCEPT ![c] = [Context!NoCommand EXCEPT
                        !.pc = "compacting", !.request = reset.id]]
           /\ compaction' = [phase |-> "started", request |-> reset.id, aborted |-> FALSE]
           /\ UNCHANGED <<coordinator, waiting>>
  <2>1. reset.id \in 0..MaxRequests /\ reset.id \in Context!Request
    BY <1>2, ContextTypes DEF ContextInv
  <2>2. [Context!NoCommand EXCEPT !.pc = "compacting", !.request = reset.id] \in Commands
    BY <2>1 DEF Context!NoCommand, Commands
  <2>3. command' \in [Context!Request -> Commands]
    BY <1>2, <2>2, ContextTypes
  <2>4. compaction' \in [phase : {"none", "started", "seeded"}, request : 0..MaxRequests, aborted : BOOLEAN]
    BY <1>2, <2>1
  <2>5. /\ reset' \in [phase : {"idle", "requested", "running"}, id : 0..MaxRequests]
        /\ reset'.id \in Context!Request
    BY <1>2, <2>1, ContextTypes
  <2> QED
    BY <1>0, <1>2, <2>3, <2>4, <2>5, ContextTypes, CommandStepKeeps
<1>3. CASE reset.phase # "requested" \/ coordinator # c
  BY <1>1, <1>3 DEF Context!CommandLoop, Context!FinishIdle
<1>4. CASE ~(reset.phase # "requested" \/ coordinator # c)
  BY <1>1, <1>2, <1>4 DEF Context!CommandLoop
<1> QED
  BY <1>3, <1>4

LEMMA OwnCompactionKeeps == ASSUME ContextInv, Context!OwnCompaction PROVE ContextInv'
<1>1. 0 \in 0..MaxRequests
  BY ExtensionsAssumption DEF ExtensionsAssumption
<1>2. compaction' \in [phase : {"none", "started", "seeded"}, request : 0..MaxRequests, aborted : BOOLEAN]
  BY <1>1 DEF Context!OwnCompaction
<1> QED
  BY <1>2, ContextTypes, ResetEnds, CommandStepKeeps DEF Context!OwnCompaction

LEMMA CompactionEndTypes ==
    ASSUME ContextInv, NEW outcome1 \in {"none", "compacted", "other", "cancelled", "unavailable"},
           Context!CompactionEnd(outcome1)
    PROVE  /\ command' \in [Context!Request -> Commands]
           /\ compaction' \in [phase : {"none", "started", "seeded"}, request : 0..MaxRequests, aborted : BOOLEAN]
<1>1. compaction' \in [phase : {"none", "started", "seeded"}, request : 0..MaxRequests, aborted : BOOLEAN]
  BY ContextTypes, NoCommandIsTyped DEF Context!CompactionEnd
<1>2. ASSUME NEW c \in Context!Request
      PROVE  [command[c] EXCEPT !.pc = "outcome", !.outcome = outcome1] \in Commands
  BY ContextTypes DEF Commands
<1>3. command' \in [Context!Request -> Commands]
  BY <1>2, ContextTypes DEF Context!CompactionEnd
<1> QED
  BY <1>1, <1>3

\* The same, when the branch may have grown.
LEMMA CompactionStepKeeps ==
    ASSUME ContextInv, UNCHANGED <<pending, tools, turn, aborted, requests, reset, coordinator, waiting>>,
           branch' \in Seq(Entries), command' \in [Context!Request -> Commands],
           compaction' \in [phase : {"none", "started", "seeded"}, request : 0..MaxRequests, aborted : BOOLEAN]
    PROVE  ContextInv'
<1>1. Context!ContextTypeOK'
  BY DEF ContextInv, Context!ContextTypeOK, Context!Request, Commands, Entries
<1> QED
  BY <1>1 DEF ContextInv, Context!Request

LEMMA SessionBeforeCompactKeeps == ASSUME ContextInv, Context!SessionBeforeCompact PROVE ContextInv'
<1>0. UNCHANGED <<pending, tools, turn, aborted, requests, reset, coordinator, waiting>>
  BY DEF Context!SessionBeforeCompact
<1>1. CASE (\E outcome1 \in {"cancelled", "unavailable"} : Context!CompactionEnd(outcome1)) /\ UNCHANGED branch
  BY <1>0, <1>1, ContextTypes, CompactionEndTypes, CompactionStepKeeps
<1>2. CASE /\ IF tools THEN Context!Add("boundary", 0) ELSE UNCHANGED branch
           /\ compaction' = [compaction EXCEPT !.phase = "seeded"]
           /\ \E S \in SUBSET Context!Request :
                command' = [c \in Context!Request |-> IF c \in S THEN [command[c] EXCEPT !.signal = TRUE] ELSE command[c]]
  <2>1. branch' \in Seq(Entries)
    BY <1>2, ContextTypes, AddKeeps
  <2>2. compaction' \in [phase : {"none", "started", "seeded"}, request : 0..MaxRequests, aborted : BOOLEAN]
    BY <1>2, ContextTypes
  <2>3. \A c \in Context!Request : [command[c] EXCEPT !.signal = TRUE] \in Commands
    BY ContextTypes DEF Commands
  <2>4. command' \in [Context!Request -> Commands]
    BY <1>2, <2>3, ContextTypes
  <2> QED
    BY <1>0, <2>1, <2>2, <2>4, CompactionStepKeeps
<1> DEFINE ours == reset.phase = "running" /\ reset.id = compaction.request
           S == {c \in Context!Request : Context!Compacting(c) /\ tools /\ ours}
<1>3. ASSUME command' = [c \in Context!Request |-> IF Context!Compacting(c) /\ tools /\ ours
                    THEN [command[c] EXCEPT !.signal = TRUE] ELSE command[c]]
      PROVE  \E SS \in SUBSET Context!Request :
                command' = [c \in Context!Request |-> IF c \in SS THEN [command[c] EXCEPT !.signal = TRUE] ELSE command[c]]
  <2>1. S \in SUBSET Context!Request
    OBVIOUS
  <2>2. command' = [c \in Context!Request |-> IF c \in S THEN [command[c] EXCEPT !.signal = TRUE] ELSE command[c]]
    BY <1>3
  <2> QED
    BY <2>1, <2>2
<1> QED
  BY <1>1, <1>2, <1>3 DEF Context!SessionBeforeCompact

LEMMA CompactedKeeps == ASSUME ContextInv, Context!Compacted PROVE ContextInv'
<1>0. UNCHANGED <<pending, tools, turn, aborted, requests, reset, coordinator, waiting>>
  BY DEF Context!Compacted
<1>1. compaction.request \in Nat
  <2>1. compaction.request \in 0..MaxRequests
    BY ContextTypes
  <2> QED
    BY <2>1
<1>2. branch' \in Seq(Entries)
  BY <1>1, ContextTypes, AddKeeps DEF Context!Compacted
<1>3. \E outcome1 \in {"none", "compacted", "other", "cancelled", "unavailable"} : Context!CompactionEnd(outcome1)
  BY DEF Context!Compacted
<1> QED
  BY <1>0, <1>2, <1>3, CompactionEndTypes, CompactionStepKeeps

LEMMA OutcomeKeeps ==
    ASSUME ContextInv, NEW c \in Context!Request, Context!Outcome(c) PROVE ContextInv'
<1>0. UNCHANGED <<branch, pending, tools, requests>>
  BY DEF Context!Outcome
<1>1. compaction' \in [phase : {"none", "started", "seeded"}, request : 0..MaxRequests, aborted : BOOLEAN]
  BY ContextTypes, NoCommandIsTyped DEF Context!Outcome
<1>2. CASE Context!FinishIdle(c) /\ UNCHANGED <<turn, aborted>>
  <2>1. Context!Finish(c) /\ reset' \in {reset, Context!Idle}
    BY <1>2 DEF Context!FinishIdle
  <2> QED
    BY <1>0, <1>1, <1>2, <2>1, ContextTypes, FinishTypes, ResetEnds, CommandStepKeeps
<1>3. CASE /\ reset' = Context!Idle
           /\ command' = [command EXCEPT ![c] = [Context!NoCommand EXCEPT !.pc = "continuing"]]
           /\ turn' = "open" /\ aborted' = FALSE
           /\ UNCHANGED <<coordinator, waiting>>
  <2>1. [Context!NoCommand EXCEPT !.pc = "continuing"] \in Commands
    BY NoCommandIsTyped DEF Commands
  <2>2. command' \in [Context!Request -> Commands]
    BY <1>3, <2>1, ContextTypes
  <2> QED
    BY <1>0, <1>1, <1>3, <2>2, ContextTypes, ResetEnds, CommandStepKeeps
<1> QED
  BY <1>2, <1>3 DEF Context!Outcome

LEMMA ContinuedKeeps ==
    ASSUME ContextInv, NEW c \in Context!Request, Context!Continued(c) PROVE ContextInv'
<1>1. command' = [command EXCEPT ![c].pc = "loop"]
  BY DEF Context!Continued
<1>2. [command[c] EXCEPT !.pc = "loop"] \in Commands
  BY ContextTypes DEF Commands
<1>3. command' \in [Context!Request -> Commands]
  BY <1>1, <1>2, ContextTypes
<1> QED
  BY <1>3, ContextTypes, ResetEnds, CommandStepKeeps DEF Context!Continued

LEMMA ClearResetKeeps ==
    ASSUME ContextInv, NEW kept \in 0..Len(branch), Context!ClearReset(kept) PROVE ContextInv'
<1>1. branch' \in Seq(Entries)
  BY ContextTypes DEF Context!ClearReset
<1>2. 0 \in 0..MaxRequests
  BY ExtensionsAssumption DEF ExtensionsAssumption
<1>3. Context!ContextTypeOK'
  BY <1>1, <1>2, NoCommandIsTyped
     DEF ContextInv, Context!ContextTypeOK, Context!ClearReset, Context!Request, Entries
<1> QED
  BY <1>3, NoCommandIsTyped DEF ContextInv, Context!ClearReset, Context!Request

LEMMA ContextKeeps == ASSUME ContextInv, Context!ContextNext PROVE ContextInv'
<1>1. Len(branch) \in 0..Len(branch)
  BY ContextTypes
<1> QED
  BY <1>1, RunStartsKeeps, QueueInputKeeps, NextTurnKeeps, CustomMessageKeeps, WriteCheckpointKeeps, NewContextKeeps,
     TurnEndKeeps, EscapeKeeps, SwitchToolsKeeps, AgentSettledKeeps, OwnCompactionKeeps,
     SessionBeforeCompactKeeps, CompactedKeeps, ClearResetKeeps, CommandStartKeeps, CommandLoopKeeps,
     OutcomeKeeps, ContinuedKeeps
     DEF Context!ContextNext, Context!SessionTree, Context!CommandStep

-----------------------------------------------------------------------------
(* Context resets: what a compaction may drop and what may go on           *)

\* From the call of new_context to its compaction the checkpoint is of the
\* window that ends and no input comes after it.
Covered ==
    /\ compaction.phase # "none" => turn \in {"none", "ended", "terminated"}
    /\ turn = "asked" => Context!HasCheckpoint
    /\ reset.phase = "requested" => Context!HasCheckpoint /\ turn \in {"none", "terminated"}
    /\ compaction.phase # "none" /\ compaction.request # 0 => Context!HasCheckpoint /\ turn = "none"
    /\ compaction.phase = "seeded" => reset.phase # "requested"

\* No run is stopped while its reset is made, and the command that goes on is
\* the one whose compaction was the last.
Unstopped ==
    /\ reset.phase = "running" /\ turn = "none" => ~aborted
    /\ \A c \in Context!Request : command[c].pc = "outcome" =>
        /\ command[c].outcome # "none"
        /\ coordinator = c =>
            /\ compaction.phase = "none"
            /\ command[c].outcome = "compacted" => ~compaction.aborted

ResetInv == ContextInv /\ Covered /\ Unstopped

LEMMA LastIsThere ==
    ASSUME branch \in Seq(Entries), NEW sort
    PROVE  Context!LastOf(sort) \in 0..Len(branch)
<1> DEFINE S == {0} \cup {i \in DOMAIN branch : branch[i].kind = sort}
<1>1. DOMAIN branch = 1..Len(branch) /\ Len(branch) \in Nat
  OBVIOUS
<1>2. S \subseteq 0..Len(branch) /\ S # {}
  BY <1>1
<1>3. \E x \in S : \A y \in S : x >= y
  BY <1>1, <1>2, GreatestNumber
<1>4. Context!Max(S) \in S
  BY <1>3 DEF Context!Max
<1> QED
  BY <1>2, <1>4 DEF Context!LastOf

LEMMA SameBranchSameCheckpoint ==
    ASSUME branch' = branch PROVE Context!HasCheckpoint' <=> Context!HasCheckpoint
<1>1. ASSUME NEW sort PROVE Context!LastOf(sort)' = Context!LastOf(sort)
  <2>1. {i \in DOMAIN branch' : branch'[i].kind = sort} = {i \in DOMAIN branch : branch[i].kind = sort}
    OBVIOUS
  <2> QED
    BY <2>1 DEF Context!LastOf
<1> QED
  BY <1>1 DEF Context!HasCheckpoint, Context!CurrentWindow

\* The boundary that a compaction seeds is no input and no checkpoint.
LEMMA BoundaryKeepsCheckpoint ==
    ASSUME branch \in Seq(Entries), Context!Add("boundary", 0), Context!HasCheckpoint
    PROVE  Context!HasCheckpoint'
<1> DEFINE n == Len(branch)
<1>1. n \in Nat /\ DOMAIN branch = 1..n
  OBVIOUS
<1>2. /\ DOMAIN branch' = 1..(n + 1)
      /\ \A i \in 1..n : branch'[i] = branch[i]
      /\ branch'[n + 1].kind = "boundary"
  BY <1>1 DEF Context!Add, Entries
<1>3. ASSUME NEW sort, sort # "boundary" PROVE Context!LastOf(sort)' = Context!LastOf(sort)
  <2>1. {i \in DOMAIN branch' : branch'[i].kind = sort} = {i \in DOMAIN branch : branch[i].kind = sort}
    BY <1>1, <1>2, <1>3
  <2> QED
    BY <2>1 DEF Context!LastOf
<1>4. Context!LastOf("checkpoint") \in 1..n
  BY <1>1, LastIsThere DEF Context!HasCheckpoint
<1>5. /\ Context!LastOf("checkpoint")' = Context!LastOf("checkpoint")
      /\ Context!CurrentWindow' = Context!CurrentWindow
  BY <1>3 DEF Context!CurrentWindow
<1>6. branch'[Context!LastOf("checkpoint")].of = Context!CurrentWindow
  BY <1>2, <1>4 DEF Context!HasCheckpoint
<1>7. \A i \in 1..(n + 1) : i > Context!LastOf("checkpoint") => branch'[i].kind # "input"
  <2> SUFFICES ASSUME NEW i \in 1..(n + 1), i > Context!LastOf("checkpoint")
               PROVE  branch'[i].kind # "input"
    OBVIOUS
  <2>1. CASE i \in 1..n
    BY <1>1, <1>2, <2>1 DEF Context!HasCheckpoint
  <2>2. CASE i = n + 1
    BY <1>2, <2>2
  <2> QED
    BY <1>1, <2>1, <2>2
<1> QED
  BY <1>1, <1>2, <1>4, <1>5, <1>6, <1>7 DEF Context!HasCheckpoint

-----------------------------------------------------------------------------
(* Steps of the run                                                        *)

LEMMA ResetBegins == ASSUME Context!ContextInit PROVE ResetInv
<1>1. Covered
  BY DEF Context!ContextInit, Context!NoCompaction, Context!Idle, Covered
<1>2. Unstopped
  BY DEF Context!ContextInit, Context!NoCommand, Context!Idle, Unstopped
<1> QED
  BY <1>1, <1>2, ContextBegins DEF ResetInv

LEMMA ResetStays == ASSUME ResetInv, UNCHANGED contextVars PROVE ResetInv'
<1>1. Context!HasCheckpoint' <=> Context!HasCheckpoint
  BY SameBranchSameCheckpoint DEF contextVars
<1>2. Covered'
  BY <1>1 DEF ResetInv, Covered, contextVars
<1>3. Unstopped'
  BY DEF ResetInv, Unstopped, contextVars, Context!Request
<1> QED
  BY <1>2, <1>3, ContextStays DEF ResetInv

LEMMA CommandsAside ==
    ASSUME Unstopped, UNCHANGED <<command, coordinator, compaction>>,
           reset'.phase = "running" /\ turn' = "none" => ~aborted'
    PROVE  Unstopped'
BY DEF Unstopped, Context!Request

LEMMA RunKeepsReset ==
    ASSUME "late_messages" \notin ContextFaults, ResetInv,
           \/ Context!RunStarts \/ Context!QueueInput \/ Context!NextTurn \/ Context!CustomMessage
           \/ Context!WriteCheckpoint \/ Context!TurnEnd \/ Context!SwitchTools
           \/ \E alone \in BOOLEAN : Context!NewContext(alone)
    PROVE  Covered' /\ Unstopped'
<1> USE DEF ResetInv
<1>1. ASSUME Context!RunStarts \/ Context!NextTurn PROVE Covered' /\ Unstopped'
  <2>1. turn' = "open" /\ reset'.phase # "requested" /\ compaction.phase = "none"
        /\ UNCHANGED <<command, coordinator, compaction>>
    BY <1>1, NoCommandIsTyped
       DEF Context!RunStarts, Context!NextTurn, Context!TurnStart, Context!IsIdle, Context!Quiet
  <2> QED
    BY <2>1, CommandsAside DEF Covered
<1>2. ASSUME Context!CustomMessage \/ Context!WriteCheckpoint PROVE Covered' /\ Unstopped'
  <2>1. turn = "open" /\ UNCHANGED <<turn, reset, aborted, command, coordinator, compaction>>
    BY <1>2 DEF Context!CustomMessage, Context!WriteCheckpoint
  <2> QED
    BY <2>1, CommandsAside DEF Covered
<1>3. ASSUME Context!QueueInput \/ Context!SwitchTools PROVE Covered' /\ Unstopped'
  <2>1. UNCHANGED <<branch, turn, reset, aborted, command, coordinator, compaction>>
    BY <1>3 DEF Context!QueueInput, Context!SwitchTools
  <2> QED
    BY <2>1, CommandsAside, SameBranchSameCheckpoint DEF Covered, Unstopped
<1>4. ASSUME NEW alone \in BOOLEAN, Context!NewContext(alone) PROVE Covered' /\ Unstopped'
  <2>1. /\ turn = "open" /\ turn' = "asked" /\ Context!HasCheckpoint
        /\ UNCHANGED <<branch, reset, aborted, command, coordinator, compaction>>
    BY <1>4 DEF Context!NewContext
  <2> QED
    BY <2>1, CommandsAside, SameBranchSameCheckpoint DEF Covered
<1>5. ASSUME Context!TurnEnd PROVE Covered' /\ Unstopped'
  <2>1. /\ turn \in {"open", "asked"} /\ UNCHANGED <<branch, aborted, command, coordinator, compaction>>
        /\ turn' = IF turn = "asked" THEN "terminated" ELSE "ended"
        /\ reset' = reset \/ turn = "asked"
    BY <1>5 DEF Context!TurnEnd
  <2>2. compaction.phase = "none"
    BY <2>1 DEF Covered
  <2> QED
    BY <2>1, <2>2, CommandsAside, SameBranchSameCheckpoint DEF Covered
<1> QED
  BY <1>1, <1>2, <1>3, <1>4, <1>5

LEMMA EscapeKeepsReset ==
    ASSUME ResetInv, Context!Escape PROVE Covered' /\ Unstopped'
<1> USE DEF ResetInv
<1>0. UNCHANGED <<branch, turn, reset, coordinator, command>>
  BY DEF Context!Escape
<1>1. CASE Context!Quiet
  <2>1. turn # "none" /\ compaction' = compaction
    BY <1>1 DEF Context!Escape, Context!IsIdle, Context!Quiet
  <2> QED
    BY <1>0, <2>1, CommandsAside, SameBranchSameCheckpoint DEF Covered
<1>2. CASE ~Context!Quiet
  <2>1. /\ compaction.phase # "none" /\ aborted' = aborted
        /\ compaction'.phase = compaction.phase /\ compaction'.request = compaction.request
    BY <1>2, ContextTypes DEF Context!Escape, Context!Quiet
  <2>2. Covered'
    BY <1>0, <2>1, SameBranchSameCheckpoint DEF Covered
  <2>3. Unstopped'
    BY <1>0, <2>1 DEF Unstopped, Context!Request
  <2> QED
    BY <2>2, <2>3
<1> QED
  BY <1>1, <1>2

LEMMA AgentSettledKeepsReset ==
    ASSUME ResetInv, Context!AgentSettled PROVE Covered' /\ Unstopped'
<1> USE DEF ResetInv
<1>1. /\ turn' = "none" /\ turn \in {"ended", "terminated"} /\ compaction.phase = "none"
      /\ UNCHANGED <<branch, compaction>>
      /\ reset' \in {reset, Context!Idle}
      /\ aborted' = (aborted /\ reset'.phase = "requested")
  BY DEF Context!AgentSettled, Context!Quiet
<1>2. Covered'
  BY <1>1, NoCommandIsTyped, SameBranchSameCheckpoint DEF Covered
<1>3. reset'.phase = "running" /\ turn' = "none" => ~aborted'
  BY <1>1, ContextTypes
<1>a. UNCHANGED compaction
  BY <1>1
<1>4. CASE UNCHANGED <<coordinator, command>>
  BY <1>a, <1>3, <1>4, <1>2, CommandsAside
<1>5. CASE /\ reset.id \in Context!Request /\ coordinator' = reset.id
           /\ command' = [command EXCEPT ![reset.id].pc = "dispatched"]
  <2>1. \A c \in Context!Request : command'[c].pc = "outcome" => c # reset.id /\ command'[c] = command[c]
    BY <1>5, ContextTypes DEF Commands
  <2>2. Unstopped'
    BY <1>a, <1>3, <1>5, <2>1 DEF Unstopped, Context!Request
  <2> QED
    BY <1>2, <2>2
<1> QED
  BY <1>4, <1>5 DEF Context!AgentSettled, ContextInv

-----------------------------------------------------------------------------
(* Steps of the command and the compaction                                 *)

LEMMA OwnCompactionKeepsReset ==
    ASSUME ResetInv, Context!OwnCompaction PROVE Covered' /\ Unstopped'
<1> USE DEF ResetInv
<1>1. /\ turn \in {"none", "ended", "terminated"} /\ \A c \in Context!Request : command[c].pc # "outcome"
      /\ compaction' = [phase |-> "started", request |-> 0, aborted |-> FALSE]
      /\ UNCHANGED <<branch, turn, aborted, reset, coordinator, command>>
  BY DEF Context!OwnCompaction, Context!Resuming
<1>2. Covered'
  BY <1>1, SameBranchSameCheckpoint DEF Covered
<1>3. Unstopped'
  BY <1>1 DEF Unstopped, Context!Request
<1> QED
  BY <1>2, <1>3

\* A command ends: no other command has come to the end of its compaction.
LEMMA FinishKeepsReset ==
    ASSUME ResetInv, NEW c \in Context!Request, Context!Finish(c),
           reset' \in {reset, Context!Idle}, compaction' \in {compaction, Context!NoCompaction},
           UNCHANGED <<branch, turn, aborted>>
    PROVE  Covered' /\ Unstopped'
<1> USE DEF ResetInv
<1>1. \/ compaction'.phase = compaction.phase /\ compaction'.request = compaction.request
      \/ compaction'.phase = "none" /\ ~compaction'.aborted
  BY DEF Context!NoCompaction
<1>2. Covered'
  BY <1>1, NoCommandIsTyped, SameBranchSameCheckpoint DEF Covered
<1>3. \A d \in Context!Request : command'[d].pc = "outcome" => d # c /\ command'[d] = command[d]
  BY ContextTypes DEF Context!Finish, Context!NoCommand
<1>4. coordinator' \in {coordinator, 0} /\ \A d \in Context!Request : d # 0
  BY DEF Context!Finish, Context!Request
<1>5. \/ compaction' = compaction
      \/ compaction'.phase = "none" /\ ~compaction'.aborted
  BY DEF Context!NoCompaction
<1>6. Unstopped'
  BY <1>3, <1>4, <1>5, NoCommandIsTyped DEF Unstopped, Context!Request
<1> QED
  BY <1>2, <1>6

LEMMA CommandStartKeepsReset ==
    ASSUME ResetInv, NEW c \in Context!Request, Context!CommandStart(c) \/ Context!Continued(c)
    PROVE  Covered' /\ Unstopped'
<1> USE DEF ResetInv
<1>1. UNCHANGED <<branch, turn, aborted, reset, coordinator, compaction>>
  BY DEF Context!CommandStart, Context!Continued
<1>2. \A d \in Context!Request : command'[d].pc = "outcome" => command'[d] = command[d]
  BY ContextTypes DEF Context!CommandStart, Context!Continued, Commands
<1>3. Covered'
  BY <1>1, SameBranchSameCheckpoint DEF Covered
<1>4. Unstopped'
  BY <1>1, <1>2 DEF Unstopped, Context!Request
<1> QED
  BY <1>3, <1>4

LEMMA CommandLoopKeepsReset ==
    ASSUME ResetInv, NEW c \in Context!Request, Context!CommandLoop(c)
    PROVE  Covered' /\ Unstopped'
<1> USE DEF ResetInv
<1>0. UNCHANGED <<branch, turn, aborted>>
  BY DEF Context!CommandLoop
<1>1. CASE Context!Finish(c) /\ reset' \in {reset, Context!Idle} /\ UNCHANGED compaction
  BY <1>0, <1>1, FinishKeepsReset
<1>2. CASE /\ reset.phase = "requested" /\ coordinator = c /\ ~aborted /\ Context!IsIdle
           /\ reset' = [reset EXCEPT !.phase = "running"]
           /\ command' = [command EXCEPT ![c] = [Context!NoCommand EXCEPT
                !.pc = "compacting", !.request = reset.id]]
           /\ compaction' = [phase |-> "started", request |-> reset.id, aborted |-> FALSE]
           /\ UNCHANGED coordinator
  <2>1. reset'.phase = "running" /\ turn = "none" /\ Context!HasCheckpoint
    BY <1>2, ContextTypes DEF Covered, Context!IsIdle
  <2>2. Covered'
    BY <1>0, <1>2, <2>1, SameBranchSameCheckpoint DEF Covered
  <2>3. \A d \in Context!Request : command'[d].pc = "outcome" => d # c /\ command'[d] = command[d]
    BY <1>2, ContextTypes DEF Context!NoCommand
  <2>4. Unstopped'
    BY <1>0, <1>2, <2>1, <2>3 DEF Unstopped, Context!Request
  <2> QED
    BY <2>2, <2>4
<1> QED
  BY <1>1, <1>2 DEF Context!CommandLoop, Context!FinishIdle

LEMMA CompactionEndKeepsReset ==
    ASSUME ResetInv, NEW result \in {"compacted", "other", "cancelled", "unavailable"},
           Context!CompactionEnd(result), result = "compacted" => ~compaction.aborted,
           compaction.phase # "none", branch' = branch \/ compaction.phase = "seeded",
           UNCHANGED <<turn, aborted, reset, coordinator>>
    PROVE  Covered' /\ Unstopped'
<1> USE DEF ResetInv
<1>1. compaction'.phase = "none" /\ (compaction'.aborted => compaction.aborted)
  BY DEF Context!CompactionEnd, Context!NoCompaction
<1>2. Covered'
  BY <1>1, SameBranchSameCheckpoint DEF Covered
<1>3. ASSUME NEW c \in Context!Request, command'[c].pc = "outcome", coordinator = c
      PROVE  command'[c].outcome = result
  <2>1. command[c].pc # "outcome"
    BY <1>3 DEF Unstopped
  <2> QED
    BY <1>3, <2>1, ContextTypes DEF Context!CompactionEnd, Commands
<1>4. ASSUME NEW c \in Context!Request, command'[c].pc = "outcome"
      PROVE  command'[c].outcome # "none"
  <2>1. CASE Context!Compacting(c)
    BY <2>1, ContextTypes DEF Context!CompactionEnd, Commands
  <2>2. CASE ~Context!Compacting(c)
    BY <1>4, <2>2, ContextTypes DEF Context!CompactionEnd, Unstopped
  <2> QED
    BY <2>1, <2>2
<1>5. Unstopped'
  BY <1>1, <1>3, <1>4 DEF Unstopped, Context!Request
<1> QED
  BY <1>2, <1>5

LEMMA SessionBeforeCompactKeepsReset ==
    ASSUME ResetInv, Context!SessionBeforeCompact PROVE Covered' /\ Unstopped'
<1> USE DEF ResetInv
<1>0. compaction.phase = "started" /\ UNCHANGED <<turn, aborted, reset, coordinator>>
  BY DEF Context!SessionBeforeCompact
<1>1. CASE branch' = branch /\ \E result \in {"cancelled", "unavailable"} : Context!CompactionEnd(result)
  BY <1>0, <1>1, CompactionEndKeepsReset
<1>2. CASE /\ compaction' = [compaction EXCEPT !.phase = "seeded"]
           /\ reset.phase # "requested"
           /\ branch' = branch \/ Context!Add("boundary", 0)
           /\ \A c \in Context!Request : command'[c].pc = "outcome" =>
                command[c].pc = "outcome" /\ command'[c].outcome = command[c].outcome
  <2>1. compaction'.phase = "seeded" /\ compaction'.request = compaction.request
    BY <1>2, ContextTypes
  <2>2. Context!HasCheckpoint => Context!HasCheckpoint'
    BY <1>2, ContextTypes, SameBranchSameCheckpoint, BoundaryKeepsCheckpoint
  <2>3. Covered'
    BY <1>0, <1>2, <2>1, <2>2 DEF Covered
  <2>4. Unstopped'
    BY <1>0, <1>2, <2>1 DEF Unstopped, Context!Request
  <2> QED
    BY <2>3, <2>4
<1>3. reset.phase # "requested" \/ (IF tools THEN reset.phase # "idle" /\ ~(reset.phase = "running" /\ reset.id = compaction.request)
                                   ELSE reset.phase # "idle")
  OBVIOUS
<1>4. ASSUME NEW S, command' = [c \in Context!Request |-> IF Context!Compacting(c) /\ S
                                 THEN [command[c] EXCEPT !.signal = TRUE] ELSE command[c]]
      PROVE  \A c \in Context!Request : command'[c].pc = "outcome" =>
                command[c].pc = "outcome" /\ command'[c].outcome = command[c].outcome
  BY <1>4, ContextTypes DEF Commands
<1> QED
  BY <1>1, <1>2, <1>3, <1>4 DEF Context!SessionBeforeCompact

LEMMA CompactedKeepsReset ==
    ASSUME ResetInv, Context!Compacted PROVE Covered' /\ Unstopped'
BY CompactionEndKeepsReset DEF Context!Compacted

LEMMA OutcomeKeepsReset ==
    ASSUME ResetInv, NEW c \in Context!Request, Context!Outcome(c)
    PROVE  Covered' /\ Unstopped'
<1> USE DEF ResetInv
<1>0. branch' = branch /\ compaction' \in {compaction, Context!NoCompaction}
  BY DEF Context!Outcome
<1>1. CASE Context!FinishIdle(c) /\ UNCHANGED <<turn, aborted>>
  <2>1. Context!Finish(c) /\ reset' \in {reset, Context!Idle}
    BY <1>1 DEF Context!FinishIdle
  <2> QED
    BY <1>0, <1>1, <2>1, FinishKeepsReset
<1>2. CASE /\ Context!IsIdle /\ reset' = Context!Idle
           /\ command' = [command EXCEPT ![c] = [Context!NoCommand EXCEPT !.pc = "continuing"]]
           /\ turn' = "open" /\ aborted' = FALSE
           /\ UNCHANGED coordinator
  <2>1. compaction'.phase = "none" /\ (compaction'.aborted => compaction' = compaction)
    BY <1>0, <1>2 DEF Context!IsIdle, Context!NoCompaction
  <2>2. Covered'
    BY <1>2, <2>1, NoCommandIsTyped DEF Covered
  <2>3. \A d \in Context!Request : command'[d].pc = "outcome" => d # c /\ command'[d] = command[d]
    BY <1>2, ContextTypes DEF Context!NoCommand
  <2>4. Unstopped'
    BY <1>2, <2>1, <2>3 DEF Unstopped, Context!Request
  <2> QED
    BY <2>2, <2>4
<1> QED
  BY <1>1, <1>2 DEF Context!Outcome

LEMMA ClearResetKeepsReset ==
    ASSUME ResetInv, NEW kept \in 0..Len(branch), Context!ClearReset(kept),
           Context!IsIdle \/ kept = Len(branch)
    PROVE  Covered' /\ Unstopped'
<1> USE DEF ResetInv
<1>1. reset'.phase = "idle" /\ coordinator' = 0 /\ UNCHANGED <<turn, aborted, command, compaction>>
  BY NoCommandIsTyped DEF Context!ClearReset
<1>2. CASE Context!IsIdle
  BY <1>1, <1>2 DEF Covered, Unstopped, Context!IsIdle, Context!Request
<1>3. CASE kept = Len(branch)
  <2>1. branch' = branch
    BY <1>3, ContextTypes DEF Context!ClearReset
  <2> QED
    BY <1>1, <2>1, SameBranchSameCheckpoint DEF Covered, Unstopped, Context!Request
<1> QED
  BY <1>2, <1>3

LEMMA ResetKeeps ==
    ASSUME "late_messages" \notin ContextFaults, ResetInv, Context!ContextNext PROVE ResetInv'
<1>1. Len(branch) \in 0..Len(branch)
  BY ContextTypes DEF ResetInv
<1>2. Covered' /\ Unstopped'
  BY <1>1, RunKeepsReset, EscapeKeepsReset, AgentSettledKeepsReset, OwnCompactionKeepsReset,
     SessionBeforeCompactKeepsReset, CompactedKeepsReset, ClearResetKeepsReset, CommandStartKeepsReset,
     CommandLoopKeepsReset, OutcomeKeepsReset
     DEF Context!ContextNext, Context!SessionTree, Context!CommandStep
<1> QED
  BY <1>2, ContextKeeps DEF ResetInv

-----------------------------------------------------------------------------
(* Every reset is warranted                                                *)

LEMMA AddedIsLast ==
    ASSUME branch \in Seq(Entries), NEW sort, NEW of, Context!Add(sort, of)
    PROVE  branch'[Len(branch')].kind = sort
BY DEF Context!Add

LEMMA OnlyCompactionsDrop ==
    ASSUME ResetInv, Context!ContextNext, Len(branch') > Len(branch),
           branch'[Len(branch')].kind = "compaction"
    PROVE  Context!Compacted
<1>0. branch \in Seq(Entries)
  BY ContextTypes DEF ResetInv
<1>1. ~Context!RunStarts /\ ~Context!NextTurn /\ ~Context!CustomMessage
  BY <1>0, AddedIsLast DEF Context!RunStarts, Context!NextTurn, Context!CustomMessage
<1>2. ~Context!WriteCheckpoint /\ ~Context!SessionBeforeCompact
  BY <1>0, AddedIsLast DEF Context!WriteCheckpoint, Context!SessionBeforeCompact
<1>3. ASSUME NEW kept \in 0..Len(branch) PROVE ~Context!ClearReset(kept)
  BY <1>0 DEF Context!ClearReset
<1>4. Len(branch) \in 0..Len(branch)
  BY <1>0
<1>5. \A c \in Context!Request : ~Context!CommandStep(c)
  BY <1>0 DEF Context!CommandStep, Context!CommandStart, Context!CommandLoop, Context!Outcome, Context!Continued
<1>6. branch' # branch
  BY <1>0
<1>7. ~Context!QueueInput /\ ~Context!TurnEnd /\ ~Context!Escape /\ ~Context!SwitchTools
      /\ ~Context!AgentSettled /\ ~Context!OwnCompaction /\ \A alone \in BOOLEAN : ~Context!NewContext(alone)
  BY <1>6 DEF Context!QueueInput, Context!TurnEnd, Context!Escape, Context!SwitchTools,
        Context!AgentSettled, Context!OwnCompaction, Context!NewContext
<1> QED
  BY <1>1, <1>2, <1>3, <1>4, <1>5, <1>7 DEF Context!ContextNext, Context!SessionTree

LEMMA OnlyOutcomesGoOn ==
    ASSUME ResetInv, Context!ContextNext, NEW c \in Context!Request,
           command[c].pc = "outcome", command'[c].pc = "continuing"
    PROVE  Context!Outcome(c)
<1>0. /\ command \in [Context!Request -> Commands]
      /\ reset.phase # "idle" => reset.id \in Context!Request
  BY ContextTypes DEF ResetInv, ContextInv
<1>1. command' # command
  OBVIOUS
<1>2. ~Context!RunStarts /\ ~Context!NextTurn /\ ~Context!CustomMessage /\ ~Context!WriteCheckpoint
      /\ ~Context!QueueInput /\ ~Context!TurnEnd /\ ~Context!Escape /\ ~Context!SwitchTools
      /\ ~Context!OwnCompaction /\ \A alone \in BOOLEAN : ~Context!NewContext(alone)
  BY <1>1 DEF Context!RunStarts, Context!NextTurn, Context!CustomMessage, Context!WriteCheckpoint,
        Context!QueueInput, Context!TurnEnd, Context!Escape, Context!SwitchTools,
        Context!OwnCompaction, Context!NewContext
<1>3. \A kept \in 0..Len(branch) : ~Context!ClearReset(kept)
  BY <1>1 DEF Context!ClearReset
<1>4. Len(branch) \in 0..Len(branch)
  BY ContextTypes DEF ResetInv
<1>5. ~Context!AgentSettled
  BY <1>0, <1>1 DEF Context!AgentSettled, Commands
<1>6. ASSUME NEW result, Context!CompactionEnd(result) PROVE FALSE
  BY <1>0, <1>6 DEF Context!CompactionEnd, Commands
<1>7. ~Context!Compacted
  BY <1>6 DEF Context!Compacted
<1>8. ~Context!SessionBeforeCompact
  BY <1>0, <1>6 DEF Context!SessionBeforeCompact, Commands
<1>9. ASSUME NEW d \in Context!Request, Context!CommandStep(d) PROVE Context!Outcome(c)
  <2>1. ASSUME Context!Finish(d) PROVE FALSE
    BY <1>0, <2>1 DEF Context!Finish, Context!NoCommand
  <2>2. ~Context!CommandStart(d) /\ ~Context!Continued(d)
    BY <1>0 DEF Context!CommandStart, Context!Continued, Commands
  <2>3. ~Context!CommandLoop(d)
    BY <1>0, <2>1 DEF Context!CommandLoop, Context!FinishIdle, Context!NoCommand
  <2>4. Context!Outcome(d)
    BY <1>9, <2>2, <2>3 DEF Context!CommandStep
  <2>5. d = c
    BY <1>0, <2>1, <2>4 DEF Context!Outcome, Context!FinishIdle
  <2> QED
    BY <2>4, <2>5
<1> QED
  BY <1>2, <1>3, <1>4, <1>5, <1>7, <1>8, <1>9 DEF Context!ContextNext, Context!SessionTree

LEMMA StepIsWarranted ==
    ASSUME ResetInv, Context!ContextNext
    PROVE  /\ Len(branch') > Len(branch) /\ compaction.request # 0 /\ compaction'.phase = "none"
                /\ branch'[Len(branch')] = [kind |-> "compaction", of |-> compaction.request]
                    => Context!HasCheckpoint
           /\ \A c \in Context!Request :
                command[c].pc = "outcome" /\ command'[c].pc = "continuing" =>
                    ~aborted /\ ~compaction.aborted /\ ~pending
<1>1. ASSUME Len(branch') > Len(branch), compaction.request # 0,
             branch'[Len(branch')] = [kind |-> "compaction", of |-> compaction.request]
      PROVE  Context!HasCheckpoint
  <2>1. Context!Compacted
    BY <1>1, OnlyCompactionsDrop
  <2>2. compaction.phase = "seeded"
    BY <2>1 DEF Context!Compacted
  <2> QED
    BY <1>1, <2>2 DEF ResetInv, Covered
<1>2. ASSUME NEW c \in Context!Request, command[c].pc = "outcome", command'[c].pc = "continuing"
      PROVE  ~aborted /\ ~compaction.aborted /\ ~pending
  <2>1. Context!Outcome(c)
    BY <1>2, OnlyOutcomesGoOn
  <2>2. ~Context!FinishIdle(c)
    BY <1>2, ContextTypes DEF Context!FinishIdle, Context!Finish, Context!NoCommand, ResetInv
  <2>3. /\ coordinator = c /\ ~pending /\ Context!IsIdle /\ reset.phase = "running"
        /\ ~(command[c].signal /\ compaction.aborted)
        /\ command[c].outcome \notin {"cancelled", "other"}
        /\ command[c].outcome = "unavailable" => command[c].signal
    BY <2>1, <2>2 DEF Context!Outcome
  <2>4. command[c].outcome \in {"compacted", "unavailable"}
    BY <1>2, <2>3, ContextTypes DEF ResetInv, Unstopped, Commands
  <2> QED
    BY <1>2, <2>3, <2>4 DEF ResetInv, Unstopped, Context!IsIdle
<1> QED
  BY <1>1, <1>2

\* A reset drops nothing that its checkpoint does not cover, however long the
\* settlement, the command and the compaction take and whatever comes between
\* (requireCheckpoint, checked when new_context is called), and nothing goes on
\* that Escape has stopped, for any number of requests and entries, unless other
\* extensions add messages after the call.
THEOREM ResetsStayWarranted ==
    ASSUME "late_messages" \notin ContextFaults PROVE Spec => ResetsAreWarranted
<1> DEFINE Warranted ==
        /\ Len(branch') > Len(branch) /\ compaction.request # 0 /\ compaction'.phase = "none"
            /\ branch'[Len(branch')] = [kind |-> "compaction", of |-> compaction.request]
                => Context!HasCheckpoint
        /\ \A c \in Context!Request :
            command[c].pc = "outcome" /\ command'[c].pc = "continuing" =>
                ~aborted /\ ~compaction.aborted /\ ~pending
<1>1. Init => ResetInv
  BY ResetBegins DEF Init
<1>2. ResetInv /\ [Next]_vars => ResetInv'
  BY ResetKeeps, ResetStays DEF Next, vars
<1>3. ResetInv /\ [Next]_vars => [Warranted]_(Context!contextVars)
  BY StepIsWarranted DEF Next, vars, contextVars, Context!contextVars
<1> QED
  BY <1>1, <1>2, <1>3, PTL DEF Spec, ResetsAreWarranted, Context!ResetsAreWarranted

-----------------------------------------------------------------------------
(* Reading what was before a compaction                                    *)

Items == [id : 1..MaxArchive, kind : History!Kinds, length : 0..MaxLength, hit : BOOLEAN]

\* Entries are numbered as they are made, so that a newer one has a greater id
\* and an id that is on a branch is at one place of it.
EntriesGrow ==
    /\ \A i, j \in 1..Len(archive) : i < j => archive[i].id < archive[j].id
    /\ \A i \in 1..Len(archive) : archive[i].id <= made

\* What has been told is what matched up to the offset; and what matched, at
\* the moment of the first page, is still what matches up to the snapshot, when
\* that is on the branch.
Listed(l) ==
    /\ l = [at |-> l.at, filter |-> l.filter, snapshot |-> l.snapshot, offset |-> l.offset,
            told |-> l.told, held |-> l.held]
    /\ l.snapshot \in 1..MaxArchive /\ l.snapshot <= made
    /\ Len(l.held) \in Nat /\ (\E T : l.held \in Seq(T))
    /\ l.offset \in Nat /\ l.offset <= Len(l.held)
    /\ l.told = SubSeq(l.held, 1, l.offset)
    /\ l.at = IF l.offset < Len(l.held) THEN "paging" ELSE "done"
    /\ \A n \in 1..Len(archive), f \in {l.filter} :
        archive[n].id = l.snapshot => l.held = History!Matches(n, f)

\* An item is read in chunks, to its end.
ItemRead ==
    /\ reading # History!Idle => reading.id \in 1..MaxArchive
    /\ reading.at = "done" => reading.offset = reading.length

HistoryInv ==
    /\ archive \in Seq(Items) /\ made \in 0..MaxArchive
    /\ EntriesGrow /\ ItemRead
    /\ listing = History!Idle \/ Listed(listing)

LEMMA HistoryBegins == ASSUME History!HistoryInit PROVE HistoryInv
<1>1. archive = <<>> /\ made = 0 /\ listing = History!Idle /\ reading = History!Idle
  BY DEF History!HistoryInit
<1>2. made \in 0..MaxArchive
  BY <1>1, ExtensionsAssumption DEF ExtensionsAssumption
<1>3. archive \in Seq(Items) /\ Len(archive) = 0
  BY <1>1
<1>4. EntriesGrow
  BY <1>3 DEF EntriesGrow
<1>5. ItemRead
  BY <1>1 DEF ItemRead, History!Idle
<1> QED
  BY <1>1, <1>2, <1>3, <1>4, <1>5 DEF HistoryInv

-----------------------------------------------------------------------------
(* What matches depends on the branch up to the snapshot only.             *)

LEMMA WindowStays ==
    ASSUME NEW i \in Nat, \A k \in 1..i : archive'[k] = archive[k]
    PROVE  History!Window(i)' = History!Window(i)
<1> DEFINE C == {j \in 1..i : archive[j].kind = "compaction"}
           D == {j \in 1..i : archive'[j].kind = "compaction"}
           last == CHOOSE j \in C : \A k \in C : k <= j
<1>1. C = D
  OBVIOUS
<1>2. History!Window(i) = IF C = {} THEN 0 ELSE archive[last].id
  BY DEF History!Window
<1>3. History!Window(i)' = IF D = {} THEN 0 ELSE archive'[CHOOSE j \in D : \A k \in D : k <= j].id
  BY DEF History!Window
<1>4. History!Window(i)' = IF C = {} THEN 0 ELSE archive'[last].id
  BY <1>1, <1>3
<1>5. CASE C = {}
  BY <1>2, <1>4, <1>5
<1>6. CASE C # {}
  <2>1. C \subseteq 0..i
    OBVIOUS
  <2>2. \E j \in C : \A k \in C : j >= k
    BY <2>1, <1>6, GreatestNumber
  <2>3. \A j, k \in C : j >= k => k <= j
    OBVIOUS
  <2>4. last \in C
    BY <2>2, <2>3
  <2>5. archive'[last] = archive[last]
    BY <2>4
  <2> QED
    BY <1>2, <1>4, <2>5
<1> QED
  BY <1>5, <1>6

LEMMA MatchesStay ==
    ASSUME NEW n \in Nat, NEW filter, \A k \in 1..n : archive'[k] = archive[k]
    PROVE  History!Matches(n, filter)' = History!Matches(n, filter)
<1>1. ASSUME NEW j \in 1..n PROVE History!Window(j)' = History!Window(j)
  <2>1. j \in Nat /\ \A k \in 1..j : k \in 1..n
    OBVIOUS
  <2> QED
    BY <2>1, WindowStays
<1> DEFINE W(j) == /\ archive[j].kind # "hidden"
                   /\ History!Window(j) \in filter.windows
                   /\ filter.hit => archive[j].hit
           V(j) == /\ archive'[j].kind # "hidden"
                   /\ History!Window(j)' \in filter.windows
                   /\ filter.hit => archive'[j].hit
<1>2. ASSUME NEW j \in 1..n PROVE (W(j) <=> V(j)) /\ archive'[j].id = archive[j].id
  BY <1>1
<1>3. History!Wanted(n, filter) = {archive[i].id : i \in {j \in 1..n : W(j)}}
  BY DEF History!Wanted
<1>4. History!Wanted(n, filter)' = {archive'[i].id : i \in {j \in 1..n : V(j)}}
  BY DEF History!Wanted
<1> HIDE DEF W, V
<1>5. History!Wanted(n, filter)' = History!Wanted(n, filter)
  BY <1>2, <1>3, <1>4
<1> QED
  BY <1>5 DEF History!Matches

-----------------------------------------------------------------------------
(* The session                                                             *)

LEMMA ListedAgain ==
    ASSUME NEW l, l = listing', Listed(l)'
    PROVE  Listed(listing)'
BY DEF Listed

\* A listing keeps its promise while its snapshot keeps its place.
LEMMA ListingStays ==
    ASSUME listing = History!Idle \/ Listed(listing), UNCHANGED listing,
           made \in Nat, made' \in Nat, made <= made',
           Len(archive) \in Nat, Len(archive') \in Nat,
           \A n \in 1..Len(archive') :
             \/ archive'[n].id > made
             \/ n \in 1..Len(archive) /\ \A k \in 1..n : archive'[k] = archive[k]
    PROVE  (listing = History!Idle \/ Listed(listing))'
<1>1. CASE listing = History!Idle
  BY <1>1 DEF History!Idle
<1>2. CASE Listed(listing)
  <2>1. listing.snapshot \in Nat /\ listing.snapshot <= made
    BY <1>2 DEF Listed
  <2>2. listing.snapshot <= made'
    BY <2>1
  <2>3. ASSUME NEW n \in 1..Len(archive'), NEW f \in {listing.filter}, archive'[n].id = listing.snapshot
        PROVE  listing.held = History!Matches(n, f)'
    <3>1. n \in 1..Len(archive) /\ \A k \in 1..n : archive'[k] = archive[k]
      BY <2>1, <2>3
    <3>2. archive[n].id = listing.snapshot
      BY <3>1, <2>3
    <3>3. listing.held = History!Matches(n, f)
      BY <1>2, <3>1, <3>2 DEF Listed
    <3>4. History!Matches(n, f)' = History!Matches(n, f)
      BY <3>1, MatchesStay
    <3> QED
      BY <3>3, <3>4
  <2> QED
    BY <1>2, <2>2, <2>3 DEF Listed
<1> QED
  BY <1>1, <1>2

\* An entry is added to a part of the branch, the whole of it or not.
LEMMA EntryAdded ==
    ASSUME HistoryInv, NEW n \in 0..Len(archive), NEW e \in Items, e.id = made + 1,
           archive' = Append(SubSeq(archive, 1, n), e), made < MaxArchive, made' = made + 1,
           UNCHANGED <<listing, reading>>
    PROVE  HistoryInv'
<1> USE ExtensionsAssumption DEF ExtensionsAssumption
<1> DEFINE part == SubSeq(archive, 1, n)
<1>1. archive \in Seq(Items) /\ Len(archive) \in Nat /\ n \in Nat /\ made \in Nat /\ made' \in 0..MaxArchive
  BY DEF HistoryInv
<1>2. part \in Seq(Items) /\ Len(part) = n /\ \A k \in 1..n : part[k] = archive[k]
  BY <1>1
<1>3. archive' \in Seq(Items) /\ Len(archive') = n + 1 /\ archive'[n + 1] = e
  BY <1>1, <1>2
<1>4. \A k \in 1..n : archive'[k] = archive[k]
  BY <1>1, <1>2
<1>5. \A k \in 1..n : archive[k].id \in Nat /\ archive[k].id <= made
  <2>1. \A k \in 1..n : k \in 1..Len(archive) /\ archive[k] \in Items
    BY <1>1
  <2>2. \A k \in 1..n : archive[k].id \in 1..MaxArchive
    BY <2>1 DEF Items
  <2>3. \A k \in 1..n : archive[k].id \in Nat
    BY <2>2
  <2>4. \A k \in 1..n : archive[k].id <= made
    BY <2>1 DEF HistoryInv, EntriesGrow
  <2> QED
    BY <2>3, <2>4
<1>6. EntriesGrow'
  <2>1. ASSUME NEW i \in 1..Len(archive'), NEW j \in 1..Len(archive'), i < j
        PROVE  archive'[i].id < archive'[j].id
    <3>1. i \in 1..n /\ i \in 1..Len(archive)
      BY <1>1, <1>3, <2>1
    <3>2. CASE j = n + 1
      BY <1>1, <1>3, <1>4, <1>5, <3>1, <3>2
    <3>3. CASE j # n + 1
      <4>1. j \in 1..n /\ j \in 1..Len(archive)
        BY <1>1, <1>3, <3>3
      <4> QED
        BY <4>1, <3>1, <2>1, <1>4 DEF HistoryInv, EntriesGrow
    <3> QED
      BY <3>2, <3>3
  <2>2. ASSUME NEW i \in 1..Len(archive') PROVE archive'[i].id <= made'
    <3>1. CASE i = n + 1
      BY <3>1, <1>1, <1>3
    <3>2. CASE i # n + 1
      <4>1. i \in 1..n
        BY <1>1, <1>3, <3>2
      <4> QED
        BY <4>1, <1>1, <1>4, <1>5
    <3> QED
      BY <3>1, <3>2
  <2> QED
    BY <2>1, <2>2 DEF EntriesGrow
<1>7. ASSUME NEW m \in 1..Len(archive')
      PROVE  \/ archive'[m].id > made
             \/ m \in 1..Len(archive) /\ \A k \in 1..m : archive'[k] = archive[k]
  <2>1. CASE m = n + 1
    BY <2>1, <1>1, <1>3
  <2>2. CASE m # n + 1
    <3>1. m \in 1..n /\ m \in 1..Len(archive) /\ \A k \in 1..m : k \in 1..n
      BY <1>1, <1>3, <2>2
    <3> QED
      BY <3>1, <1>4
  <2> QED
    BY <2>1, <2>2
<1>8. (listing = History!Idle \/ Listed(listing))'
  <2>1. listing = History!Idle \/ Listed(listing)
    BY DEF HistoryInv
  <2>2. made' \in Nat /\ made <= made' /\ Len(archive') \in Nat
    BY <1>1, <1>3
  <2> QED
    BY <2>1, <2>2, <1>1, <1>7, ListingStays
<1>9. ItemRead'
  BY DEF HistoryInv, ItemRead, History!Idle
<1> QED
  BY <1>1, <1>3, <1>6, <1>8, <1>9 DEF HistoryInv

LEMMA GrowKeeps ==
    ASSUME HistoryInv, NEW sort \in History!Kinds, NEW size \in 0..MaxLength, NEW found \in BOOLEAN,
           History!Grow(sort, size, found)
    PROVE  HistoryInv'
<1> USE ExtensionsAssumption DEF ExtensionsAssumption
<1>1. archive \in Seq(Items) /\ Len(archive) \in Nat /\ made \in Nat
  BY DEF HistoryInv
<1>2. made < MaxArchive /\ made' = made + 1 /\ archive' = Append(archive, History!Entry(sort, size, found))
      /\ UNCHANGED <<listing, reading>>
  BY DEF History!Grow
<1>3. made + 1 \in 1..MaxArchive
  BY <1>1, <1>2
<1>4. History!Entry(sort, size, found) \in Items /\ History!Entry(sort, size, found).id = made + 1
  BY <1>3 DEF History!Entry, Items
<1>5. SubSeq(archive, 1, Len(archive)) = archive
  BY <1>1, SubSeqFull
<1>6. Len(archive) \in 0..Len(archive)
  BY <1>1
<1> HIDE DEF ExtensionsAssumption
<1> QED
  BY <1>2, <1>4, <1>5, <1>6, EntryAdded

LEMMA LeaveKeeps ==
    ASSUME HistoryInv, NEW i \in 1..Len(archive), History!Leave(i), 1 \in 0..MaxLength
    PROVE  HistoryInv'
<1> USE ExtensionsAssumption DEF ExtensionsAssumption
<1>1. archive \in Seq(Items) /\ Len(archive) \in Nat /\ made \in Nat
  BY DEF HistoryInv
<1>2. made < MaxArchive /\ made' = made + 1
      /\ archive' = Append(SubSeq(archive, 1, i), History!Entry("item", 1, FALSE))
      /\ UNCHANGED <<listing, reading>>
  BY DEF History!Leave
<1>3. made + 1 \in 1..MaxArchive
  BY <1>1, <1>2
<1>4. History!Entry("item", 1, FALSE) \in Items /\ History!Entry("item", 1, FALSE).id = made + 1
  BY <1>3 DEF History!Entry, Items, History!Kinds
<1>5. i \in 0..Len(archive)
  BY <1>1
<1> HIDE DEF ExtensionsAssumption
<1> QED
  BY <1>2, <1>4, <1>5, EntryAdded

-----------------------------------------------------------------------------
(* Pages                                                                   *)

LEMMA WantedCounts == ASSUME NEW S PROVE History!Cardinality(S) = Cardinality(S)
BY DEF History!Cardinality, Cardinality

\* What matches is a sequence.
LEMMA MatchesIsSeq ==
    ASSUME NEW n \in Nat, NEW filter
    PROVE  Len(History!Matches(n, filter)) \in Nat /\ \E T : History!Matches(n, filter) \in Seq(T)
<1> DEFINE W == History!Wanted(n, filter)
           m == Cardinality(W)
           f(k) == CHOOSE id \in W : History!Cardinality({newer \in W : newer > id}) = k - 1
           T == {f(k) : k \in 1..m}
<1>1. IsFiniteSet(W)
  <2> DEFINE P == {j \in 1..n : /\ archive[j].kind # "hidden"
                                /\ History!Window(j) \in filter.windows
                                /\ filter.hit => archive[j].hit}
  <2>1. IsFiniteSet(1..n)
    BY FS_Interval
  <2>2. P \subseteq 1..n
    OBVIOUS
  <2>3. IsFiniteSet(P)
    BY <2>1, <2>2, FS_Subset
  <2>4. W = {archive[i].id : i \in P}
    BY DEF History!Wanted
  <2> HIDE DEF P, W
  <2>5. [i \in P |-> archive[i].id] \in Surjection(P, {archive[i].id : i \in P})
    BY DEF Surjection
  <2>6. IsFiniteSet({archive[i].id : i \in P})
    BY <2>3, <2>5, FS_Surjection
  <2> QED
    BY <2>4, <2>6
<1>2. m \in Nat
  BY <1>1, FS_CardinalityType
<1>3. History!Matches(n, filter) = [k \in 1..m |-> f(k)]
  BY WantedCounts DEF History!Matches
<1> HIDE DEF f, m
<1>4. [k \in 1..m |-> f(k)] \in Seq(T) /\ Len([k \in 1..m |-> f(k)]) = m
  BY <1>2
<1> QED
  BY <1>2, <1>3, <1>4

\* A page goes on where the last one ended, and has what the limit allows.
LEMMA PageGoesOn ==
    ASSUME NEW T, NEW s \in Seq(T), NEW a \in Nat, a <= Len(s), NEW limit \in Nat
    PROVE  LET page == History!Slice(s, a + 1, a + limit) IN
           /\ Len(page) \in Nat /\ a + Len(page) <= Len(s)
           /\ SubSeq(s, 1, a) \o page = SubSeq(s, 1, a + Len(page))
<1> DEFINE b == IF a + limit < Len(s) THEN a + limit ELSE Len(s)
           page == SubSeq(s, a + 1, b)
<1>1. Len(s) \in Nat /\ b \in Nat /\ a <= b /\ b <= Len(s)
  OBVIOUS
<1>2. \A i \in (a + 1)..b : s[i] \in T
  BY <1>1
<1>3. Len(page) = IF a + 1 <= b THEN b - (a + 1) + 1 ELSE 0
  BY <1>1, <1>2, SubSeqProperties
<1>4. a + Len(page) = b /\ Len(page) \in Nat
  BY <1>1, <1>3
<1>5. SubSeq(s, 1, a) \o SubSeq(s, a + 1, b) = SubSeq(s, 1, b)
  <2>1. 1 \in 1..(Len(s) + 1) /\ a \in (1 - 1)..Len(s) /\ b \in a..Len(s)
    BY <1>1
  <2> HIDE DEF b
  <2> QED
    BY <2>1, ConcatAdjacentSubSeq
<1>6. History!Slice(s, a + 1, a + limit) = page
  BY DEF History!Slice
<1> QED
  BY <1>1, <1>4, <1>5, <1>6

LEMMA ListKeeps ==
    ASSUME HistoryInv, NEW filter, NEW limit \in Nat, History!List(filter, limit)
    PROVE  HistoryInv'
<1> DEFINE n == Len(archive)
           matches == History!Matches(n, filter)
           page == History!Slice(matches, 1, limit)
<1>1. archive \in Seq(Items) /\ n \in Nat /\ archive # <<>> /\ UNCHANGED <<archive, made, reading>>
  BY DEF HistoryInv, History!List
<1>2. n \in 1..n
  BY <1>1
<1>3. listing' = [at |-> IF Len(page) < Len(matches) THEN "paging" ELSE "done",
                  filter |-> filter, snapshot |-> archive[n].id, offset |-> Len(page),
                  told |-> page, held |-> matches]
  BY DEF History!List, History!SnapshotIndexes
<1>4. Len(matches) \in Nat /\ \E T : matches \in Seq(T)
  BY <1>1, MatchesIsSeq
<1>5. /\ Len(page) \in Nat /\ Len(page) <= Len(matches)
      /\ page = SubSeq(matches, 1, Len(page))
  <2> HIDE DEF matches
  <2>1. PICK T : matches \in Seq(T)
    BY <1>4
  <2>2. 0 \in Nat /\ 0 <= Len(matches) /\ 0 + 1 = 1 /\ 0 + limit = limit
    BY <1>4
  <2>3. /\ Len(page) \in Nat /\ 0 + Len(page) <= Len(matches)
        /\ SubSeq(matches, 1, 0) \o page = SubSeq(matches, 1, 0 + Len(page))
    <3>1. LET p == History!Slice(matches, 0 + 1, 0 + limit) IN
          /\ Len(p) \in Nat /\ 0 + Len(p) <= Len(matches)
          /\ SubSeq(matches, 1, 0) \o p = SubSeq(matches, 1, 0 + Len(p))
      BY <2>1, <2>2, PageGoesOn
    <3> QED
      BY <3>1, <2>2
  <2>4. page \in Seq(T)
    <3>1. \A i \in 1..(IF limit < Len(matches) THEN limit ELSE Len(matches)) : matches[i] \in T
      BY <2>1
    <3>2. (IF limit < Len(matches) THEN limit ELSE Len(matches)) \in Int
      BY <1>4
    <3> QED
      BY <3>1, <3>2, SubSeqProperties DEF History!Slice
  <2>5. SubSeq(matches, 1, 0) = <<>>
    BY SubSeqEmpty
  <2>6. <<>> \o page = page
    BY <2>4, ConcatEmptySeq
  <2> HIDE DEF page
  <2>7. 0 + Len(page) = Len(page)
    BY <2>3
  <2> QED
    BY <2>3, <2>5, <2>6, <2>7
<1>6. archive[n] \in Items
  BY <1>1, <1>2
<1>7. archive[n].id \in 1..MaxArchive /\ archive[n].id <= made
  BY <1>2, <1>6 DEF Items, HistoryInv, EntriesGrow
<1>8. ASSUME NEW m \in 1..n, archive[m].id = archive[n].id PROVE m = n
  <2>1. archive[m].id \in Nat
    <3>1. archive[m] \in Items
      BY <1>1
    <3>2. archive[m].id \in 1..MaxArchive
      BY <3>1 DEF Items
    <3> QED
      BY <3>2
  <2>2. m < n => archive[m].id < archive[n].id
    BY <1>2 DEF HistoryInv, EntriesGrow
  <2> QED
    BY <1>1, <1>8, <2>1, <2>2
<1>9. Len(archive)' = Len(archive) /\ \A m \in 1..n : History!Matches(m, filter)' = History!Matches(m, filter)
  BY <1>1, MatchesStay
<1> HIDE DEF page, matches
<1>10. Listed(listing)'
  <2>1. PICK l : l = listing'
    OBVIOUS
  <2>2. PICK h, size, shown : h = matches /\ size = Len(page) /\ shown = page
    OBVIOUS
  <2>3. l = [at |-> IF size < Len(h) THEN "paging" ELSE "done",
             filter |-> filter, snapshot |-> archive[n].id, offset |-> size,
             told |-> shown, held |-> h]
    BY <1>3, <2>1, <2>2
  <2>4. ASSUME NEW m \in 1..Len(archive'), archive'[m].id = l.snapshot
        PROVE  l.held = History!Matches(m, l.filter)'
    <3>1. m = n
      BY <1>1, <1>8, <2>3, <2>4
    <3>2. h = History!Matches(m, filter)
      BY <2>2, <3>1 DEF matches
    <3>3. History!Matches(m, filter)' = History!Matches(m, filter)
      BY <1>2, <1>9, <3>1
    <3>4. l.filter = filter /\ l.held = h
      BY <2>3
    <3> QED
      BY <3>2, <3>3, <3>4
  <2>5. Len(h) \in Nat /\ (\E T : h \in Seq(T)) /\ size \in Nat /\ size <= Len(h) /\ shown = SubSeq(h, 1, size)
    BY <1>4, <1>5, <2>2
  <2>6. l.snapshot \in 1..MaxArchive /\ l.snapshot <= made'
    BY <1>1, <1>7, <2>3
  <2>7. Listed(l)'
    <3> HIDE DEF n
    <3> QED
      BY <2>3, <2>4, <2>5, <2>6 DEF Listed
  <2> QED
    BY <2>1, <2>7, ListedAgain
<1>11. EntriesGrow' /\ ItemRead'
  BY <1>1 DEF HistoryInv, EntriesGrow, ItemRead, History!Idle
<1> QED
  BY <1>1, <1>10, <1>11 DEF HistoryInv

LEMMA ContinueKeeps ==
    ASSUME HistoryInv, NEW limit \in Nat, History!Continue(limit)
    PROVE  HistoryInv'
<1>1. Listed(listing) /\ UNCHANGED <<archive, made, reading>>
  BY DEF HistoryInv, History!Continue, History!Idle
<1>2. PICK n \in History!SnapshotIndexes(listing.snapshot) :
        LET matches == History!Matches(n, listing.filter)
            page == History!Slice(matches, listing.offset + 1, listing.offset + limit) IN
        listing' = [listing EXCEPT
            !.at = IF listing.offset + Len(page) < Len(matches) THEN "paging" ELSE "done",
            !.offset = @ + Len(page),
            !.told = @ \o page]
  BY DEF History!Continue
<1>3. n \in 1..Len(archive) /\ archive[n].id = listing.snapshot
  BY <1>1, ExtensionsAssumption DEF ExtensionsAssumption, Listed, History!SnapshotIndexes
<1>4. History!Matches(n, listing.filter) = listing.held
  BY <1>1, <1>3 DEF Listed
<1> DEFINE page == History!Slice(listing.held, listing.offset + 1, listing.offset + limit)
<1>5. listing' = [listing EXCEPT
            !.at = IF listing.offset + Len(page) < Len(listing.held) THEN "paging" ELSE "done",
            !.offset = @ + Len(page),
            !.told = @ \o page]
  BY <1>2, <1>4
<1>6. PICK T : listing.held \in Seq(T)
  BY <1>1 DEF Listed
<1>7. /\ listing.offset \in Nat /\ Len(listing.held) \in Nat /\ listing.offset <= Len(listing.held)
      /\ listing.told = SubSeq(listing.held, 1, listing.offset)
  BY <1>1 DEF Listed
<1>8. /\ Len(page) \in Nat /\ listing.offset + Len(page) <= Len(listing.held)
      /\ SubSeq(listing.held, 1, listing.offset) \o page = SubSeq(listing.held, 1, listing.offset + Len(page))
  BY <1>6, <1>7, PageGoesOn
<1> HIDE DEF page
<1>9. listing' = [at |-> IF listing.offset + Len(page) < Len(listing.held) THEN "paging" ELSE "done",
                  filter |-> listing.filter, snapshot |-> listing.snapshot,
                  offset |-> listing.offset + Len(page),
                  told |-> listing.told \o page, held |-> listing.held]
  BY <1>1, <1>5 DEF Listed
<1>10. Listed(listing)'
  <2>1. PICK l : l = listing'
    OBVIOUS
  <2>2. PICK h, f, s, size, shown :
            /\ h = listing.held /\ f = listing.filter /\ s = listing.snapshot
            /\ size = listing.offset + Len(page) /\ shown = listing.told \o page
    OBVIOUS
  <2>3. l = [at |-> IF size < Len(h) THEN "paging" ELSE "done",
             filter |-> f, snapshot |-> s, offset |-> size, told |-> shown, held |-> h]
    BY <1>9, <2>1, <2>2
  <2>4. ASSUME NEW m \in 1..Len(archive'), archive'[m].id = l.snapshot
        PROVE  l.held = History!Matches(m, l.filter)'
    <3>1. m \in 1..Len(archive) /\ archive[m].id = listing.snapshot
      BY <1>1, <2>2, <2>3, <2>4
    <3>2. h = History!Matches(m, f)
      BY <1>1, <2>2, <3>1 DEF Listed
    <3>3. m \in Nat /\ \A k \in 1..m : archive'[k] = archive[k]
      BY <1>1
    <3>4. h = History!Matches(m, f)'
      BY <3>2, <3>3, MatchesStay
    <3>5. l.filter = f /\ l.held = h
      BY <2>3
    <3> QED
      BY <3>4, <3>5
  <2>5. Len(h) \in Nat /\ (\E S : h \in Seq(S)) /\ size \in Nat /\ size <= Len(h) /\ shown = SubSeq(h, 1, size)
    <3>1. h \in Seq(T) /\ Len(h) \in Nat
      BY <1>6, <1>7, <2>2
    <3>2. size \in Nat /\ size <= Len(h)
      BY <1>7, <1>8, <2>2
    <3>3. shown = SubSeq(h, 1, size)
      BY <1>7, <1>8, <2>2
    <3> QED
      BY <3>1, <3>2, <3>3
  <2>6. l.snapshot \in 1..MaxArchive /\ l.snapshot <= made'
    BY <1>1, <2>2, <2>3 DEF Listed
  <2>7. Listed(l)'
    BY <2>3, <2>4, <2>5, <2>6 DEF Listed
  <2> QED
    BY <2>1, <2>7, ListedAgain
<1>11. EntriesGrow' /\ ItemRead'
  BY <1>1 DEF HistoryInv, EntriesGrow, ItemRead, History!Idle
<1> QED
  BY <1>1, <1>10, <1>11 DEF HistoryInv

LEMMA SnapshotIsGoneKeeps == ASSUME HistoryInv, History!SnapshotIsGone PROVE HistoryInv'
<1>1. listing' = History!Idle /\ UNCHANGED <<archive, made, reading>>
  BY DEF History!SnapshotIsGone
<1>2. (listing = History!Idle \/ Listed(listing))'
  BY <1>1 DEF History!Idle
<1>3. EntriesGrow' /\ ItemRead'
  BY <1>1 DEF HistoryInv, EntriesGrow, ItemRead, History!Idle
<1> QED
  BY <1>1, <1>2, <1>3 DEF HistoryInv

\* A step of a reading leaves the branch and the listing as they are.
LEMMA ReadingKeeps ==
    ASSUME HistoryInv, ItemRead', UNCHANGED <<archive, made, listing>>
    PROVE  HistoryInv'
<1>1. listing = History!Idle \/ Listed(listing)
  BY DEF HistoryInv
<1>2. /\ made \in Nat /\ made' \in Nat /\ made <= made'
      /\ Len(archive) \in Nat /\ Len(archive') \in Nat
  BY ExtensionsAssumption DEF ExtensionsAssumption, HistoryInv
<1>3. \A n \in 1..Len(archive') :
        \/ archive'[n].id > made
        \/ n \in 1..Len(archive) /\ \A k \in 1..n : archive'[k] = archive[k]
  OBVIOUS
<1>4. (listing = History!Idle \/ Listed(listing))'
  BY <1>1, <1>2, <1>3, ListingStays
<1>5. EntriesGrow'
  BY DEF HistoryInv, EntriesGrow
<1> QED
  BY <1>4, <1>5 DEF HistoryInv

LEMMA ReadKeeps ==
    ASSUME HistoryInv, NEW i \in 1..Len(archive), NEW limit \in Nat, History!Read(i, limit)
    PROVE  HistoryInv'
<1> DEFINE offset == IF reading = History!Idle THEN 0 ELSE reading.offset
           length == archive[i].length
           next == IF offset + limit < length THEN offset + limit ELSE length
<1>1. reading' = [at |-> IF next < length THEN "chunks" ELSE "done",
                  id |-> archive[i].id, offset |-> next, length |-> length]
      /\ UNCHANGED <<archive, made, listing>>
  BY DEF History!Read
<1>2. archive[i] \in Items
  BY DEF HistoryInv
<1>3. archive[i].id \in 1..MaxArchive /\ length \in 0..MaxLength
  BY <1>2 DEF Items
<1>4. length \in Nat
  BY <1>3
<1>5. ~(next < length) => next = length
  BY <1>4
<1> HIDE DEF next, length
<1>6. ItemRead'
  BY <1>1, <1>3, <1>5 DEF ItemRead
<1> QED
  BY <1>1, <1>6, ReadingKeeps

LEMMA ItemIsGoneKeeps == ASSUME HistoryInv, History!ItemIsGone PROVE HistoryInv'
<1>1. ItemRead'
  BY DEF History!ItemIsGone, ItemRead, History!Idle
<1> QED
  BY <1>1, ReadingKeeps DEF History!ItemIsGone

LEMMA HistoryStays == ASSUME HistoryInv, UNCHANGED historyVars PROVE HistoryInv'
<1>1. ItemRead'
  BY DEF HistoryInv, historyVars, ItemRead, History!Idle
<1> QED
  BY <1>1, ReadingKeeps DEF historyVars

LEMMA HistoryKeeps == ASSUME HistoryInv, History!HistoryNext PROVE HistoryInv'
<1>1. 0 \in 0..MaxLength /\ 1 \in 0..MaxLength /\ MaxLength \in 0..MaxLength /\ 1..MaxLimit \subseteq Nat
  BY ExtensionsAssumption DEF ExtensionsAssumption
<1>2. "item" \in History!Kinds /\ "hidden" \in History!Kinds /\ "compaction" \in History!Kinds
  BY DEF History!Kinds
<1>3. ASSUME NEW hit \in BOOLEAN, History!Grow("item", IF hit THEN MaxLength ELSE 0, hit)
      PROVE  HistoryInv'
  BY <1>1, <1>2, <1>3, GrowKeeps
<1>4. CASE History!Grow("hidden", 0, FALSE) \/ History!Grow("compaction", 1, FALSE)
  BY <1>1, <1>2, <1>4, GrowKeeps
<1>5. ASSUME NEW i \in 1..Len(archive), History!Leave(i) PROVE HistoryInv'
  BY <1>1, <1>5, LeaveKeeps
<1>6. ASSUME NEW filter \in History!Filter, NEW limit \in 1..MaxLimit, History!List(filter, limit)
      PROVE  HistoryInv'
  BY <1>1, <1>6, ListKeeps
<1>7. ASSUME NEW limit \in 1..MaxLimit, History!Continue(limit) PROVE HistoryInv'
  BY <1>1, <1>7, ContinueKeeps
<1>8. ASSUME NEW i \in 1..Len(archive), NEW limit \in 1..MaxLimit, History!Read(i, limit)
      PROVE  HistoryInv'
  BY <1>1, <1>8, ReadKeeps
<1>9. CASE History!SnapshotIsGone \/ History!ItemIsGone
  BY <1>9, SnapshotIsGoneKeeps, ItemIsGoneKeeps
<1> QED
  BY <1>3, <1>4, <1>5, <1>6, <1>7, <1>8, <1>9 DEF History!HistoryNext

LEMMA HistoryIsTyped == ASSUME HistoryInv PROVE History!HistoryTypeOK
BY DEF HistoryInv, Items, ItemRead, Listed, History!HistoryTypeOK

\* The pages are a prefix of what matched, and all of it when they end.
LEMMA PagesTellAll == ASSUME HistoryInv PROVE History!PagesAreWhole
<1>1. ASSUME listing.at \in {"paging", "done"}
      PROVE  /\ History!IsPrefix(listing.told, listing.held)
             /\ listing.at = "done" <=> listing.told = listing.held
  <2>1. Listed(listing)
    BY <1>1 DEF HistoryInv, History!Idle
  <2>2. PICK T, h, n, shown :
            /\ h = listing.held /\ n = listing.offset /\ shown = listing.told
            /\ h \in Seq(T) /\ n \in Nat /\ n <= Len(h) /\ Len(h) \in Nat
            /\ shown = SubSeq(h, 1, n)
    BY <2>1 DEF Listed
  <2>3. Len(shown) = n /\ shown \in Seq(T)
    BY <2>2
  <2>4. SubSeq(shown, 1, Len(shown)) = shown
    BY <2>3, SubSeqFull
  <2>5. History!IsPrefix(shown, h)
    BY <2>2, <2>3, <2>4 DEF History!IsPrefix
  <2>6. n = Len(h) => shown = h
    BY <2>2, SubSeqFull
  <2>7. shown = h => n = Len(h)
    BY <2>3
  <2>8. listing.at = "done" <=> ~(n < Len(h))
    BY <2>1, <2>2 DEF Listed
  <2>9. ~(n < Len(h)) <=> n = Len(h)
    BY <2>2
  <2> QED
    BY <2>2, <2>5, <2>6, <2>7, <2>8, <2>9
<1> QED
  BY <1>1 DEF HistoryInv, ItemRead, History!PagesAreWhole

-----------------------------------------------------------------------------
(* The extensions together                                                 *)

\* Every step is one of one extension, which leaves the others as they are.
ExtensionsInv == PermissionsInv /\ ContextInv /\ HistoryInv /\ ProjectInv /\ WebInv
NoFaults == PermissionFaults = {} /\ LayoutFaults = {} /\ WebFaults = {}

LEMMA ExtensionsBegin == Init => ExtensionsInv
BY PermissionsBegin, ContextBegins, HistoryBegins, ProjectBegins, WebBegins DEF Init, ExtensionsInv

LEMMA ExtensionsKeep ==
    ASSUME NoFaults, ExtensionsInv, [Next]_vars
    PROVE  ExtensionsInv'
<1>1. PermissionsInv'
  BY PermissionsKeep, PermissionsStay DEF NoFaults, ExtensionsInv, Next, vars
<1>2. ContextInv'
  BY ContextKeeps, ContextStays DEF ExtensionsInv, Next, vars
<1>3. HistoryInv'
  BY HistoryKeeps, HistoryStays DEF ExtensionsInv, Next, vars
<1>4. ProjectInv'
  BY ProjectKeeps, ProjectStays DEF NoFaults, ExtensionsInv, Next, vars
<1>5. WebInv'
  BY WebKeeps, WebStays DEF NoFaults, ExtensionsInv, Next, vars
<1> QED
  BY <1>1, <1>2, <1>3, <1>4, <1>5 DEF ExtensionsInv

LEMMA FocusIsKept == ASSUME focus \in {"permissions", "context", "history", "project", "web"}, [Next]_vars
                     PROVE  (focus \in {"permissions", "context", "history", "project", "web"})'
BY DEF Next, vars

LEMMA ExtensionsAreTyped ==
    ASSUME ExtensionsInv, focus \in {"permissions", "context", "history", "project", "web"}
    PROVE  TypesOK
<1>1. /\ Permissions!PermissionsTypeOK /\ Context!ContextTypeOK /\ History!HistoryTypeOK
      /\ Project!InstructionsTypeOK /\ Web!WebTypeOK
  BY HistoryIsTyped, ProjectIsTyped DEF ExtensionsInv, PermissionsInv, ContextInv, WebInv
<1> QED
  BY <1>1 DEF TypesOK

\* No permission is lost to another kept at the same time by the calls of a
\* process (permissionWriteLock); the instructions of a project are whole,
\* whoever crashes, and told to no other project (writeProjectInstructions,
\* resolveGitIdentityPath), for any number of calls, processes, directories and
\* texts, when no two processes write permissions at once, which no lock
\* prevents, and the layout of Git does not change under a process.  (The
\* property also has the types of all variables, those of a web call among
\* them, which need WebFaults = {}.)
THEOREM FilesStayKept == ASSUME NoFaults PROVE Spec => []FilesAreKept
<1>1. Init => ExtensionsInv /\ focus \in {"permissions", "context", "history", "project", "web"}
  BY ExtensionsBegin DEF Init
<1>2. /\ ExtensionsInv /\ focus \in {"permissions", "context", "history", "project", "web"}
      /\ [Next]_vars
      => (ExtensionsInv /\ focus \in {"permissions", "context", "history", "project", "web"})'
  BY ExtensionsKeep, FocusIsKept
<1>3. ExtensionsInv /\ focus \in {"permissions", "context", "history", "project", "web"} => FilesAreKept
  BY ExtensionsAreTyped, ProjectIsKept DEF ExtensionsInv, PermissionsInv, FilesAreKept
<1> QED
  BY <1>1, <1>2, <1>3, PTL DEF Spec

\* The pages of a list or a search show every item of its snapshot once, newest
\* first, however the branch grows or is left between two of them, and an item
\* is read to its end (queryHistory), for any branch, filters and limits.
THEOREM PagesStayWhole == Spec => []PagesAreWhole
<1>1. Init => HistoryInv
  BY HistoryBegins DEF Init
<1>2. HistoryInv /\ [Next]_vars => HistoryInv'
  BY HistoryKeeps, HistoryStays DEF Next, vars
<1>3. HistoryInv => PagesAreWhole
  BY PagesTellAll DEF PagesAreWhole
<1> QED
  BY <1>1, <1>2, <1>3, PTL DEF Spec

=============================================================================
