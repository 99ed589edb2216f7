---------------------------- MODULE WebRequests -----------------------------
(* A call of the webfetch or the websearch tool (web-tools): its timer and  *)
(* the caller's signal, redirects, the second attempt with another agent,   *)
(* the limits of a response, and what the call reports in the end.  The     *)
(* body of a response is a number of chunks.                                *)
EXTENDS Naturals

CONSTANTS
    MaxRedirects,   \* settings.fetch.maxRedirects
    MaxBody,        \* maxResponseBytes, in chunks
    WebFaults       \* a subset of {"error_body"}: a search is answered with an
                    \* error, whose body is read without the limit

VARIABLES
    tool,
    at,
    timer,      \* of createOperationSignal
    cancelled,  \* the caller's signal
    hops,       \* redirects followed by this attempt
    agent,
    fetches,    \* requests made
    body,       \* of the response: chunks there are and chunks read
    kind,       \* of its content
    outcome     \* what the call reports

webVars == <<tool, at, timer, cancelled, hops, agent, fetches, body, kind, outcome>>

Tool == {"webfetch", "websearch"}
Running == {"checking", "fetching", "reading", "readingError", "read", "truncating"}
NoBody == [length |-> 0, read |-> 0]
Aborted == cancelled \/ timer = "fired"

WebTypeOK ==
    /\ tool \in Tool /\ at \in {"idle", "ended"} \cup Running
    /\ timer \in {"off", "armed", "fired"} /\ cancelled \in BOOLEAN
    /\ hops \in 0..MaxRedirects /\ agent \in {"default", "fallback"}
    /\ fetches \in Nat
    /\ body \in [length : 0..(MaxBody + 2), read : 0..(MaxBody + 2)]
    /\ kind \in {"none", "text", "image", "binary", "results", "error", "unrecognized"}
    /\ outcome \in {"none", "refused", "whole", "truncated", "failed", "cancelled", "timedOut"}

WebInit ==
    /\ tool \in Tool /\ at = "idle" /\ timer = "off" /\ cancelled = FALSE
    /\ hops = 0 /\ agent = "default" /\ fetches = 0
    /\ body = NoBody /\ kind = "none" /\ outcome = "none"

-----------------------------------------------------------------------------
(* The call, its timer and its end                                         *)

\* Without a timer.  Mutant.
CreateOperationSignal_Untimed == UNCHANGED timer

CreateOperationSignal == timer' = "armed"

\* The parameters and settings are refused before there is a timer.
Execute ==
    /\ at = "idle"
    /\ \/ at' = "ended" /\ outcome' = "refused" /\ UNCHANGED timer
       \/ at' = (IF tool = "webfetch" THEN "checking" ELSE "fetching")
          /\ CreateOperationSignal /\ UNCHANGED outcome
    /\ UNCHANGED <<tool, cancelled, hops, agent, fetches, body, kind>>

TimerFires ==
    /\ timer = "armed" /\ timer' = "fired"
    /\ UNCHANGED <<tool, at, cancelled, hops, agent, fetches, body, kind, outcome>>

Cancel ==
    /\ at \in Running /\ ~cancelled /\ cancelled' = TRUE
    /\ UNCHANGED <<tool, at, timer, hops, agent, fetches, body, kind, outcome>>

\* The answer, and finally the clean-up of the timer.
Answers(told) == at' = "ended" /\ outcome' = told /\ timer' = "off"

\* The catch clause: whatever went wrong, a cancelled call is cancelled, and one
\* whose time is over has timed out.
Fails == Answers(IF cancelled THEN "cancelled" ELSE IF timer = "fired" THEN "timedOut" ELSE "failed")

\* The signal rejects a request or a read; assertPublicUrl does not see it.
Aborts ==
    /\ Aborted /\ at \in {"fetching", "reading", "readingError"}
    /\ Fails
    /\ UNCHANGED <<tool, cancelled, hops, agent, fetches, body, kind>>

-----------------------------------------------------------------------------
(* fetchWithRedirects                                                      *)

\* assertPublicUrl
CheckUrl ==
    /\ at = "checking"
    /\ \/ Fails
       \/ at' = "fetching" /\ UNCHANGED <<timer, outcome>>
    /\ UNCHANGED <<tool, cancelled, hops, agent, fetches, body, kind>>

\* The request fails, or is answered with a redirect that leads nowhere.
FetchFails ==
    /\ at = "fetching" /\ ~Aborted
    /\ Fails /\ fetches' = fetches + 1
    /\ UNCHANGED <<tool, cancelled, hops, agent, body, kind>>

Redirected ==
    /\ at = "fetching" /\ ~Aborted /\ tool = "webfetch"
    /\ fetches' = fetches + 1
    /\ IF hops >= MaxRedirects
       THEN Fails /\ UNCHANGED hops
       ELSE hops' = hops + 1 /\ at' = "checking" /\ UNCHANGED <<timer, outcome>>
    /\ UNCHANGED <<tool, cancelled, agent, body, kind>>

\* shouldRetryWithFallbackUserAgent: once, and from the first URL again.
Challenged ==
    /\ at = "fetching" /\ ~Aborted /\ tool = "webfetch"
    /\ fetches' = fetches + 1
    /\ IF agent = "default"
       THEN agent' = "fallback" /\ hops' = 0 /\ at' = "checking" /\ UNCHANGED <<timer, outcome>>
       ELSE Fails /\ UNCHANGED <<agent, hops>>
    /\ UNCHANGED <<tool, cancelled, body, kind>>

-----------------------------------------------------------------------------
(* A response                                                              *)

\* An error; a search reads the body to report it.
ErrorResponse(length) ==
    /\ at = "fetching" /\ ~Aborted
    /\ fetches' = fetches + 1
    /\ IF tool = "webfetch"
       THEN Fails /\ UNCHANGED body
       ELSE /\ at' = "readingError" /\ body' = [length |-> length, read |-> 0]
            /\ "error_body" \in WebFaults \/ length <= MaxBody
            /\ UNCHANGED <<timer, outcome>>
    /\ UNCHANGED <<tool, cancelled, hops, agent, kind>>

\* parseContentType, and for a search what its text will be found to hold.
ContentKind == IF tool = "webfetch" THEN {"text", "image", "binary"} ELSE {"results", "error", "unrecognized"}

\* A response whose declared length is below the limit, or not declared; what
\* comes may be longer.  The first chunk's content type tells the kind.
Response(length, content) ==
    /\ at = "fetching" /\ ~Aborted
    /\ fetches' = fetches + 1
    /\ \/ Fails /\ length > MaxBody /\ UNCHANGED <<body, kind>>
       \/ at' = "reading" /\ body' = [length |-> length, read |-> 0] /\ kind' = content
          /\ UNCHANGED <<timer, outcome>>
    /\ UNCHANGED <<tool, cancelled, hops, agent>>

\* Mutant: the limit is checked at the end only.
ReadBodyWithLimit_AtEnd ==
    /\ at = "reading" /\ ~Aborted
    /\ IF body.read = body.length
       THEN /\ IF body.read > MaxBody THEN Fails ELSE at' = "read" /\ UNCHANGED <<timer, outcome>>
            /\ UNCHANGED body
       ELSE body' = [body EXCEPT !.read = @ + 1] /\ UNCHANGED <<at, timer, outcome>>
    /\ UNCHANGED <<tool, cancelled, hops, agent, fetches, kind>>

\* readBodyWithLimit, a chunk at a time.
ReadBodyWithLimit ==
    /\ at = "reading" /\ ~Aborted
    /\ IF body.read = body.length
       THEN at' = "read" /\ UNCHANGED <<timer, outcome, body>>
       ELSE /\ body' = [body EXCEPT !.read = @ + 1]
            /\ IF body'.read > MaxBody THEN Fails ELSE UNCHANGED <<at, timer, outcome>>
    /\ UNCHANGED <<tool, cancelled, hops, agent, fetches, kind>>

ReadError ==
    /\ at = "readingError" /\ ~Aborted
    /\ IF body.read = body.length
       THEN Fails /\ UNCHANGED body
       ELSE body' = [body EXCEPT !.read = @ + 1] /\ UNCHANGED <<at, timer, outcome>>
    /\ UNCHANGED <<tool, cancelled, hops, agent, fetches, kind>>

\* The connection breaks, or the server ends it early.
ReadFails ==
    /\ at \in {"reading", "readingError"} /\ Fails
    /\ UNCHANGED <<tool, cancelled, hops, agent, fetches, body, kind>>

\* An image is shown, a text is converted, and no other content is taken.
Convert ==
    /\ at = "read" /\ tool = "webfetch"
    /\ \/ kind = "image" /\ Answers("whole")
       \/ kind = "text" /\ at' = "truncating" /\ UNCHANGED <<timer, outcome>>
       \/ kind = "binary" /\ Fails
    /\ UNCHANGED <<tool, cancelled, hops, agent, fetches, body, kind>>

\* What a search answers may be an error of its provider, or nothing known.
ParseResults ==
    /\ at = "read" /\ tool = "websearch"
    /\ IF kind = "results" THEN at' = "truncating" /\ UNCHANGED <<timer, outcome>> ELSE Fails
    /\ UNCHANGED <<tool, cancelled, hops, agent, fetches, body, kind>>

\* truncateTextOutput: a long text is saved first, which may fail.
TruncateTextOutput ==
    /\ at = "truncating"
    /\ Answers("whole") \/ Answers("truncated") \/ Fails
    /\ UNCHANGED <<tool, cancelled, hops, agent, fetches, body, kind>>

WebNext ==
    \/ Execute \/ TimerFires \/ Cancel \/ Aborts
    \/ CheckUrl \/ FetchFails \/ Redirected \/ Challenged
    \/ \E length \in 0..(MaxBody + 2) :
        \/ ErrorResponse(length)
        \/ \E content \in ContentKind : Response(length, content)
    \/ ReadBodyWithLimit \/ ReadError \/ ReadFails \/ Convert \/ ParseResults \/ TruncateTextOutput

\* Time passes, and what needs no server goes on; a server may keep silent.
WebFairness ==
    /\ WF_webVars(TimerFires) /\ WF_webVars(Aborts)
    /\ WF_webVars(CheckUrl \/ Convert \/ ParseResults \/ TruncateTextOutput)

-----------------------------------------------------------------------------
(* Properties                                                              *)

\* No more of a response is read than its limit and the chunk that exceeds it,
\* and no more requests are made than two attempts have redirects; what is shown
\* has been read to its end; a call that fails says so by its true reason, and
\* leaves no timer behind.
RequestsAreBounded ==
    /\ body.read <= MaxBody + 1
    /\ fetches <= 2 * (MaxRedirects + 1)
    /\ outcome \in {"whole", "truncated"} => body.read = body.length /\ body.length <= MaxBody
    /\ outcome = "cancelled" => cancelled
    /\ outcome = "failed" => ~cancelled
    /\ at \in {"idle", "ended"} => timer = "off"

\* A call ends, though the server may keep silent (createOperationSignal).
CallRuns == at \in Running
RequestEnds == CallRuns ~> ~CallRuns
=============================================================================
