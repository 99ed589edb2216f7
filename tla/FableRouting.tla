---------------------------- MODULE FableRouting -----------------------------
(***************************************************************************)
(* Which model has answered a request to Claude Fable (statusline/fable):  *)
(* the extension asks for a fallback in the request, reads a copy of the   *)
(* response as it arrives, and shows the route it finds there.             *)
(***************************************************************************)
EXTENDS Naturals, Sequences, SequencesExt

CONSTANTS
    MaxStream,      \* a bound on the events of a stream
    RouteFaults     \* a subset of {"fetch_rejects", "bad_json"}: a fetch rejects,
                    \* a response of JSON cannot be read

VARIABLES
    status,         \* FABLE_ROUTING_STATUS
    request,        \* how far the current request is
    said            \* what its response has said, in that order

routeVars == <<status, request, said>>

Says == {"direct", "fallback", "refusal", "other"}
Routes == Says \ {"other"}     \* "other" events do not tell of the route

RouteTypeOK ==
    /\ status \in {"Ready", "Checking", "Error"} \cup Routes
    /\ request \in {"none", "sent", "stream"}
    /\ said \in Seq(Says) /\ Len(said) <= MaxStream

RouteInit == status = "Ready" /\ request = "none" /\ said = <<>>

-----------------------------------------------------------------------------

\* model_select, at any time.
Select ==
    /\ status' = "Ready"
    /\ UNCHANGED <<request, said>>

\* before_provider_request.
Send ==
    /\ request = "none"
    /\ request' = "sent" /\ status' = "Checking" /\ said' = <<>>

\* There is nothing to read: no success, no body, no copy.  A fetch that rejects
\* is not seen at all.
NoResponse ==
    /\ request = "sent" /\ request' = "none"
    /\ status' \in {"Error"} \cup (IF "fetch_rejects" \in RouteFaults THEN {status} ELSE {})
    /\ UNCHANGED said

\* consumeJsonFableRoutingResponse.
JsonResponse ==
    /\ request = "sent" /\ request' = "none"
    /\ status' \in Routes \cup (IF "bad_json" \in RouteFaults THEN {"Checking"} ELSE {})
    /\ said' = IF status' \in Routes THEN <<status'>> ELSE said

\* fetch resolves: the request is told again, and the stream is read.
Respond ==
    /\ request = "sent" /\ request' = "stream"
    /\ status' = "Checking"
    /\ UNCHANGED said

\* An event of the stream (routingEventFromAnthropicEvent).  message_start is the
\* first and names the model that starts; a content block tells of a fallback,
\* message_delta of a fallback or, as the last of all, of a refusal.
StreamEvent(says) ==
    /\ request = "stream" /\ Len(said) < MaxStream
    /\ says = "direct" => said = <<>>
    /\ "refusal" \notin Range(said)
    /\ status' = IF says = "other" THEN status ELSE says
    /\ said' = Append(said, says)
    /\ UNCHANGED request

\* The stream ends: without a word of the route, it was direct.
StreamEnds ==
    /\ request = "stream" /\ request' = "none"
    /\ status' = IF Range(said) \cap Routes # {} THEN status ELSE "direct"
    /\ UNCHANGED said

StreamFails ==
    /\ request = "stream" /\ request' = "none"
    /\ status' = "Error"
    /\ UNCHANGED said

RouteNext ==
    \/ Select \/ Send \/ NoResponse \/ JsonResponse
    \/ Respond \/ StreamEnds \/ StreamFails
    \/ \E says \in Says : StreamEvent(says)

-----------------------------------------------------------------------------
(* Properties                                                              *)

\* No response leaves the status line waiting, and what it has told of the route
\* stands: a refusal or a fallback never ends as a direct answer.
RouteIsTold ==
    request = "none" =>
        /\ status # "Checking"
        /\ status = "direct" => Range(said) \cap {"fallback", "refusal"} = {}
=============================================================================
