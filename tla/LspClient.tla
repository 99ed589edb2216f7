----------------------------- MODULE LspClient -----------------------------
(***************************************************************************)
(* One client of a language server and one document (lsp/client.ts): calls *)
(* open the document, which sends what changed since the last time; the    *)
(* server reports problems by itself and when asked; the client shuts down.*)
(* A text and the problems in it have the number of its revision.          *)
(***************************************************************************)
EXTENDS Naturals, Sequences

CONSTANTS
    Opener,         \* the calls that open the document
    MaxRevision,    \* a bound on the revisions of the file
    ClientFaults    \* a subset of {"abort", "pull_only"}: a call is aborted
                    \* between its messages; the server reports when asked only

VARIABLES
    file,           \* the text of the file
    opening,        \* where each call stands, and the text it has read
    openDocument,   \* openDocuments: what the client holds to be sent
    pipe,           \* writeQueue, and what the server has not read
    server,         \* the document as the server knows it
    reports,        \* what the server has sent: texts it found problems in
    diagnostics,    \* diagnosticsByFile
    lifecycle       \* closing, disposed and broken

clientVars == <<file, opening, openDocument, pipe, server, reports, diagnostics, lifecycle>>

Revision == 1..MaxRevision
Closed == [version |-> 0, text |-> 0]
Document == [version : Nat, text : 0..MaxRevision]
Stage == {"idle", "read", "watched", "sent", "done"}
Message(m, d) == [m |-> m, version |-> d.version, text |-> d.text]

ClientTypeOK ==
    /\ file \in Revision
    /\ opening \in [Opener -> [stage : Stage, m : {"none", "didOpen", "didChange"}, document : Document]]
    /\ openDocument \in Document
    /\ \A i \in DOMAIN pipe :
        pipe[i] \in [m : {"watched", "didOpen", "didChange", "didSave", "didClose", "diagnostic"},
                     version : Nat, text : 0..MaxRevision]
    /\ server \in Document
    /\ \A i \in DOMAIN reports : reports[i] \in [pulled : BOOLEAN, text : Revision]
    /\ diagnostics \subseteq Revision
    /\ lifecycle \in {"up", "closing_documents", "closing", "disposed", "broken"}

ClientInit ==
    /\ file = 1
    /\ opening = [c \in Opener |-> [stage |-> "idle", m |-> "none", document |-> Closed]]
    /\ openDocument = Closed
    /\ pipe = <<>>
    /\ server = Closed
    /\ reports = <<>>
    /\ diagnostics = {}
    /\ lifecycle = "up"

CanSend == lifecycle \in {"up", "closing_documents"}

\* SafeMessageWriter: messages are written one after the other; after the end
\* of the server they are dropped.
Send(m, d) == pipe' = IF CanSend THEN Append(pipe, Message(m, d)) ELSE pipe

Move(c, stage, m, d) == opening' = [opening EXCEPT ![c] = [stage |-> stage, m |-> m, document |-> d]]

-----------------------------------------------------------------------------
(* openEffect                                                              *)

FileChanges ==
    /\ file < MaxRevision
    /\ file' = file + 1
    /\ UNCHANGED <<opening, openDocument, pipe, server, reports, diagnostics, lifecycle>>

ReadFile(c) ==
    /\ opening[c].stage = "idle"
    /\ Move(c, "read", "none", [version |-> 0, text |-> file])
    /\ UNCHANGED <<file, openDocument, pipe, server, reports, diagnostics, lifecycle>>

\* A client that cannot send is broken, and the call ends.
FindClosed(c) ==
    /\ opening[c].stage = "read" /\ ~CanSend
    /\ lifecycle' = IF lifecycle = "broken" THEN "broken" ELSE lifecycle
    /\ Move(c, "done", "none", Closed)
    /\ UNCHANGED <<file, openDocument, pipe, server, reports, diagnostics>>

\* The text is recorded before it is sent.
\* Mutant: a changed text keeps its version.
Record_SameVersion(c) ==
    /\ opening[c].stage = "read" /\ CanSend
    /\ LET text == opening[c].document.text
           document == [version |-> IF openDocument = Closed THEN 1 ELSE openDocument.version,
                        text |-> text] IN
       IF text = openDocument.text
       THEN Move(c, "sent", "none", Closed) /\ UNCHANGED <<openDocument, pipe>>
       ELSE /\ openDocument' = document
            /\ Move(c, "watched", IF openDocument = Closed THEN "didOpen" ELSE "didChange", document)
            /\ Send("watched", document)
    /\ UNCHANGED <<file, server, reports, diagnostics, lifecycle>>

Record(c) ==
    /\ opening[c].stage = "read" /\ CanSend
    /\ LET text == opening[c].document.text
           document == [version |-> openDocument.version + 1, text |-> text] IN
       IF text = openDocument.text
       THEN Move(c, "sent", "none", Closed) /\ UNCHANGED <<openDocument, pipe>>
       ELSE /\ openDocument' = document
            /\ Move(c, "watched", IF openDocument = Closed THEN "didOpen" ELSE "didChange", document)
            /\ Send("watched", document)
    /\ UNCHANGED <<file, server, reports, diagnostics, lifecycle>>

\* Each message waits for the one before to be written; messages are written,
\* and their calls go on, in the order they were sent.
SendText(c) ==
    /\ opening[c].stage = "watched"
    /\ \A d \in Opener : opening[d].stage = "watched" =>
            opening[c].document.version <= opening[d].document.version
    /\ Move(c, "sent", opening[c].m, opening[c].document)
    /\ Send(opening[c].m, opening[c].document)
    /\ UNCHANGED <<file, openDocument, server, reports, diagnostics, lifecycle>>

\* didSave; then, if the call wants diagnostics, it asks a server that has the
\* capability for them (and waits for them, or for those the server pushes).
SendSave(c, wantsDiagnostics) ==
    /\ opening[c].stage = "sent"
    /\ Move(c, "done", "none", Closed)
    /\ pipe' = LET save == IF opening[c].m = "none" \/ ~CanSend THEN <<>>
                           ELSE <<Message("didSave", opening[c].document)>>
                   pull == IF wantsDiagnostics /\ CanSend
                           THEN <<Message("diagnostic", Closed)>> ELSE <<>>
               IN  pipe \o save \o pull
    /\ UNCHANGED <<file, openDocument, server, reports, diagnostics, lifecycle>>

AbortOpen(c) ==
    /\ opening[c].stage \in {"read", "sent"} \cup (IF "abort" \in ClientFaults THEN {"watched"} ELSE {})
    /\ Move(c, "done", "none", Closed)
    /\ UNCHANGED <<file, openDocument, pipe, server, reports, diagnostics, lifecycle>>

-----------------------------------------------------------------------------
(* The server and its diagnostics                                          *)

Push == IF "pull_only" \in ClientFaults THEN <<>> ELSE <<[pulled |-> FALSE, text |-> Head(pipe).text]>>

ServerReads ==
    /\ pipe # <<>>
    /\ pipe' = Tail(pipe)
    /\ LET message == Head(pipe) IN
       CASE message.m \in {"didOpen", "didChange"} ->
                /\ server' = [version |-> message.version, text |-> message.text]
                /\ reports' = reports \o Push
         [] message.m = "didClose" -> server' = Closed /\ UNCHANGED reports
         [] message.m = "diagnostic" /\ server # Closed ->
                /\ reports' = Append(reports, [pulled |-> TRUE, text |-> server.text])
                /\ UNCHANGED server
         [] OTHER -> UNCHANGED <<server, reports>>
    /\ UNCHANGED <<file, opening, openDocument, diagnostics, lifecycle>>

\* publishDiagnostics replaces the problems known, an answer is merged.
Receive ==
    /\ reports # <<>>
    /\ reports' = Tail(reports)
    /\ diagnostics' = {Head(reports).text} \cup IF Head(reports).pulled THEN diagnostics ELSE {}
    /\ UNCHANGED <<file, opening, openDocument, pipe, server, lifecycle>>

-----------------------------------------------------------------------------
(* Shutdown                                                                *)

\* shutdownEffect: the document is closed, then the client sends no more, the
\* exit notification included; the server is asked to shut down and killed.
CloseDocuments ==
    /\ lifecycle \in {"up", "broken"}
    /\ lifecycle' = IF lifecycle = "up" THEN "closing_documents" ELSE "disposed"
    /\ IF openDocument = Closed THEN UNCHANGED pipe ELSE Send("didClose", Closed)
    /\ UNCHANGED <<file, opening, openDocument, server, reports, diagnostics>>

Close ==
    /\ lifecycle = "closing_documents"
    /\ openDocument' = Closed
    /\ lifecycle' = "closing"
    /\ UNCHANGED <<file, opening, pipe, server, reports, diagnostics>>

Dispose ==
    /\ lifecycle = "closing"
    /\ lifecycle' = "disposed"
    /\ UNCHANGED <<file, opening, openDocument, pipe, server, reports, diagnostics>>

\* The process exits: what is under way is lost.
ServerExits ==
    /\ lifecycle = "up"
    /\ lifecycle' = "broken"
    /\ pipe' = <<>>
    /\ UNCHANGED <<file, opening, openDocument, server, reports, diagnostics>>

ClientNext ==
    \/ FileChanges \/ ServerReads \/ Receive
    \/ CloseDocuments \/ Close \/ Dispose \/ ServerExits
    \/ \E c \in Opener :
        \/ ReadFile(c) \/ FindClosed(c) \/ Record(c) \/ SendText(c) \/ AbortOpen(c)
        \/ \E wantsDiagnostics \in BOOLEAN : SendSave(c, wantsDiagnostics)

-----------------------------------------------------------------------------
(* Properties                                                              *)

\* However calls overlap, the server is sent a didOpen first and then changes
\* with rising versions, and with nothing under way it has the text that the
\* client holds to be sent (openEffect).  Problems of a text it no longer has
\* are not kept when it has pushed others (mergeDiagnosticReport).
ServerFollows ==
    lifecycle = "up" =>
        /\ pipe # <<>> => LET message == Head(pipe) IN
            /\ message.m = "didOpen" => server = Closed
            /\ message.m = "didChange" => server # Closed /\ message.version > server.version
            /\ message.m = "didSave" => server # Closed
        /\ pipe = <<>> /\ (\A c \in Opener : opening[c].stage \in {"idle", "read", "done"}) =>
            /\ server = openDocument
            /\ reports = <<>> => diagnostics \subseteq {server.text}
=============================================================================
