---------------------------- MODULE SessionTitle ----------------------------
(* Naming a session after its first prompt (session-title.ts): a model is   *)
(* asked in the background, while the user may name the session, prompt     *)
(* again, or begin another session.                                         *)
EXTENDS Naturals

CONSTANTS
    MaxSessions, MaxPrompts,    \* bounds
    TitleFaults     \* a subset of {"one_instance"}: the extension outlives a
                    \* session, as its session_start allows for

VARIABLES
    session,    \* the number of the session
    name,       \* of the session, and who gave it
    attempted,
    given,    \* prompts of the session
    asked       \* the fibers: prompts whose title the model is asked for

titleVars == <<session, name, attempted, given, asked>>

Prompt == [session : 1..MaxSessions, number : 1..MaxPrompts]
Unnamed == [by |-> "nobody"]
ByUser == [by |-> "user"]
Title(p) == [by |-> "title", of |-> p]

TitleTypeOK ==
    /\ session \in 0..MaxSessions /\ given \in 0..MaxPrompts
    /\ name \in {Unnamed, ByUser} \cup {Title(p) : p \in Prompt}
    /\ attempted \in BOOLEAN
    /\ asked \subseteq Prompt

TitleInit ==
    /\ session = 0 /\ name = Unnamed /\ attempted = FALSE /\ given = 0 /\ asked = {}

-----------------------------------------------------------------------------
\* session_start, of a new session or of one that has a name.  The fibers of the
\* last go on; pi refuses what an extension does to a session that is over.
SessionStart(named) ==
    /\ session < MaxSessions
    /\ session' = session + 1 /\ name' = named
    /\ attempted' = FALSE /\ given' = 0
    /\ asked' = IF "one_instance" \in TitleFaults THEN asked ELSE {}

\* The user gives a name (/name) or takes it away.
UserNames(named) ==
    /\ session > 0 /\ name' = named
    /\ UNCHANGED <<session, attempted, given, asked>>

\* before_agent_start, with a prompt; without one, or without a user, nothing is
\* done.
BeforeAgentStart ==
    /\ session > 0 /\ given < MaxPrompts
    /\ given' = given + 1
    /\ IF attempted \/ name # Unnamed
       THEN attempted' = TRUE /\ UNCHANGED asked
       ELSE attempted' = TRUE /\ asked' = asked \cup {[session |-> session, number |-> given + 1]}
    /\ UNCHANGED <<session, name>>

\* The model has answered: the title is set unless it is empty or the session
\* has a name.
TitleArrives(p) ==
    /\ p \in asked /\ asked' = asked \ {p}
    /\ name' \in IF name = Unnamed THEN {name, Title(p)} ELSE {name}
    /\ UNCHANGED <<session, attempted, given>>

\* No model, or no answer: the next prompt tries again.
TitleFails(p) ==
    /\ p \in asked /\ asked' = asked \ {p}
    /\ attempted' = FALSE
    /\ UNCHANGED <<session, name, given>>

TitleNext ==
    \/ \E named \in {Unnamed, ByUser} : SessionStart(named) \/ UserNames(named)
    \/ BeforeAgentStart
    \/ \E p \in asked : TitleArrives(p) \/ TitleFails(p)

-----------------------------------------------------------------------------
(* Properties                                                              *)

\* A session is named after a prompt of its own, and only one model is asked at
\* a time ("Mark before the async work so concurrent prompts don't double-fire").
TitleIsOwn ==
    /\ name.by = "title" => name.of.session = session
    /\ \A p, q \in asked : p = q

\* A name given by the user is changed by the user or with the session alone
\* ("Respects manual /name"), however late a title arrives.
UserNameStands ==
    [][name = ByUser /\ name' # name => session' # session \/ name' = Unnamed]_titleVars
=============================================================================
