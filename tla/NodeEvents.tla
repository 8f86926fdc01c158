----------------------------- MODULE NodeEvents -----------------------------
(***************************************************************************)
(* What a node session makes of the Gateway's events and of the runtime's   *)
(* results (crates/openclaw-node-host/src/node.rs): next_node_event and its *)
(* parsers, complete_invocation and its validation, with the way the        *)
(* runtime turns a handler's error into a result (handler_failure) and the  *)
(* sidecar an adapter's (adapter_failure).                                  *)
(*                                                                          *)
(* Any error of either side ends CommandRuntime::run, and with it every     *)
(* other invocation: one bad frame or one bad result is not contained.      *)
(* A text is empty, blank or filled in; JSON is abstracted to its shape.    *)
(***************************************************************************)
EXTENDS Naturals, FiniteSets

CONSTANT Ids   \* invocation ids the Gateway may use

VARIABLES
    protocol,   \* NodeSession.protocol
    activated,  \* NodeSession.activated
    loop,       \* CommandRuntime::run: running, or how it ended
    active,     \* invocations being executed
    cancelled,  \* the ones whose token is cancelled
    answered    \* the ones whose result was written

vars == <<protocol, activated, loop, active, cancelled, answered>>

Texts == {"empty", "blank", "text"}

\* The fields of node.invoke.request that the parser tells apart.
Requests ==
    [kind : {"request"}, id : Ids, names : {"all", "empty", "missing"},
     params : {"absent", "null", "json", "not json", "direct"},
     timeout : {"absent", "null", "number"},
     key : {"absent", "null", "empty", "text"},
     session : {"absent", "null", "empty", "text"}]

Inputs == [kind : {"input"}, id : Ids, names : {"all", "empty", "missing"}, large : BOOLEAN]
Cancels == [kind : {"cancel"}, id : Ids, names : {"all", "empty", "missing"}]
Others == {[kind |-> "other"]}

Init ==
    /\ protocol \in {3, 4}
    /\ activated \in BOOLEAN
    /\ loop = "running"
    /\ active = {}
    /\ cancelled = {}
    /\ answered = {}

-----------------------------------------------------------------------------
(* Parsing.                                                                *)

\* decode_invocation and parse_invocation.  The protocol is not looked at; null
\* is a value of paramsJSON and sessionKey, but not of the other two.
InvocationParses(e) ==
    /\ e.names = "all"
    /\ e.params \in {"absent", "null", "json"}
    /\ e.timeout # "null"
    /\ e.key \in {"absent", "text"}
    /\ e.session # "empty"

\* parse_invocation_input
InputParses(e) == e.names = "all" /\ ~e.large

\* parse_invocation_cancel
CancelParses(e) == e.names = "all"

\* stop_runtime_tasks: every token is cancelled, every task is gone.
Stop(how) ==
    /\ loop' = how
    /\ cancelled' = cancelled \cup active
    /\ active' = {}
    /\ UNCHANGED answered

CanRead == loop = "running" /\ activated

\* next_node_event refuses a session that was not activated.
NotActivated ==
    /\ loop = "running"
    /\ ~activated
    /\ Stop("NotActivated")
    /\ UNCHANGED <<protocol, activated>>

\* A request starts a task unless its id is executing already; that one is
\* answered with DUPLICATE_INVOCATION.
TakeRequest(e) ==
    /\ CanRead
    /\ \/ /\ InvocationParses(e)
          /\ active' = active \cup {e.id}
          /\ answered' = IF e.id \in active THEN answered \cup {e.id} ELSE answered \ {e.id}
          /\ cancelled' = IF e.id \in active THEN cancelled ELSE cancelled \ {e.id}
          /\ UNCHANGED loop
       \/ ~InvocationParses(e) /\ Stop("InvalidFrame")
    /\ UNCHANGED <<protocol, activated>>

TakeInput(e) ==
    /\ CanRead
    /\ \/ InputParses(e) /\ UNCHANGED <<loop, active, cancelled, answered>>
       \/ ~InputParses(e) /\ Stop("InvalidFrame")
    /\ UNCHANGED <<protocol, activated>>

TakeCancel(e) ==
    /\ CanRead
    /\ \/ /\ CancelParses(e)
          /\ cancelled' = cancelled \cup ({e.id} \cap active)
          /\ UNCHANGED <<loop, active, answered>>
       \/ ~CancelParses(e) /\ Stop("InvalidFrame")
    /\ UNCHANGED <<protocol, activated>>

\* Events of other kinds are skipped.
SkipOther(e) ==
    /\ CanRead
    /\ UNCHANGED <<protocol, activated, loop, active, cancelled, answered>>

-----------------------------------------------------------------------------
(* Results.                                                                *)

Errors == [code : Texts, message : Texts, large : BOOLEAN]

\* adapter_failure: an adapter's blank code or message is replaced.
adapter_failure(e) ==
    [e EXCEPT !.code = IF @ = "text" THEN @ ELSE "text",
              !.message = IF @ = "text" THEN @ ELSE "text"]

\* Mutant: the handler's error is passed on as it is.
AsGiven(e) == e

\* handler_failure: an empty code or message is replaced, and an error that is
\* too large becomes another one.
handler_failure(e) ==
    IF e.large
    THEN [code |-> "text", message |-> "text", large |-> FALSE]
    ELSE [e EXCEPT !.code = IF @ = "empty" THEN "text" ELSE @,
                   !.message = IF @ = "empty" THEN "text" ELSE @]

\* invocation_result_params
ResultValid(r) == r.code # "empty" /\ r.message # "empty"

\* complete_invocation: an invalid result is an error of the task, which ends run.
Complete(i, r) ==
    /\ loop = "running"
    /\ i \in active
    /\ \/ /\ ResultValid(r)
          /\ active' = active \ {i}
          /\ answered' = answered \cup {i}
          /\ UNCHANGED <<loop, cancelled>>
       \/ ~ResultValid(r) /\ Stop("InvalidResult")
    /\ UNCHANGED <<protocol, activated>>

Success == [code |-> "text", message |-> "text", large |-> FALSE]

HandlerSucceeds(i) == Complete(i, Success)

HandlerFails(i) == \E e \in Errors : Complete(i, handler_failure(e))

AdapterFails(i) == \E e \in Errors : Complete(i, handler_failure(adapter_failure(e)))

\* The adapter's own Deny or Failure is not passed through adapter_failure.
AdapterRefuses(i) == \E e \in Errors : Complete(i, handler_failure(e))

\* The transport fails, or the Gateway does not take a result.
SessionFails ==
    /\ loop = "running"
    /\ Stop("Session")
    /\ UNCHANGED <<protocol, activated>>

Next ==
    \/ NotActivated
    \/ \E e \in Requests : TakeRequest(e)
    \/ \E e \in Inputs : TakeInput(e)
    \/ \E e \in Cancels : TakeCancel(e)
    \/ \E e \in Others : SkipOther(e)
    \/ \E i \in Ids : HandlerSucceeds(i)
    \/ \E i \in Ids : HandlerFails(i)
    \/ \E i \in Ids : AdapterFails(i)
    \/ \E i \in Ids : AdapterRefuses(i)
    \/ SessionFails

Spec == Init /\ [][Next]_vars

-----------------------------------------------------------------------------
(* Properties.                                                             *)

\* No command handler, admission policy or product adapter can end the session of
\* all the others by what it returns: every error it can make, the empty one
\* included, becomes a result that complete_invocation takes.
HandlersCannotEndRun == loop # "InvalidResult"
=============================================================================
