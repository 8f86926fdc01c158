---------------------------- MODULE HealthServer ----------------------------
(***************************************************************************)
(* The headless host's local health endpoint (crates/openclaw-node-host/    *)
(* src/host.rs): serve_health accepts connections, gives each a permit and  *)
(* a task, and joins finished tasks; a permit travels in its task's result  *)
(* and is free again only when that result is joined.  After an accept      *)
(* error the loop sleeps and joins nothing; after MaxErrors in a row it     *)
(* gives up, which ends the host.                                           *)
(***************************************************************************)
EXTENDS Naturals, Sequences, FiniteSets

CONSTANTS
    Clients,         \* local processes that probe the host, again and again
    MaxConnections,  \* MAX_HEALTH_CONNECTIONS
    MaxErrors        \* MAX_CONSECUTIVE_HEALTH_ACCEPT_ERRORS

VARIABLES
    loop,      \* serve_health: selecting, sleeping, failed or aborted
    errors,    \* consecutive_accept_errors
    permits,   \* free permits of the semaphore
    client,    \* client[c]: where c's connection is
    recent     \* history: the last MaxErrors results of accept

vars == <<loop, errors, permits, client, recent>>

\* Connections with a task; a finished task is over and waits to be joined.
Tasks == {c \in Clients : client[c] \in {"reading", "writing", "finished"}}

Init ==
    /\ loop = "select"
    /\ errors = 0
    /\ permits = MaxConnections
    /\ client = [c \in Clients |-> "away"]
    /\ recent = <<>>

Remember(what) ==
    recent' = IF Len(recent) = MaxErrors THEN Append(Tail(recent), what) ELSE Append(recent, what)

-----------------------------------------------------------------------------
(* serve_health.                                                           *)

\* Mutant: an accepted connection does not end a row of errors.
NeverReset == errors

\* consecutive_accept_errors after a connection was accepted.
ResetErrors == 0

\* Mutant: the permit is asked for and not needed.
AlwaysPermit == TRUE

\* try_acquire_owned
HasPermit == permits > 0

\* A connection is accepted: spawn its task, or drop it when saturated.
Accept(c) ==
    /\ loop = "select"
    /\ client[c] = "queued"
    /\ errors' = ResetErrors
    /\ Remember("ok")
    /\ \/ /\ HasPermit
          /\ permits' = IF permits > 0 THEN permits - 1 ELSE 0
          /\ client' = [client EXCEPT ![c] = "reading"]
       \/ /\ ~HasPermit
          /\ client' = [client EXCEPT ![c] = "dropped"]
          /\ UNCHANGED permits
    /\ UNCHANGED <<loop>>

AcceptFails ==
    /\ loop = "select"
    /\ errors' = errors + 1
    /\ Remember("error")
    /\ loop' = IF errors + 1 >= MaxErrors THEN "failed" ELSE "sleeping"
    /\ UNCHANGED <<permits, client>>

\* HEALTH_ACCEPT_RETRY_DELAY is over.
Resume ==
    /\ loop = "sleeping"
    /\ loop' = "select"
    /\ UNCHANGED <<errors, permits, client, recent>>

\* join_next has a result for c; its permit is dropped with it.
Join(c) ==
    /\ loop = "select"
    /\ client[c] = "finished"
    /\ client' = [client EXCEPT ![c] = "away"]
    /\ permits' = permits + 1
    /\ UNCHANGED <<loop, errors, recent>>

-----------------------------------------------------------------------------
(* serve_health_request.                                                   *)

\* read_request_line has a whole line, or what there is when the client stops; the
\* request is routed and its answer is about to be written.
Respond(c) ==
    /\ client[c] = "reading"
    /\ client' = [client EXCEPT ![c] = "writing"]
    /\ UNCHANGED <<loop, errors, permits, recent>>

\* write_all and shutdown are done, or one of them has failed; no deadline is
\* around them.
Written(c) ==
    /\ client[c] = "writing"
    /\ client' = [client EXCEPT ![c] = "finished"]
    /\ UNCHANGED <<loop, errors, permits, recent>>

\* Mutant: reading the request line has no deadline.
NeverGivesUp(c) == FALSE

\* Two seconds are over before the line is read, or reading it fails.
GivesUp(c) == client[c] = "reading"

RequestFails(c) ==
    /\ GivesUp(c)
    /\ client' = [client EXCEPT ![c] = "finished"]
    /\ UNCHANGED <<loop, errors, permits, recent>>

-----------------------------------------------------------------------------
(* The clients and the host.                                               *)

Running == loop \in {"select", "sleeping"}

Connect(c) ==
    /\ Running
    /\ client[c] \in {"away", "dropped"}
    /\ client' = [client EXCEPT ![c] = "queued"]
    /\ UNCHANGED <<loop, errors, permits, recent>>

\* run_connections returned, or run_host was dropped: the task is aborted, and
\* dropping its JoinSet aborts the requests.
HostEnds ==
    /\ Running
    /\ loop' = "aborted"
    /\ client' = [c \in Clients |-> IF c \in Tasks THEN "away" ELSE client[c]]
    /\ permits' = MaxConnections
    /\ UNCHANGED <<errors, recent>>

Next ==
    \/ \E c \in Clients : Accept(c)
    \/ AcceptFails \/ Resume
    \/ \E c \in Clients : Join(c)
    \/ \E c \in Clients : Respond(c)
    \/ \E c \in Clients : Written(c)
    \/ \E c \in Clients : RequestFails(c)
    \/ \E c \in Clients : Connect(c)
    \/ HostEnds

Spec == Init /\ [][Next]_vars

-----------------------------------------------------------------------------
(* Properties.                                                             *)

\* At most MaxConnections requests are served or kept at a time, and a permit is
\* missing only for them: none is lost in a refusal, a failure or a sleep.
HealthTasksBounded ==
    loop # "failed" =>
        Cardinality(Tasks) <= MaxConnections /\ permits + Cardinality(Tasks) = MaxConnections

\* The listener gives up, and ends the host, only if the last MaxErrors results
\* of accept were all errors.
GivesUpOnlyAfterRow ==
    loop = "failed" => Len(recent) = MaxErrors /\ \A n \in DOMAIN recent : recent[n] = "error"

\* What the end of a probe is about.
Queued(c) == client[c] = "queued"
Finished(c) == client[c] = "finished"
Writing(c) == client[c] = "writing"
Served(c) == client[c] \in {"away", "dropped"}

-----------------------------------------------------------------------------
(* The inductive invariant.                                                *)

HealthTyped ==
    /\ loop \in {"select", "sleeping", "failed", "aborted"}
    /\ errors \in Nat
    /\ permits \in Nat
    /\ client \in [Clients -> {"away", "queued", "reading", "writing", "finished", "dropped"}]
    /\ recent \in Seq({"ok", "error"})

\* Every permit is free or with a task.
PermitsCounted == permits + Cardinality(Tasks) = MaxConnections

\* The counter is the length of the row of errors that recent ends with.
RowCounted ==
    /\ errors <= Len(recent) /\ Len(recent) <= MaxErrors
    /\ Running => errors < MaxErrors
    /\ loop = "failed" => errors = MaxErrors
    /\ \A n \in 1 .. Len(recent) : n > Len(recent) - errors => recent[n] = "error"

HealthInv == HealthTyped /\ PermitsCounted /\ RowCounted
=============================================================================
