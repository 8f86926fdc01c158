------------------------ MODULE RuntimeRegistration -------------------------
(***************************************************************************)
(* From a configuration to a command surface: HostConfig::validate and      *)
(* build_runtime (host.rs), validate_names, the manifest and                *)
(* build_command_runtime (sidecar_runtime.rs), CommandRuntimeBuilder::build *)
(* and activate, and the lookup of a command in a session                   *)
(* (resolve_session_handler, runtime.rs).                                   *)
(*                                                                          *)
(* The two configurations are checked long before the runtime is built: the *)
(* sidecar's after it was acknowledged to the supervisor.                   *)
(***************************************************************************)
EXTENDS Naturals, Sequences, SequencesExt

CONSTANT MaxNames   \* bound: registrations of one configuration

VARIABLES
    source,      \* who builds the runtime
    commands,    \* command names as configured or registered
    declared,    \* commands the embedding declared in its connect options itself
    stage,       \* configured, accepted, built, activated or the error
    handlers,    \* RuntimeInner.handlers
    advertised   \* NodeSession.advertised_commands

vars == <<source, commands, declared, stage, handlers, advertised>>

\* Names that the checks tell apart.
Names == {"a", " a", "b", "", " ", "system", " system", "system.run", "systemd"}

trim(n) ==
    CASE n = " a" -> "a" [] n = " " -> "" [] n = " system" -> "system" [] OTHER -> n

Reserved(n) == n \in {"system", "system.run"}

HasDuplicates(s) == ~IsInjective(s)

\* bytes that validate_names refuses: a blank here
Blank(n) == n # trim(n)

Init ==
    /\ source \in {"embedding", "host", "sidecar"}
    /\ commands \in SeqOf(Names, MaxNames)
    /\ source = "host" => Len(commands) = 1
    /\ declared \in {{}, {"b"}}
    /\ source # "embedding" => declared = {}
    /\ stage = "configured"
    /\ handlers = {}
    /\ advertised = {}

-----------------------------------------------------------------------------
\* Mutant: the status command is compared as it is written only.
HostTrusts(n) == n # "" /\ ~Reserved(n)

\* HostConfig::validate, of the status command
HostAccepts(n) == trim(n) # "" /\ trim(n) = n /\ ~Reserved(trim(n))

\* validate_names, of the commands
SidecarAccepts(s) == (\A n \in ToSet(s) : n # "" /\ ~Blank(n) /\ ~Reserved(n)) /\ ~HasDuplicates(s)

Accept ==
    /\ stage = "configured"
    /\ source = "host" => HostAccepts(commands[1])
    /\ source = "sidecar" => SidecarAccepts(commands)
    /\ stage' = "accepted"
    /\ UNCHANGED <<source, commands, declared, handlers, advertised>>

Refuse ==
    /\ stage = "configured"
    /\ \/ source = "host" /\ ~HostAccepts(commands[1])
       \/ source = "sidecar" /\ ~SidecarAccepts(commands)
    /\ stage' = "refused"
    /\ UNCHANGED <<source, commands, declared, handlers, advertised>>

\* The names CommandRuntimeBuilder::build works with.
Trimmed == [n \in DOMAIN commands |-> trim(commands[n])]

\* Mutant: names are checked as they are written.
Untrimmed == \A n \in ToSet(commands) : n # "" /\ ~Reserved(n)

\* The errors of build: an empty, a reserved or a repeated name.
Buildable ==
    /\ \A n \in ToSet(Trimmed) : n # "" /\ ~Reserved(n)
    /\ ~HasDuplicates(Trimmed)

Build ==
    /\ stage = "accepted"
    /\ \/ Buildable /\ stage' = "built" /\ handlers' = ToSet(Trimmed)
       \/ ~Buildable /\ stage' = "RuntimeBuildError" /\ UNCHANGED handlers
    /\ UNCHANGED <<source, commands, declared, advertised>>

\* activate adds every registered command to what the embedding declared, and a
\* connection advertises them.
Activate ==
    /\ stage = "built"
    /\ advertised' = declared \cup handlers
    /\ stage' = "activated"
    /\ UNCHANGED <<source, commands, declared, handlers>>

Next == Accept \/ Refuse \/ Build \/ Activate

Spec == Init /\ [][Next]_vars

\* resolve_session_handler: what becomes of an invocation of command c.
Resolve(c) ==
    CASE c \notin advertised -> "COMMAND_NOT_ADVERTISED"
      [] c \in advertised /\ c \notin handlers -> "COMMAND_NOT_FOUND"
      [] OTHER -> "handler"

-----------------------------------------------------------------------------
(* Properties.                                                             *)

\* A configuration that was accepted can be built: the host does not stop after
\* binding its listener, and a sidecar does not fail to activate what it has
\* already acknowledged.
AcceptedConfigurationBuilds == stage = "RuntimeBuildError" => source = "embedding"

\* A sidecar serves exactly the commands of its configuration, as they were
\* written; and no runtime serves a command of the reserved namespace or one that
\* it does not advertise, however its name was written.
SurfaceIsExact ==
    stage = "activated" =>
        /\ \A c \in Names : Resolve(c) = "handler" => ~Reserved(c) /\ trim(c) = c
        /\ source = "sidecar" => {c \in Names : Resolve(c) = "handler"} = ToSet(commands)
        /\ \A c \in Names \ declared : Resolve(c) # "COMMAND_NOT_FOUND"

-----------------------------------------------------------------------------
(* The inductive invariant.                                                *)

Configured ==
    /\ commands \in Seq(Names)
    /\ source \in {"embedding", "host", "sidecar"}
    /\ source = "host" => Len(commands) = 1

\* What was accepted passed the check of its source.
Checked ==
    stage \in {"accepted", "built", "RuntimeBuildError", "activated"} =>
        /\ source = "host" => HostAccepts(commands[1])
        /\ source = "sidecar" => SidecarAccepts(commands)

\* What was built has the trimmed names.
Serves ==
    /\ stage \in {"built", "activated"} => Buildable /\ handlers = ToSet(Trimmed)
    /\ stage = "activated" => advertised = declared \cup handlers

RegistrationInv == Configured /\ Checked /\ Serves /\ AcceptedConfigurationBuilds
=============================================================================
