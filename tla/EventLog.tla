------------------------------ MODULE EventLog ------------------------------
(***************************************************************************)
(* What an event subscription promises its consumer, without buffers,      *)
(* byte limits or wake-ups.  Events are numbered 0, 1, 2, ...  A reader    *)
(* walks the numbers in order; each one is either delivered to it or       *)
(* reported to it as missed, and only a reader that has walked over every  *)
(* event of a closed log is told that the log has ended.                   *)
(***************************************************************************)
EXTENDS Naturals

CONSTANTS Readers

VARIABLES
    size,       \* number of events appended so far
    ended,      \* the log accepts no more events
    open,       \* the readers that hold a subscription
    pos,        \* pos[r]: number of the next event reader r has to account for
    got,        \* got[r]: the numbers of the events delivered to r
    missed,     \* missed[r]: how many events r was told that it missed
    told        \* the readers that were told that the log has ended

logVars == <<size, ended, open, pos, got, missed, told>>

LogInit ==
    /\ size = 0
    /\ ended = FALSE
    /\ open \subseteq Readers
    /\ pos = [r \in Readers |-> 0]
    /\ got = [r \in Readers |-> {}]
    /\ missed = [r \in Readers |-> 0]
    /\ told = {}

LogAppend ==
    /\ ~ended
    /\ size' = size + 1
    /\ UNCHANGED <<ended, open, pos, got, missed, told>>

LogEnd ==
    /\ ended' = TRUE
    /\ UNCHANGED <<size, open, pos, got, missed, told>>

\* A later subscription starts at the end of the log.
LogOpen(r) ==
    /\ r \notin open
    /\ open' = open \cup {r}
    /\ pos' = [pos EXCEPT ![r] = size]
    /\ UNCHANGED <<size, ended, got, missed, told>>

LogDeliver(r) ==
    /\ r \in open
    /\ pos[r] < size
    /\ got' = [got EXCEPT ![r] = @ \cup {pos[r]}]
    /\ pos' = [pos EXCEPT ![r] = @ + 1]
    /\ UNCHANGED <<size, ended, open, missed, told>>

LogMiss(r) ==
    /\ r \in open
    /\ \E n \in 1 .. (size - pos[r]) :
          /\ pos' = [pos EXCEPT ![r] = @ + n]
          /\ missed' = [missed EXCEPT ![r] = @ + n]
    /\ UNCHANGED <<size, ended, open, got, told>>

LogTell(r) ==
    /\ r \in open
    /\ ended
    /\ pos[r] = size
    /\ told' = told \cup {r}
    /\ UNCHANGED <<size, ended, open, pos, got, missed>>

LogNext ==
    \/ LogAppend
    \/ LogEnd
    \/ \E r \in Readers :
          LogOpen(r) \/ LogDeliver(r) \/ LogMiss(r) \/ LogTell(r)

LogSpec == LogInit /\ [][LogNext]_logVars

=============================================================================
