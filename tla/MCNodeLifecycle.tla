--------------------------- MODULE MCNodeLifecycle --------------------------
EXTENDS NodeLifecycle

Plain(kind, method) ==
    [kind |-> kind, method |-> method, code |-> "OTHER", retryable |-> "unset",
     pause_reconnect |-> "unset", step |-> "unset", retry_after |-> NoHint]

Refusal(code) == [Plain("gateway", "connect") EXCEPT !.code = code]

\* One error of every kind and code, and the hints that change a verdict.
MCErrors ==
    {Plain(k, "connect") : k \in Kinds \ {"lagged", "not_activated"}}
    \cup {Plain(k, "session") : k \in {"transport", "protocol", "lagged", "timeout", "gateway"}}
    \cup {Refusal(c) : c \in Codes}
    \cup {[Refusal("OTHER") EXCEPT !.retry_after = h] : h \in Hints}
    \cup {[Refusal("PAIRING_REQUIRED") EXCEPT !.pause_reconnect = "no"],
          [Refusal("AUTH_TOKEN_MISMATCH") EXCEPT !.step = "wait_then_retry"],
          [Refusal("OTHER") EXCEPT !.retryable = "no"]}
=============================================================================
