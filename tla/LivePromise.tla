---------------------------- MODULE LivePromise -----------------------------
(***************************************************************************)
(* What a live session promises its client, whatever the provider, the     *)
(* network and the timers do: audio is acknowledged only after the         *)
(* provider has it, the provider is asked to finalize only after every     *)
(* ACK, the verdict is truthful, and only a successful verdict earns a     *)
(* normal closure.                                                         *)
(***************************************************************************)
EXTENDS Integers

VARIABLES
    ready,     \* the client was told that the session is ready
    heard,     \* frames the provider has received completely
    acks,      \* frames acknowledged to the client
    spoiled,   \* a provider operation failed or was abandoned half way
    asked,     \* the provider was asked to finalize
    answered,  \* the provider answered that request
    verdict,   \* the finalize status the client received
    closing    \* how the session was closed

vars == <<ready, heard, acks, spoiled, asked, answered, verdict, closing>>

Init ==
    /\ ready = FALSE
    /\ heard = 0
    /\ acks = 0
    /\ spoiled = FALSE
    /\ asked = FALSE
    /\ answered = FALSE
    /\ verdict = "none"
    /\ closing = "open"

Greet ==
    /\ ~ready
    /\ ready' = TRUE
    /\ UNCHANGED <<heard, acks, spoiled, asked, answered, verdict, closing>>

\* A spoiled upstream gets nothing more: no frame follows one that was cut.
Healthy == ready /\ ~spoiled /\ closing = "open"

\* One frame at a time; its write may be reported as failed all the same.
Hear ==
    /\ Healthy /\ ~asked
    /\ heard = acks
    /\ heard' = heard + 1
    /\ spoiled' \in BOOLEAN
    /\ UNCHANGED <<ready, acks, asked, answered, verdict, closing>>

Acknowledge ==
    /\ Healthy /\ ~asked
    /\ acks < heard
    /\ acks' = acks + 1
    /\ UNCHANGED <<ready, heard, spoiled, asked, answered, verdict, closing>>

Spoil ==
    /\ Healthy
    /\ spoiled' = TRUE
    /\ UNCHANGED <<ready, heard, acks, asked, answered, verdict, closing>>

Ask ==
    /\ Healthy /\ ~asked
    /\ acks = heard
    /\ asked' = TRUE
    /\ spoiled' \in BOOLEAN
    /\ UNCHANGED <<ready, heard, acks, answered, verdict, closing>>

Answer ==
    /\ Healthy /\ asked
    /\ verdict = "none"
    /\ answered' = TRUE
    /\ UNCHANGED <<ready, heard, acks, spoiled, asked, verdict, closing>>

Conclude(v) ==
    /\ Healthy /\ asked
    /\ verdict = "none"
    /\ v = "flushed"     => answered
    /\ v = "no_provider" => heard = 0 /\ ~answered
    /\ v = "timeout"     => heard > 0 /\ ~answered
    /\ verdict' = v
    /\ UNCHANGED <<ready, heard, acks, spoiled, asked, answered, closing>>

Close(c) ==
    /\ closing = "open"
    /\ c = "normal" => verdict \in {"flushed", "no_provider"} /\ ~spoiled
    /\ closing' = c
    /\ UNCHANGED <<ready, heard, acks, spoiled, asked, answered, verdict>>

Next ==
    \/ Greet
    \/ Hear
    \/ Acknowledge
    \/ Spoil
    \/ Ask
    \/ Answer
    \/ \E v \in {"flushed", "no_provider", "timeout"} : Conclude(v)
    \/ \E c \in {"normal", "abnormal", "dropped"} : Close(c)

Spec == Init /\ [][Next]_vars
=============================================================================
