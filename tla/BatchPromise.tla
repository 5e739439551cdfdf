---------------------------- MODULE BatchPromise ----------------------------
(***************************************************************************)
(* What the batch service promises about one job, whatever processes,      *)
(* requests, crashes and lost replies go on underneath: a job is admitted  *)
(* once, alternates between waiting and submitting, is accepted by the     *)
(* provider at most once, goes back to waiting only while the provider is  *)
(* known to hold nothing, completes only when the provider did accept it,  *)
(* and a verdict is final.                                                 *)
(***************************************************************************)
EXTENDS Naturals

CONSTANT Jobs

VARIABLES verdict,  \* what the ledger says of the job
          paid      \* how often the provider accepted a submission of it

Init ==
    /\ verdict = [j \in Jobs |-> "absent"]
    /\ paid = [j \in Jobs |-> 0]

Move(j, from, to) ==
    /\ verdict[j] = from
    /\ verdict' = [verdict EXCEPT ![j] = to]
    /\ UNCHANGED paid

Admit(j) == Move(j, "absent", "waiting")

Submit(j) == Move(j, "waiting", "submitting")

\* The one moment at which money may be spent.
Pay(j) ==
    /\ verdict[j] = "submitting"
    /\ paid[j] = 0
    /\ paid' = [paid EXCEPT ![j] = 1]
    /\ UNCHANGED verdict

\* A retry is offered only for a submission that cost nothing.
Retry(j) ==
    /\ paid[j] = 0
    /\ Move(j, "submitting", "waiting")

Conclude(j, v) ==
    /\ v = "completed" => paid[j] = 1
    /\ Move(j, "submitting", v)

Next ==
    \E j \in Jobs :
        \/ Admit(j)
        \/ Submit(j)
        \/ Pay(j)
        \/ Retry(j)
        \/ \E v \in {"completed", "failed", "outcome_unknown"} : Conclude(j, v)

Spec == Init /\ [][Next]_<<verdict, paid>>
=============================================================================
