----------------------------- MODULE JobLedger ------------------------------
(***************************************************************************)
(* The PostgreSQL job ledger (voicetext-gateway storage/postgres.rs): one  *)
(* row per job, written by INSERT ... ON CONFLICT DO NOTHING and by an     *)
(* UPDATE guarded by the expected revision, read by primary key and by     *)
(* pages of recovery candidates in job-id order.                           *)
(*                                                                         *)
(* A client that stops waiting (an error reply, a dropped connection, a    *)
(* crash) does not know whether its statement will take effect: such a     *)
(* statement stays in `late' and the server may still run it at any later  *)
(* moment, or never.                                                       *)
(***************************************************************************)
EXTENDS BatchJob

CONSTANT MaxLate   \* bound: unanswered statements the server may still hold

ASSUME LateAssumption == MaxLate \in Nat

VARIABLES ledger,  \* [Jobs -> Row]
          late     \* set of statements whose sender no longer waits

ledgerVars == <<ledger, late>>

\* A write: the row it would leave behind.  The revision it expects is the
\* one before row.rev; NoRow has revision -1, so an insert is the write that
\* expects no row.
Statement == [job : Jobs, row : Row]

LedgerInit ==
    /\ ledger = [j \in Jobs |-> NoRow]
    /\ late = {}

Insert(j, q) == [job |-> j, row |-> accept(q)]

CompareAndSwap(j, replacement) ==
    [job |-> j, row |-> [replacement EXCEPT !.rev = replacement.rev + 1]]

\* Mutant: the UPDATE does not compare the revision.
Applies_Unfenced(s) ==
    IF s.row.rev > 0 THEN ledger[s.job].req = s.row.req ELSE ledger[s.job].rev = -1

\* The WHERE clause: the revision and the immutable columns must match.
Applies(s) ==
    /\ ledger[s.job].rev = s.row.rev - 1
    /\ s.row.rev > 0 => ledger[s.job].req = s.row.req

Commit(s) ==
    ledger' = IF Applies(s) THEN [ledger EXCEPT ![s.job] = s.row] ELSE ledger

\* The senders of the statements in S stop waiting; any of them may still run.
Abandon(S) ==
    \E L \in SUBSET S :
        /\ Cardinality(late \cup L) <= MaxLate
        /\ late' = late \cup L

\* The server runs a statement nobody waits for.
RunLate ==
    \E s \in late :
        /\ Commit(s)
        /\ late' = late \ {s}

\* Recovery candidates in (after, through]; 0 stands for "no cursor".
Candidates(after, through) ==
    {j \in Jobs : /\ ledger[j].st \in {"accepted", "retryable", "submitting"}
                  /\ j > after
                  /\ j <= through}

\* ORDER BY job_id LIMIT n
FirstN(S, n) == {j \in S : Cardinality({k \in S : k <= j}) <= n}

\* recovery_head: the greatest candidate id, 0 when there is none.
IsRecoveryHead(h) ==
    LET open == {j \in Jobs : ledger[j].st \in {"accepted", "retryable", "submitting"}}
    IN  \/ h = 0 /\ open = {}
        \/ h \in open /\ \A j \in open : j <= h
=============================================================================
