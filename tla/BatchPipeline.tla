---------------------------- MODULE BatchPipeline ---------------------------
(***************************************************************************)
(* The batch half of the gateway: HTTP requests that admit a job and then  *)
(* execute it, the startup reconciliation of the ledger, the maintenance   *)
(* of the spool, and the worker that drains the backlog, all over one      *)
(* PostgreSQL ledger and one durable spool.                                *)
(*                                                                         *)
(* A task is an HTTP request slot or the drain worker.  Its pc names the   *)
(* await it is about to perform; between two awaits any other task may     *)
(* run.  A POST that admits an actionable job hands its permits to a       *)
(* spawned execution, so the same slot goes on as that execution.          *)
(*                                                                         *)
(* The provider is external.  Recognize makes the request and gets its     *)
(* outcome in one step; `paid' counts the submissions it accepted.         *)
(***************************************************************************)
EXTENDS JobLedger, AudioSpool

CONSTANTS
    Slots,      \* concurrent HTTP requests and the executions they become
    Drainer,    \* the startup backlog worker
    PageLimit,  \* RECOVERY_BATCH_LIMIT and RESUME_PAGE_LIMIT (both 100)
    Faults,     \* which failures the environment may inflict, files growing old among them
    Configurations  \* the sets of requests whose profile a process may be able to serve

ASSUME TaskAssumption  == Drainer \notin Slots
ASSUME PageAssumption  == PageLimit \in Nat \ {0}
ASSUME FaultAssumption == Faults \subseteq {"crash", "ledger", "spool", "disconnect", "age"}
ASSUME ConfigurationAssumption ==
    Configurations \subseteq SUBSET Requests /\ Configurations # {}

VARIABLES
    task,         \* [Tasks -> Task]
    phase,        \* where the process is between start and stop
    head,         \* the frozen recovery head, 0 when there was none
    cursor, more, \* position of the page loop in progress
    page,         \* snapshots of the current page not handled yet
    entries,      \* directory entries maintenance has not looked at yet
    profiles,     \* the requests whose profile this process can serve
    paid,         \* history: accepted provider submissions per job
    swept,        \* history: expired files removed from under an insert
    interrupted   \* history: <<job, revision>> submitting when head was read

bootVars == <<phase, head, cursor, more, page, entries, profiles, interrupted>>
vars == <<ledgerVars, spoolVars, task, bootVars, paid, swept>>

Tasks == Slots \cup {Drainer}
NoJob == 0

AdmissionPc == {"load", "store", "insert", "inserted", "existing", "verify", "discard"}
SnapshotPc  == {"read", "claim"}
InFlightPc  == {"egress", "persist"}
Pc == {"idle", "exec", "cleanup"} \cup AdmissionPc \cup SnapshotPc \cup InFlightPc

Task == [pc   : Pc,
         job  : Jobs \cup {NoJob},
         req  : Requests \cup {NoRequest},
         owns : BOOLEAN,
         snap : Row,
         out  : Outcomes \cup {"none"}]

IdleTask == [pc |-> "idle", job |-> NoJob, req |-> NoRequest, owns |-> FALSE,
             snap |-> NoRow, out |-> "none"]

Snapshot == [job : Jobs, row : Row]

Init ==
    /\ LedgerInit
    /\ SpoolInit
    /\ task = [p \in Tasks |-> IdleTask]
    /\ phase = "down"
    /\ head = 0
    /\ cursor = 0
    /\ more = FALSE
    /\ page = {}
    /\ entries = {}
    /\ profiles = {}
    /\ paid = [j \in Jobs |-> 0]
    /\ swept = {}
    /\ interrupted = {}

-----------------------------------------------------------------------------
(* Task steps *)

At(p, pc) == task[p].pc = pc

Goto(p, pc) == task' = [task EXCEPT ![p].pc = pc]

Finish(p) == task' = [task EXCEPT ![p] = IdleTask]

StartExecution(p, j) ==
    task' = [task EXCEPT ![p] = [IdleTask EXCEPT !.pc = "exec", !.job = j]]

Audio(p) == AudioOf[task[p].req]

\* The statement a task waiting at "insert", "claim" or "persist" sends.
InsertOf(p)  == Insert(task[p].job, task[p].req)
ClaimOf(p)   == CompareAndSwap(task[p].job, begin_submission(task[p].snap))
PersistOf(p) == CompareAndSwap(task[p].job,
                               apply_recognition_outcome(task[p].snap, task[p].out))

-----------------------------------------------------------------------------
(* POST: BatchCoordinator::admit, then spawn_execution.  A request for a   *)
(* profile without a recognizer is refused before it gets here.            *)

Post(p, j, q) ==
    /\ phase = "serving"
    /\ q \in profiles
    /\ At(p, "idle")
    /\ task' = [task EXCEPT ![p] = [IdleTask EXCEPT !.pc = "load", !.job = j, !.req = q]]
    /\ UNCHANGED <<ledgerVars, spoolVars, bootVars, paid, swept>>

\* classify_existing, and the executions POST starts: only for a replay of
\* the same request, and only when the snapshot is actionable.
Settle(p, row) ==
    IF row.req = task[p].req /\ Actionable(row.st)
    THEN StartExecution(p, task[p].job)
    ELSE Finish(p)

\* resolve_race: a loser that created another file removes it first.
ResolveRace(p, row) ==
    IF task[p].owns /\ Audio(p) # AudioOf[row.req]
    THEN task' = [task EXCEPT ![p].pc = "discard", ![p].snap = row]
    ELSE Settle(p, row)

AdmitLoad(p) ==
    /\ At(p, "load")
    /\ IF ledger[task[p].job].st = "absent"
       THEN Goto(p, "store")
       ELSE Settle(p, ledger[task[p].job])
    /\ UNCHANGED <<ledgerVars, spoolVars, bootVars, paid, swept>>

\* A statement on the wire that would make a job rely on the file.
Awaited(j, a) ==
    /\ ledger[j].st = "absent"
    /\ \E s \in late : s.job = j /\ AudioOf[s.row.req] = a

\* An upload of the same audio is under way, or its statement still is: each
\* is over long before the 24 hours of SPOOL_ORPHAN_RETENTION are.
JustUploaded(j, a) ==
    \/ Awaited(j, a)
    \/ \E p \in Slots : /\ task[p].pc \in {"insert", "inserted", "existing", "verify", "discard"}
                        /\ task[p].job = j /\ Audio(p) = a

AdmitStore(p) ==
    /\ At(p, "store")
    /\ \E owns, aged \in BOOLEAN :
        /\ Store(task[p].job, Audio(p), owns, aged)
        /\ aged => "age" \in Faults /\ ~JustUploaded(task[p].job, Audio(p))
        /\ task' = [task EXCEPT ![p].pc = "insert", ![p].owns = owns]
    /\ swept' = swept \ {<<task[p].job, Audio(p)>>}
    /\ UNCHANGED <<ledgerVars, bootVars, paid>>

AdmitStoreRejected(p) ==
    /\ At(p, "store")
    /\ \/ StoreRefused(task[p].job, Audio(p))
       \/ StoreConflict(task[p].job, Audio(p))
       \/ "spool" \in Faults /\ StoreFails(task[p].job, Audio(p))
    /\ Finish(p)
    /\ UNCHANGED <<ledgerVars, bootVars, paid, swept>>

AdmitInsert(p) ==
    /\ At(p, "insert")
    /\ Commit(InsertOf(p))
    /\ Goto(p, IF Applies(InsertOf(p)) THEN "inserted" ELSE "existing")
    /\ UNCHANGED <<late, spoolVars, bootVars, paid, swept>>

AdmitInsertFails(p) ==
    /\ At(p, "insert")
    /\ "ledger" \in Faults
    /\ Abandon({InsertOf(p)})
    /\ Goto(p, "verify")
    /\ UNCHANGED <<ledger, spoolVars, bootVars, paid, swept>>

\* insert_inner reads the row back in a second statement; what it reads may
\* already have moved on.
AdmitInserted(p) ==
    /\ At(p, "inserted")
    /\ IF Actionable(ledger[task[p].job].st)
       THEN StartExecution(p, task[p].job)
       ELSE Finish(p)
    /\ UNCHANGED <<ledgerVars, spoolVars, bootVars, paid, swept>>

AdmitExisting(p) ==
    /\ At(p, "existing")
    /\ ResolveRace(p, ledger[task[p].job])
    /\ UNCHANGED <<ledgerVars, spoolVars, bootVars, paid, swept>>

\* The insert failed: look whether the row is there after all.
AdmitVerify(p) ==
    /\ At(p, "verify")
    /\ IF ledger[task[p].job].st # "absent"
       THEN ResolveRace(p, ledger[task[p].job])
       ELSE IF task[p].owns THEN Goto(p, "discard") ELSE Finish(p)
    /\ UNCHANGED <<ledgerVars, spoolVars, bootVars, paid, swept>>

AdmitDiscard(p) ==
    /\ At(p, "discard")
    /\ Remove(task[p].job, Audio(p))
    /\ Settle(p, task[p].snap)
    /\ UNCHANGED <<ledgerVars, bootVars, paid, swept>>

AdmitDiscardFails(p) ==
    /\ At(p, "discard")
    /\ "spool" \in Faults
    /\ RemoveFails(task[p].job, Audio(p))
    /\ Finish(p)
    /\ UNCHANGED <<ledgerVars, bootVars, paid, swept>>

\* The read-back of an insert fails like the insert; any other failed read
\* ends the request or the execution.
ReadFails(p) ==
    /\ "ledger" \in Faults
    /\ \/ /\ task[p].pc \in {"inserted", "existing"}
          /\ Goto(p, "verify")
       \/ /\ task[p].pc \in {"load", "verify", "exec"}
          /\ Finish(p)
    /\ UNCHANGED <<ledgerVars, spoolVars, bootVars, paid, swept>>

\* The client goes away: the handler future is dropped at its await.
Disconnect(p) ==
    /\ "disconnect" \in Faults
    /\ task[p].pc \in AdmissionPc
    /\ Abandon(IF At(p, "insert") THEN {InsertOf(p)} ELSE {})
    /\ Finish(p)
    /\ UNCHANGED <<ledger, spoolVars, bootVars, paid, swept>>

-----------------------------------------------------------------------------
(* BatchCoordinator::execute_with_cleanup_report *)

ExecuteLoad(p) ==
    /\ At(p, "exec")
    /\ IF Actionable(ledger[task[p].job].st)
       THEN task' = [task EXCEPT ![p].pc = "read", ![p].snap = ledger[task[p].job]]
       ELSE Finish(p)
    /\ UNCHANGED <<ledgerVars, spoolVars, bootVars, paid, swept>>

\* The audio is read, and the transition computed, before the claim.
ExecuteRead(p) ==
    /\ At(p, "read")
    /\ IF /\ <<task[p].job, AudioOf[task[p].snap.req]>> \in files
          /\ CanBeginSubmission(task[p].snap)
       THEN Goto(p, "claim")
       ELSE Finish(p)
    /\ UNCHANGED <<ledgerVars, spoolVars, bootVars, paid, swept>>

ExecuteReadFails(p) ==
    /\ At(p, "read")
    /\ "spool" \in Faults
    /\ Finish(p)
    /\ UNCHANGED <<ledgerVars, spoolVars, bootVars, paid, swept>>

\* Mutant: the audio is recognised on the strength of the snapshot, claimed
\* or not.
ExecuteClaim_Ignored(p) ==
    /\ At(p, "claim")
    /\ Commit(ClaimOf(p))
    /\ task' = [task EXCEPT ![p].pc = "egress", ![p].snap = ClaimOf(p).row]
    /\ UNCHANGED <<late, spoolVars, bootVars, paid, swept>>

ExecuteClaim(p) ==
    /\ At(p, "claim")
    /\ Commit(ClaimOf(p))
    /\ IF Applies(ClaimOf(p))
       THEN task' = [task EXCEPT ![p].pc = "egress", ![p].snap = ClaimOf(p).row]
       ELSE Finish(p)
    /\ UNCHANGED <<late, spoolVars, bootVars, paid, swept>>

ExecuteClaimFails(p) ==
    /\ At(p, "claim")
    /\ "ledger" \in Faults
    /\ Abandon({ClaimOf(p)})
    /\ Finish(p)
    /\ UNCHANGED <<ledger, spoolVars, bootVars, paid, swept>>

\* The provider call.  An outcome tells the truth about acceptance.
Recognize(p) ==
    /\ At(p, "egress")
    /\ \E out \in Outcomes : \E n \in AcceptedBy(out) :
        /\ task' = [task EXCEPT ![p].pc = "persist", ![p].out = out]
        /\ paid' = [paid EXCEPT ![task[p].job] = @ + n]
    /\ UNCHANGED <<ledgerVars, spoolVars, bootVars, swept>>

\* PostEgressConflict when the row is no longer the claimed one.
ExecutePersist(p) ==
    /\ At(p, "persist")
    /\ Commit(PersistOf(p))
    /\ IF Applies(PersistOf(p)) /\ is_terminal(PersistOf(p).row.st)
       THEN task' = [task EXCEPT ![p].pc = "cleanup", ![p].snap = PersistOf(p).row,
                                 ![p].out = "none"]
       ELSE Finish(p)
    /\ UNCHANGED <<late, spoolVars, bootVars, paid, swept>>

\* PostEgressStore: the outcome is lost to this process and never retried.
ExecutePersistFails(p) ==
    /\ At(p, "persist")
    /\ "ledger" \in Faults
    /\ Abandon({PersistOf(p)})
    /\ Finish(p)
    /\ UNCHANGED <<ledger, spoolVars, bootVars, paid, swept>>

ExecuteCleanup(p) ==
    /\ At(p, "cleanup")
    /\ \/ Remove(task[p].job, AudioOf[task[p].snap.req])
       \/ "spool" \in Faults /\ RemoveFails(task[p].job, AudioOf[task[p].snap.req])
    /\ Finish(p)
    /\ UNCHANGED <<ledgerVars, bootVars, paid, swept>>

-----------------------------------------------------------------------------
(* Startup: reconcile_startup, then DurableFileSpool::reconcile *)

\* Mutant: a page that is exactly full counts as the last one.
ListPage_StopsWhenFull ==
    LET ids == FirstN(Candidates(cursor, head), PageLimit)
    IN  /\ page' = {[job |-> j, row |-> ledger[j]] : j \in ids}
        /\ more' = (Cardinality(ids) > PageLimit)
        /\ cursor' = cursor

\* A page loop reads the next page: at most PageLimit candidates beyond the
\* cursor.  A full page means there may be another one.
ListPage ==
    LET ids == FirstN(Candidates(cursor, head), PageLimit)
    IN  /\ page' = {[job |-> j, row |-> ledger[j]] : j \in ids}
        /\ more' = (Cardinality(ids) >= PageLimit)
        /\ cursor' \in IF Cardinality(ids) >= PageLimit
                      THEN {c \in ids : \A j \in ids : j <= c}
                      ELSE {cursor}

\* The snapshots of a page are handled in job-id order.
IsNext(s) == \A t \in page : s.job <= t.job

\* The process ends before it serves; its memory is gone.
Stop ==
    /\ phase' = "down"
    /\ head' = 0
    /\ cursor' = 0
    /\ more' = FALSE
    /\ page' = {}
    /\ entries' = {}
    /\ profiles' = {}
    /\ interrupted' = {}

\* A process starts with the providers it is configured for.
Boot ==
    /\ phase = "down"
    /\ phase' = "recover"
    /\ head' \in {h \in Jobs \cup {0} : IsRecoveryHead(h)}
    /\ more' = (head' # 0)
    /\ profiles' \in Configurations
    /\ interrupted' = {<<j, ledger[j].rev>> :
                          j \in {k \in Jobs : ledger[k].st = "submitting"}}
    /\ UNCHANGED <<ledgerVars, spoolVars, task, cursor, page, entries, paid, swept>>

\* There is a backlog and no provider for batches at all
\* (NO_BATCH_PROFILE_CONFIGURED).
RecoverRefuses ==
    /\ phase = "recover"
    /\ more /\ profiles = {}
    /\ Stop
    /\ UNCHANGED <<ledgerVars, spoolVars, task, paid, swept>>

RecoverPage ==
    /\ phase = "recover"
    /\ page = {}
    /\ more /\ profiles # {}
    /\ ListPage
    /\ UNCHANGED <<ledgerVars, spoolVars, task, phase, head, entries, profiles, paid, swept, interrupted>>

RecoveryOf(s) == CompareAndSwap(s.job, recover_interrupted_submission(s.row))

\* reconcile_candidates, one row: a submitting row is swapped to unknown and
\* its audio goes next; an actionable row, or a lost swap, is only reported.
RecoverRow ==
    /\ phase = "recover"
    /\ \E s \in page :
        /\ IsNext(s)
        /\ IF s.row.st = "submitting" THEN Commit(RecoveryOf(s)) ELSE UNCHANGED ledger
        /\ IF s.row.st = "submitting" /\ Applies(RecoveryOf(s))
           THEN phase' = "recover_remove" /\ UNCHANGED page
           ELSE page' = page \ {s} /\ UNCHANGED phase
    /\ UNCHANGED <<late, spoolVars, task, head, cursor, more, entries, profiles, paid, swept, interrupted>>

RecoverRemove ==
    /\ phase = "recover_remove"
    /\ \E s \in page :
        /\ IsNext(s)
        /\ Remove(s.job, AudioOf[s.row.req])
        /\ page' = page \ {s}
    /\ phase' = "recover"
    /\ UNCHANGED <<ledgerVars, task, head, cursor, more, entries, profiles, paid, swept, interrupted>>

\* mark_startup_reconciled, and maintenance lists the spool directory.
RecoverDone ==
    /\ phase = "recover"
    /\ page = {}
    /\ ~more
    /\ phase' = "maintain"
    /\ entries' = files \cup {<<j, NoAudio>> : j \in {k \in Jobs : claims[k] # NoAudio}}
    /\ UNCHANGED <<ledgerVars, spoolVars, task, head, cursor, more, page, profiles, paid, swept, interrupted>>

\* A file may be found older than the retention unless an insert that relies on
\* it is on the wire, which 24 hours outlive; but the file may have been old
\* when that upload found it.
MayBeExpired(e) == e \in stale \/ ~Awaited(e[1], e[2])

\* One directory entry: <<j, NoAudio>> is the identity claim of j, any other
\* pair is an audio file.  A claim without audio goes once it has expired; it
\* may be of any age.
MaintainClaim(e) ==
    /\ e[2] = NoAudio
    /\ files' = files /\ stale' = stale
    /\ \/ claims' = claims
       \/ /\ \A f \in files : f[1] # e[1]
          /\ claims' = [claims EXCEPT ![e[1]] = NoAudio]
    /\ swept' = swept

\* Mutant: audio without a row goes at once, whatever its age.
Removable_AtOnce(e) ==
    LET row == ledger[e[1]]
    IN  row.st = "absent" \/ (is_terminal(row.st) /\ AudioOf[row.req] = e[2])

\* Terminal audio goes, and audio without a row once it has expired.
Removable(e) ==
    LET row == ledger[e[1]]
    IN  \/ row.st = "absent" /\ MayBeExpired(e)
        \/ is_terminal(row.st) /\ AudioOf[row.req] = e[2]

Preserved(e) ==
    LET row == ledger[e[1]]
    IN  \/ row.st = "absent"
        \/ row.st \in Status /\ ~is_terminal(row.st) /\ AudioOf[row.req] = e[2]

\* Whether the file went from under an insert that relies on it.
NoteSwept(e) ==
    swept' = IF e \in stale /\ Awaited(e[1], e[2]) THEN swept \cup {e} ELSE swept

\* Mutant: the retention protects the audio of finished jobs too.
MaintainFile_RetainsAll(e) ==
    /\ e[2] # NoAudio
    /\ \/ Removable(e) /\ MayBeExpired(e) /\ Remove(e[1], e[2]) /\ NoteSwept(e)
       \/ (Preserved(e) \/ Removable(e)) /\ UNCHANGED <<spoolVars, swept>>

MaintainFile(e) ==
    /\ e[2] # NoAudio
    /\ \/ Removable(e) /\ Remove(e[1], e[2]) /\ NoteSwept(e)
       \/ Preserved(e) /\ UNCHANGED <<spoolVars, swept>>

MaintainEntry ==
    /\ phase = "maintain"
    /\ \E e \in entries :
        /\ MaintainClaim(e) \/ MaintainFile(e)
        /\ entries' = entries \ {e}
    /\ UNCHANGED <<ledgerVars, task, phase, head, cursor, more, page, profiles, paid, interrupted>>

\* A file of a job whose row names other audio stops the process.
Misplaced(e) ==
    /\ e[2] # NoAudio
    /\ ledger[e[1]].st # "absent"
    /\ AudioOf[ledger[e[1]].req] # e[2]

MaintainRefuses ==
    /\ phase = "maintain"
    /\ \E e \in entries : Misplaced(e)
    /\ Stop
    /\ UNCHANGED <<ledgerVars, spoolVars, task, paid, swept>>

\* Mutant: the drain worker goes on from the cursor recovery ended at.
Serve_KeepsCursor ==
    /\ phase = "maintain"
    /\ entries = {}
    /\ phase' = "serving"
    /\ more' = (head # 0)
    /\ UNCHANGED <<ledgerVars, spoolVars, task, head, cursor, page, entries, profiles, paid, swept, interrupted>>

\* bind, start_startup_recovery, serve
Serve ==
    /\ phase = "maintain"
    /\ entries = {}
    /\ phase' = "serving"
    /\ cursor' = 0
    /\ more' = (head # 0)
    /\ UNCHANGED <<ledgerVars, spoolVars, task, head, page, entries, profiles, paid, swept, interrupted>>

\* Listing a page, swapping a row or loading the row of a file fails.
StartupLedgerFails ==
    /\ "ledger" \in Faults
    /\ \/ /\ phase = "recover" /\ page = {} /\ more
          /\ UNCHANGED late
       \/ /\ phase = "recover"
          /\ \E s \in page : /\ IsNext(s)
                             /\ s.row.st = "submitting"
                             /\ Abandon({RecoveryOf(s)})
       \/ /\ phase = "maintain"
          /\ \E e \in entries : e[2] # NoAudio
          /\ UNCHANGED late
    /\ Stop
    /\ UNCHANGED <<ledger, spoolVars, task, paid, swept>>

\* A removal, or reading the directory, fails.
StartupSpoolFails ==
    /\ "spool" \in Faults
    /\ \/ /\ phase = "recover_remove"
          /\ \E s \in page : IsNext(s) /\ RemoveFails(s.job, AudioOf[s.row.req])
          /\ swept' = swept
       \/ /\ phase = "maintain"
          /\ UNCHANGED <<spoolVars, swept>>
       \/ /\ phase = "maintain"
          /\ \E e \in entries : /\ e[2] # NoAudio /\ Removable(e)
                               /\ RemoveFails(e[1], e[2]) /\ NoteSwept(e)
    /\ Stop
    /\ UNCHANGED <<ledgerVars, task, paid>>

-----------------------------------------------------------------------------
(* drain_backlog: the same page loop again, executing each job in turn *)

DrainPage ==
    /\ phase = "serving"
    /\ At(Drainer, "idle")
    /\ page = {}
    /\ more
    /\ \/ ListPage
       \/ /\ "ledger" \in Faults
          /\ more' = FALSE
          /\ UNCHANGED <<page, cursor>>
    /\ UNCHANGED <<ledgerVars, spoolVars, task, phase, head, entries, profiles, paid, swept, interrupted>>

\* execute_actionable: a job of a profile this process does not know, or has no
\* recognizer for, is passed over.
DrainNext ==
    /\ phase = "serving"
    /\ At(Drainer, "idle")
    /\ \E s \in page :
        /\ IsNext(s)
        /\ IF s.row.req \in profiles THEN StartExecution(Drainer, s.job) ELSE UNCHANGED task
        /\ page' = page \ {s}
    /\ UNCHANGED <<ledgerVars, spoolVars, phase, head, cursor, more, entries, profiles, paid, swept, interrupted>>

\* The process dies at any moment; statements on the wire may still run.
Crash ==
    /\ "crash" \in Faults
    /\ phase # "down"
    /\ Abandon(    {InsertOf(p)  : p \in {t \in Tasks : At(t, "insert")}}
              \cup {ClaimOf(p)   : p \in {t \in Tasks : At(t, "claim")}}
              \cup {PersistOf(p) : p \in {t \in Tasks : At(t, "persist")}}
              \cup {RecoveryOf(s) : s \in {t \in page : /\ phase = "recover"
                                                       /\ IsNext(t)
                                                       /\ t.row.st = "submitting"}})
    /\ task' = [p \in Tasks |-> IdleTask]
    /\ Stop
    /\ UNCHANGED <<ledger, spoolVars, paid, swept>>

LateStatement ==
    /\ RunLate
    /\ UNCHANGED <<spoolVars, task, bootVars, paid, swept>>

-----------------------------------------------------------------------------
AdmitStep(p) ==
    \/ AdmitLoad(p) \/ AdmitStore(p) \/ AdmitStoreRejected(p)
    \/ AdmitInsert(p) \/ AdmitInsertFails(p) \/ AdmitInserted(p) \/ AdmitExisting(p)
    \/ AdmitVerify(p) \/ AdmitDiscard(p) \/ AdmitDiscardFails(p)

ExecuteStep(p) ==
    \/ ExecuteLoad(p) \/ ExecuteRead(p) \/ ExecuteReadFails(p)
    \/ ExecuteClaim(p) \/ ExecuteClaimFails(p)
    \/ Recognize(p)
    \/ ExecutePersist(p) \/ ExecutePersistFails(p) \/ ExecuteCleanup(p)

StartupStep ==
    \/ RecoverRefuses \/ RecoverPage \/ RecoverRow \/ RecoverRemove \/ RecoverDone
    \/ MaintainEntry \/ MaintainRefuses \/ Serve
    \/ StartupLedgerFails \/ StartupSpoolFails

DrainStep == DrainPage \/ DrainNext

Next ==
    \/ \E p \in Slots : \/ \E j \in Jobs, q \in Requests : Post(p, j, q)
                        \/ AdmitStep(p) \/ Disconnect(p)
    \/ \E p \in Tasks : ExecuteStep(p) \/ ReadFails(p)
    \/ Boot \/ StartupStep \/ DrainStep \/ Crash \/ LateStatement

Spec == Init /\ [][Next]_vars

\* The runtime polls every spawned task and the startup sequence, and every
\* await of theirs is bounded (statement, provider and file deadlines), so
\* none of them stands still for ever.  Nothing makes clients post, or the
\* supervisor restart the process.
FairSpec ==
    /\ Spec
    /\ \A p \in Tasks : WF_vars(AdmitStep(p) \/ ExecuteStep(p))
    /\ WF_vars(StartupStep)
    /\ WF_vars(DrainStep)

-----------------------------------------------------------------------------
(* Properties *)

\* A task that is not idle has a job, and one in the middle of an admission or
\* an execution carries what its next step needs.
GoodTask ==
    {t \in Task :
        /\ t.pc # "idle" => t.job \in Jobs
        /\ t.pc \in AdmissionPc => t.req \in Requests
        /\ t.pc = "claim" => CanBeginSubmission(t.snap)
        /\ t.pc = "persist" => t.out \in Outcomes}

\* Every variable has its type, and every task is one the code can be in.
TypeOK ==
    /\ ledger \in [Jobs -> Row]
    /\ late \subseteq Statement
    /\ files \subseteq Jobs \X Audios
    /\ claims \in [Jobs -> Audios \cup {NoAudio}]
    /\ stale \subseteq files
    /\ swept \subseteq Jobs \X Audios
    /\ profiles \subseteq Requests
    /\ task \in [Tasks -> GoodTask]
    /\ phase \in {"down", "recover", "recover_remove", "maintain", "serving"}
    /\ head \in Jobs \cup {0}
    /\ cursor \in Jobs \cup {0}
    /\ more \in BOOLEAN
    /\ page \subseteq Snapshot
    /\ entries \subseteq Jobs \X (Audios \cup {NoAudio})
    /\ paid \in [Jobs -> Nat]
    /\ interrupted \subseteq Jobs \X (Nat \cup {-1})

\* No job is ever paid for twice: across concurrent and replayed requests, the
\* drain worker, crashes, restarts and lost replies, the provider accepts at
\* most one submission of it (execute_with_cleanup_report claims before egress
\* and never retries an uncertain one).
PaidAtMostOnce == \A j \in Jobs : paid[j] <= 1

\* From the claim to the persisted outcome a task owns its row: nobody else
\* moves it, so PostEgressConflict cannot happen within one process, and no
\* two tasks are in flight for one job.
InFlightOwnsRow ==
    \A p \in Tasks : task[p].pc \in InFlightPc =>
        /\ ledger[task[p].job] = task[p].snap
        /\ task[p].snap.st = "submitting"
        /\ \A t \in Tasks : (task[t].pc \in InFlightPc /\ task[t].job = task[p].job) => t = p

\* Once startup reconciliation is over, no submission that was in flight when
\* the head was frozen is still submitting (reconcile_startup walks every page
\* up to the head before it marks the process reconciled).
InterruptedFenced ==
    phase \in {"maintain", "serving"} =>
        \A i \in interrupted : ledger[i[1]].rev # i[2]

\* A job that may still be submitted has its audio in the spool, under its own
\* identity claim (admit removes only audio no row refers to; maintenance
\* preserves the audio of live rows), with one exception: an upload that found
\* the file there relies on a file that may be a day old, and maintenance
\* takes it if the insert runs only after a restart.
AcceptedAudioKept ==
    \A j \in Jobs : Actionable(ledger[j].st) =>
        \/ /\ <<j, AudioOf[ledger[j].req]>> \in files
           /\ claims[j] = AudioOf[ledger[j].req]
        \/ <<j, AudioOf[ledger[j].req]>> \in swept

\* When the process starts to serve, no audio of a finished job is left in the
\* spool, whichever cleanup failed or was cut short before (maintenance runs
\* over the whole directory after recovery).
TerminalAudioReclaimed ==
    (phase = "maintain" /\ entries = {}) =>
        \A f \in files : ~is_terminal(ledger[f[1]].st)

\* Startup maintenance never meets a file it has to give up on.
StartupNeverRefused ==
    phase = "maintain" => \A f \in files : ~Misplaced(f)

\* A job at or below the frozen head that a starting process finds accepted,
\* with its audio, is submitted if the process has a recognizer for it,
\* whichever other jobs it has none for, or the process stops
\* (reconcile_startup ends, and drain_backlog visits every page up to the head
\* and passes over what it cannot execute).
BacklogResumes ==
    \A j \in Jobs :
        ( /\ phase = "recover"
          /\ j <= head
          /\ ledger[j].st = "accepted" /\ ledger[j].req \in profiles
          /\ <<j, AudioOf[ledger[j].req]>> \in files )
        ~> (ledger[j].st # "accepted" \/ phase = "down")

\* A snapshot read earlier: while the revision is the same, so is the row.
Known(j, row) ==
    /\ row.rev <= ledger[j].rev
    /\ row.rev = ledger[j].rev => row = ledger[j]

\* A statement computed from an earlier state is outdated by its revision, or
\* the transition it makes is one its sender is entitled to.
Lawful(s) ==
    LET row == ledger[s.job]
    IN  /\ s.row.rev \in 0 .. row.rev + 1
        /\ s.row.st \in Status
        /\ row.rev = s.row.rev - 1 =>
            CASE s.row.st = "accepted"   -> row.st = "absent"
              [] s.row.st = "submitting" -> Actionable(row.st)
              [] OTHER -> /\ row.st = "submitting"
                          /\ s.row.st = "retryable" => paid[s.job] = 0
                          /\ s.row.st = "completed" => paid[s.job] = 1

\* A statement nobody waits for is lawful, and while it may still apply no
\* task is in flight for its job.
LateSafe(s) ==
    /\ Lawful(s)
    /\ ledger[s.job].rev = s.row.rev - 1 =>
        \A p \in Tasks : task[p].pc \in InFlightPc => task[p].job # s.job

\* What a row says about money.
RowTruth ==
    \A j \in Jobs :
        /\ paid[j] \in {0, 1}
        /\ ledger[j].rev = -1 <=> ledger[j].st = "absent"
        /\ ledger[j].st \in {"absent", "accepted", "retryable"} => paid[j] = 0
        /\ ledger[j].st = "completed" => paid[j] = 1

\* Why a job is never paid for twice: a row that may be submitted again has
\* cost nothing; every snapshot, page and unanswered statement is either
\* outdated by its revision or still describes its row; a task between claim
\* and persist owns its row and knows what it has cost; and nothing runs
\* while the process is not serving (the compare-and-swap discipline of
\* admit, execute_with_cleanup_report and reconcile_candidates).
FenceInv ==
    /\ RowTruth
    /\ InFlightOwnsRow
    /\ \A p \in Tasks :
        /\ task[p].pc \in SnapshotPc =>
                Actionable(task[p].snap.st) /\ Known(task[p].job, task[p].snap)
        /\ At(p, "egress") => paid[task[p].job] = 0
        /\ At(p, "persist") => paid[task[p].job] \in AcceptedBy(task[p].out)
    /\ \A s \in late : LateSafe(s)
    /\ \A s \in page : Known(s.job, s.row)
    /\ phase # "serving" => \A p \in Tasks : At(p, "idle")

\* What the promise sees of a job's state.
VerdictOf(st) == IF Actionable(st) THEN "waiting" ELSE st

\* The pipeline implements the promise made about every job: admitted once,
\* paid for at most once, retried only while it has cost nothing, and a
\* verdict is final (the transitions of BatchJob, reached only through the
\* compare-and-swap of the ledger).
Promise == INSTANCE BatchPromise WITH
    verdict <- [j \in Jobs |-> VerdictOf(ledger[j].st)]

KeepsPromise == Promise!Spec
=============================================================================
