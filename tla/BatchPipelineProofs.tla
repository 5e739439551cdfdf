------------------------ MODULE BatchPipelineProofs -------------------------
(***************************************************************************)
(* What TLAPS proves about BatchPipeline and BatchObserved for any number  *)
(* of jobs, requests and slots, any page and quota limit and any set of    *)
(* faults: the types, the fence invariant that keeps a job from being paid *)
(* for twice, the refinement of BatchPromise, what startup leaves behind   *)
(* it, the audio of live rows, and the honesty of the effect reports.      *)
(***************************************************************************)
EXTENDS BatchObserved, FiniteSetTheorems, WellFoundedInduction, TLAPS

(***************************************************************************)
(* Types of what the model is built from                                   *)
(***************************************************************************)

\* The default row and task have their types.
LEMMA DefaultTypes ==
    /\ NoRow \in Row
    /\ IdleTask \in Task
BY AttemptAssumption DEF NoRow, Row, IdleTask, Task, Pc, NoJob, Status

\* Every statement the tasks and the recovery send is well formed.
LEMMA StatementTypes ==
    /\ \A j \in Jobs, q \in Requests : Insert(j, q) \in Statement
    /\ \A j \in Jobs, row \in Row : CanBeginSubmission(row) =>
            CompareAndSwap(j, begin_submission(row)) \in Statement
    /\ \A j \in Jobs, row \in Row, out \in Outcomes :
            CompareAndSwap(j, apply_recognition_outcome(row, out)) \in Statement
    /\ \A s \in Snapshot : RecoveryOf(s) \in Statement
<1>1. \A j \in Jobs, q \in Requests : Insert(j, q) \in Statement
  BY AttemptAssumption DEF Insert, accept, Statement, Row, Status
<1>2. \A j \in Jobs, row \in Row : CompareAndSwap(j, row) \in Statement
  BY DEF CompareAndSwap, Statement, Row
<1>3. \A row \in Row : CanBeginSubmission(row) => begin_submission(row) \in Row
  <2> SUFFICES ASSUME NEW row \in Row, row.attempt < MaxAttempt
               PROVE  begin_submission(row) \in Row
    BY DEF CanBeginSubmission
  <2>1. row.attempt + 1 \in 0 .. MaxAttempt
    BY AttemptAssumption DEF Row
  <2> QED BY <2>1 DEF begin_submission, Row, Status
<1>4. \A row \in Row, out \in Outcomes : apply_recognition_outcome(row, out) \in Row
  BY DEF apply_recognition_outcome, Row, Status, Outcomes
<1>5. \A row \in Row : recover_interrupted_submission(row) \in Row
  BY DEF recover_interrupted_submission, Row, Status
<1> QED BY <1>1, <1>2, <1>3, <1>4, <1>5 DEF RecoveryOf, Snapshot

\* A committed statement leaves a well-formed ledger.
LEMMA CommitType ==
    ASSUME ledger \in [Jobs -> Row], NEW s \in Statement, Commit(s)
    PROVE  ledger' \in [Jobs -> Row]
BY DEF Commit, Statement

\* An abandoned set of statements leaves a well-formed `late'.
LEMMA AbandonType ==
    ASSUME late \subseteq Statement, NEW S, S \subseteq Statement, Abandon(S)
    PROVE  late' \subseteq Statement
BY DEF Abandon

\* The spool operations keep the types of the spool.
LEMMA SpoolTypes ==
    ASSUME files \subseteq Jobs \X Audios, claims \in [Jobs -> Audios \cup {NoAudio}],
           stale \subseteq files, NEW j \in Jobs, NEW a
    PROVE  /\ Remove(j, a) \/ RemoveFails(j, a) =>
                /\ files' \subseteq Jobs \X Audios
                /\ claims' \in [Jobs -> Audios \cup {NoAudio}]
                /\ stale' \subseteq files'
           /\ ( /\ a \in Audios
                /\ \/ \E owns, aged \in BOOLEAN : Store(j, a, owns, aged)
                   \/ StoreRefused(j, a) \/ StoreConflict(j, a) \/ StoreFails(j, a) ) =>
                /\ files' \subseteq Jobs \X Audios
                /\ claims' \in [Jobs -> Audios \cup {NoAudio}]
                /\ stale' \subseteq files'
BY DEF Remove, RemoveFails, Store, StoreRefused, StoreConflict, StoreFails, spoolVars

(***************************************************************************)
(* Type correctness                                                        *)
(***************************************************************************)

\* The ways a step changes one task, each of which leaves good tasks.
LEMMA TaskTypes ==
    ASSUME TypeOK, NEW p \in Tasks
    PROVE  /\ Finish(p) => task' \in [Tasks -> GoodTask]
           /\ \A j \in Jobs : StartExecution(p, j) => task' \in [Tasks -> GoodTask]
           /\ task[p].pc \in AdmissionPc =>
                /\ \A row \in Row : Settle(p, row) \/ ResolveRace(p, row) =>
                        task' \in [Tasks -> GoodTask]
                /\ \A pc \in AdmissionPc : Goto(p, pc) => task' \in [Tasks -> GoodTask]
<1> USE DEF TypeOK
<1>1. IdleTask \in GoodTask
  BY DefaultTypes DEF IdleTask, GoodTask, AdmissionPc
<1>2. Finish(p) => task' \in [Tasks -> GoodTask]
  BY <1>1 DEF Finish
<1>3. ASSUME NEW j \in Jobs, StartExecution(p, j)
      PROVE  task' \in [Tasks -> GoodTask]
  <2>1. [IdleTask EXCEPT !.pc = "exec", !.job = j] \in GoodTask
    BY DefaultTypes DEF IdleTask, GoodTask, Task, Pc, AdmissionPc
  <2> QED BY <1>3, <2>1 DEF StartExecution
<1>4. ASSUME task[p].pc \in AdmissionPc, NEW pc \in AdmissionPc, Goto(p, pc)
      PROVE  task' \in [Tasks -> GoodTask]
  <2>1. [task[p] EXCEPT !.pc = pc] \in GoodTask
    BY <1>4 DEF GoodTask, Task, Pc, AdmissionPc
  <2> QED BY <1>4, <2>1 DEF Goto
<1>5. ASSUME task[p].pc \in AdmissionPc, NEW row \in Row, Settle(p, row)
      PROVE  task' \in [Tasks -> GoodTask]
  <2>1. task[p].job \in Jobs
    BY <1>5 DEF GoodTask, AdmissionPc
  <2> QED BY <1>2, <1>3, <1>5, <2>1 DEF Settle
<1>6. ASSUME task[p].pc \in AdmissionPc, NEW row \in Row, ResolveRace(p, row)
      PROVE  task' \in [Tasks -> GoodTask]
  <2>1. [task[p] EXCEPT !.pc = "discard", !.snap = row] \in GoodTask
    <3> DEFINE t == [task[p] EXCEPT !.pc = "discard", !.snap = row]
    <3>1. t \in Task
      BY ZenonT(60) DEF GoodTask, Task, Pc, AdmissionPc
    <3>2. t.pc = "discard" /\ t.job \in Jobs /\ t.req \in Requests
      BY <1>6 DEF GoodTask, Task, AdmissionPc
    <3> HIDE DEF t
    <3>3. t \in GoodTask
      BY <3>1, <3>2 DEF GoodTask
    <3> QED BY <3>3 DEF t
  <2>2. CASE task' = [task EXCEPT ![p].pc = "discard", ![p].snap = row]
    BY <2>1, <2>2
  <2>3. CASE Settle(p, row)
    BY <1>5, <1>6, <2>3
  <2> QED BY <1>6, <2>2, <2>3 DEF ResolveRace
<1> QED BY <1>2, <1>3, <1>4, <1>5, <1>6

\* A step that admits keeps the types.
LEMMA AdmitTypes ==
    ASSUME TypeOK, NEW p \in Slots,
           \/ \E j \in Jobs, q \in Requests : Post(p, j, q)
           \/ AdmitStep(p) \/ Disconnect(p)
    PROVE  TypeOK'
<1> p \in Tasks
  BY DEF Tasks
<1> USE DEF TypeOK
<1>1. task[p].pc \in AdmissionPc =>
        task[p].job \in Jobs /\ task[p].req \in Requests /\ Audio(p) \in Audios
           /\ InsertOf(p) \in Statement /\ ledger[task[p].job] \in Row
           /\ task[p].snap \in Row
  BY RequestAssumption, StatementTypes DEF GoodTask, Task, AdmissionPc, Audio, InsertOf
<1>2. ASSUME NEW j \in Jobs, NEW q \in Requests, Post(p, j, q)
      PROVE  TypeOK'
  <2>1. [IdleTask EXCEPT !.pc = "load", !.job = j, !.req = q] \in GoodTask
    BY DefaultTypes DEF IdleTask, GoodTask, Task, Pc, AdmissionPc
  <2> QED BY <1>2, <2>1 DEF Post, ledgerVars, spoolVars, bootVars
<1>3. CASE AdmitLoad(p)
  BY <1>1, <1>3, TaskTypes DEF AdmitLoad, At, AdmissionPc, ledgerVars, spoolVars, bootVars
<1>4. CASE AdmitStore(p)
  <2>1. PICK owns, aged \in BOOLEAN :
            /\ Store(task[p].job, Audio(p), owns, aged)
            /\ task' = [task EXCEPT ![p].pc = "insert", ![p].owns = owns]
    BY <1>4 DEF AdmitStore
  <2>2. [task[p] EXCEPT !.pc = "insert", !.owns = owns] \in GoodTask
    <3> DEFINE t == [task[p] EXCEPT !.pc = "insert", !.owns = owns]
    <3>1. t \in Task
      BY ZenonT(60) DEF GoodTask, Task, Pc, AdmissionPc
    <3>2. t.pc = "insert" /\ t.job \in Jobs /\ t.req \in Requests
      BY <1>1, <1>4 DEF GoodTask, Task, AdmissionPc, AdmitStore, At
    <3> HIDE DEF t
    <3>3. t \in GoodTask
      BY <3>1, <3>2 DEF GoodTask
    <3> QED BY <3>3 DEF t
  <2>3. task' \in [Tasks -> GoodTask]
    BY <2>1, <2>2
  <2>4. /\ files' \subseteq Jobs \X Audios /\ claims' \in [Jobs -> Audios \cup {NoAudio}]
        /\ stale' \subseteq files'
    BY <1>1, <1>4, <2>1, SpoolTypes DEF AdmitStore, At, AdmissionPc
  <2> QED BY <1>4, <2>3, <2>4 DEF AdmitStore, ledgerVars, bootVars
<1>5. CASE AdmitStoreRejected(p)
  <2>1. /\ files' \subseteq Jobs \X Audios /\ claims' \in [Jobs -> Audios \cup {NoAudio}]
        /\ stale' \subseteq files'
    BY <1>1, <1>5, SpoolTypes DEF AdmitStoreRejected, At, AdmissionPc
  <2> QED BY <1>5, <2>1, TaskTypes DEF AdmitStoreRejected, ledgerVars, bootVars
<1>6. CASE AdmitInsert(p)
  <2>1. ledger' \in [Jobs -> Row]
    BY <1>1, <1>6, CommitType DEF AdmitInsert, At, AdmissionPc
  <2>2. task' \in [Tasks -> GoodTask]
    BY <1>6, TaskTypes DEF AdmitInsert, At, AdmissionPc
  <2> QED BY <1>6, <2>1, <2>2 DEF AdmitInsert, spoolVars, bootVars
<1>7. CASE AdmitInsertFails(p)
  <2>1. late' \subseteq Statement
    BY <1>1, <1>7, AbandonType DEF AdmitInsertFails, At, AdmissionPc
  <2>2. task' \in [Tasks -> GoodTask]
    BY <1>7, TaskTypes DEF AdmitInsertFails, At, AdmissionPc
  <2> QED BY <1>7, <2>1, <2>2 DEF AdmitInsertFails, spoolVars, bootVars
<1>8. CASE AdmitInserted(p)
  BY <1>1, <1>8, TaskTypes DEF AdmitInserted, At, AdmissionPc, ledgerVars, spoolVars, bootVars
<1>9. CASE AdmitExisting(p)
  BY <1>1, <1>9, TaskTypes DEF AdmitExisting, At, AdmissionPc, ledgerVars, spoolVars, bootVars
<1>10. CASE AdmitVerify(p)
  BY <1>1, <1>10, TaskTypes DEF AdmitVerify, At, AdmissionPc, ledgerVars, spoolVars, bootVars
<1>11. CASE AdmitDiscard(p) \/ AdmitDiscardFails(p)
  <2>1. At(p, "discard") /\ task[p].pc \in AdmissionPc
    BY <1>11 DEF AdmitDiscard, AdmitDiscardFails, At, AdmissionPc
  <2>2. /\ files' \subseteq Jobs \X Audios /\ claims' \in [Jobs -> Audios \cup {NoAudio}]
        /\ stale' \subseteq files'
    BY <1>1, <1>11, <2>1, SpoolTypes DEF AdmitDiscard, AdmitDiscardFails
  <2>3. task' \in [Tasks -> GoodTask]
    BY <1>1, <1>11, <2>1, TaskTypes DEF AdmitDiscard, AdmitDiscardFails
  <2> QED BY <1>11, <2>2, <2>3 DEF AdmitDiscard, AdmitDiscardFails, ledgerVars, bootVars
<1>12. CASE Disconnect(p)
  <2>1. late' \subseteq Statement
    BY <1>1, <1>12, AbandonType DEF Disconnect
  <2> QED BY <1>12, <2>1, TaskTypes DEF Disconnect, spoolVars, bootVars
<1> QED
  BY <1>2, <1>3, <1>4, <1>5, <1>6, <1>7, <1>8, <1>9, <1>10, <1>11, <1>12 DEF AdmitStep

\* A step of an execution, and a failed read, keep the types.
LEMMA ExecuteTypes ==
    ASSUME TypeOK, NEW p \in Tasks, ExecuteStep(p) \/ ReadFails(p)
    PROVE  TypeOK'
<1> USE DEF TypeOK
<1>1. task[p].pc # "idle" => task[p].job \in Jobs /\ ledger[task[p].job] \in Row
  BY DEF GoodTask
<1>2. task[p] \in Task /\ task[p].snap \in Row
  BY DEF GoodTask, Task
<1>3. At(p, "claim") => ClaimOf(p) \in Statement
  BY <1>1, <1>2, StatementTypes DEF GoodTask, ClaimOf, At
<1>4. At(p, "persist") => PersistOf(p) \in Statement
  BY <1>1, <1>2, StatementTypes DEF GoodTask, PersistOf, At
<1>5. CASE ExecuteLoad(p)
  <2>1. CASE Finish(p)
    BY <1>5, <2>1, TaskTypes DEF ExecuteLoad, ledgerVars, spoolVars, bootVars
  <2>2. CASE task' = [task EXCEPT ![p].pc = "read", ![p].snap = ledger[task[p].job]]
    <3> DEFINE t == [task[p] EXCEPT !.pc = "read", !.snap = ledger[task[p].job]]
    <3>1. t \in Task /\ t.pc = "read" /\ t.job \in Jobs
      BY <1>1, <1>2, <1>5 DEF ExecuteLoad, At, Task, Pc, SnapshotPc
    <3> HIDE DEF t
    <3>2. t \in GoodTask
      BY <3>1 DEF GoodTask, AdmissionPc
    <3>3. task' \in [Tasks -> GoodTask]
      BY <2>2, <3>2 DEF t
    <3> QED BY <1>5, <3>3 DEF ExecuteLoad, ledgerVars, spoolVars, bootVars
  <2> QED BY <1>5, <2>1, <2>2 DEF ExecuteLoad
<1>6. CASE ExecuteRead(p)
  <2>1. CASE Finish(p)
    BY <1>6, <2>1, TaskTypes DEF ExecuteRead, ledgerVars, spoolVars, bootVars
  <2>2. CASE Goto(p, "claim") /\ CanBeginSubmission(task[p].snap)
    <3> DEFINE t == [task[p] EXCEPT !.pc = "claim"]
    <3>1. t \in Task /\ t.pc = "claim" /\ t.job \in Jobs /\ t.snap = task[p].snap
      BY <1>1, <1>2, <1>6 DEF ExecuteRead, At, Task, Pc, SnapshotPc
    <3> HIDE DEF t
    <3>2. t \in GoodTask
      BY <2>2, <3>1 DEF GoodTask, AdmissionPc
    <3>3. task' \in [Tasks -> GoodTask]
      BY <2>2, <3>2 DEF t, Goto
    <3> QED BY <1>6, <3>3 DEF ExecuteRead, ledgerVars, spoolVars, bootVars
  <2> QED BY <1>6, <2>1, <2>2 DEF ExecuteRead
<1>7. CASE ExecuteReadFails(p)
  BY <1>7, TaskTypes DEF ExecuteReadFails, ledgerVars, spoolVars, bootVars
<1>8. CASE ExecuteClaim(p)
  <2>1. ledger' \in [Jobs -> Row]
    BY <1>3, <1>8, CommitType DEF ExecuteClaim
  <2>2. CASE Finish(p)
    BY <1>8, <2>1, <2>2, TaskTypes DEF ExecuteClaim, spoolVars, bootVars
  <2>3. CASE task' = [task EXCEPT ![p].pc = "egress", ![p].snap = ClaimOf(p).row]
    <3> DEFINE t == [task[p] EXCEPT !.pc = "egress", !.snap = ClaimOf(p).row]
    <3>1. ClaimOf(p).row \in Row
      BY <1>3, <1>8 DEF ExecuteClaim, Statement
    <3>2. t \in Task /\ t.pc = "egress" /\ t.job \in Jobs
      BY <1>1, <1>2, <1>8, <3>1 DEF ExecuteClaim, At, Task, Pc, InFlightPc
    <3> HIDE DEF t
    <3>3. t \in GoodTask
      BY <3>2 DEF GoodTask, AdmissionPc
    <3>4. task' \in [Tasks -> GoodTask]
      BY <2>3, <3>3 DEF t
    <3> QED BY <1>8, <2>1, <3>4 DEF ExecuteClaim, spoolVars, bootVars
  <2> QED BY <1>8, <2>2, <2>3 DEF ExecuteClaim
<1>9. CASE ExecuteClaimFails(p)
  <2>1. late' \subseteq Statement
    BY <1>3, <1>9, AbandonType DEF ExecuteClaimFails
  <2> QED BY <1>9, <2>1, TaskTypes DEF ExecuteClaimFails, spoolVars, bootVars
<1>10. CASE Recognize(p)
  <2>0. PICK out \in Outcomes : \E n \in AcceptedBy(out) :
            /\ task' = [task EXCEPT ![p].pc = "persist", ![p].out = out]
            /\ paid' = [paid EXCEPT ![task[p].job] = @ + n]
    BY <1>10 DEF Recognize
  <2>1. PICK n \in AcceptedBy(out) :
            /\ task' = [task EXCEPT ![p].pc = "persist", ![p].out = out]
            /\ paid' = [paid EXCEPT ![task[p].job] = @ + n]
    BY <2>0
  <2>2. n \in Nat
    BY DEF AcceptedBy
  <2>3. paid' \in [Jobs -> Nat]
    <3>1. paid[task[p].job] + n \in Nat
      BY <1>1, <1>10, <2>2 DEF Recognize, At
    <3> QED BY <2>1, <3>1
  <2>4. task' \in [Tasks -> GoodTask]
    <3> DEFINE t == [task[p] EXCEPT !.pc = "persist", !.out = out]
    <3>1. t \in Task /\ t.pc = "persist" /\ t.job \in Jobs /\ t.out = out
      BY <1>1, <1>2, <1>10 DEF Recognize, At, Task, Pc, InFlightPc
    <3> HIDE DEF t
    <3>2. t \in GoodTask
      BY <3>1 DEF GoodTask, AdmissionPc
    <3> QED BY <2>1, <3>2 DEF t
  <2> QED BY <1>10, <2>3, <2>4 DEF Recognize, ledgerVars, spoolVars, bootVars
<1>11. CASE ExecutePersist(p)
  <2>1. ledger' \in [Jobs -> Row]
    BY <1>4, <1>11, CommitType DEF ExecutePersist
  <2>2. CASE Finish(p)
    BY <1>11, <2>1, <2>2, TaskTypes DEF ExecutePersist, spoolVars, bootVars
  <2>3. CASE task' = [task EXCEPT ![p].pc = "cleanup", ![p].snap = PersistOf(p).row,
                                  ![p].out = "none"]
    <3> DEFINE t == [task[p] EXCEPT !.pc = "cleanup", !.snap = PersistOf(p).row,
                                    !.out = "none"]
    <3>1. PersistOf(p).row \in Row
      BY <1>4, <1>11 DEF ExecutePersist, Statement
    <3>2. t \in Task /\ t.pc = "cleanup" /\ t.job \in Jobs
      BY <1>1, <1>2, <1>11, <3>1 DEF ExecutePersist, At, Task, Pc
    <3> HIDE DEF t
    <3>3. t \in GoodTask
      BY <3>2 DEF GoodTask, AdmissionPc
    <3>4. task' \in [Tasks -> GoodTask]
      BY <2>3, <3>3 DEF t
    <3> QED BY <1>11, <2>1, <3>4 DEF ExecutePersist, spoolVars, bootVars
  <2> QED BY <1>11, <2>2, <2>3 DEF ExecutePersist
<1>12. CASE ExecutePersistFails(p)
  <2>1. late' \subseteq Statement
    BY <1>4, <1>12, AbandonType DEF ExecutePersistFails
  <2> QED BY <1>12, <2>1, TaskTypes DEF ExecutePersistFails, spoolVars, bootVars
<1>13. CASE ExecuteCleanup(p)
  <2>1. /\ files' \subseteq Jobs \X Audios /\ claims' \in [Jobs -> Audios \cup {NoAudio}]
        /\ stale' \subseteq files'
    BY <1>1, <1>13, SpoolTypes DEF ExecuteCleanup, At
  <2> QED BY <1>13, <2>1, TaskTypes DEF ExecuteCleanup, ledgerVars, bootVars
<1>14. CASE ReadFails(p)
  BY <1>14, TaskTypes DEF ReadFails, AdmissionPc, ledgerVars, spoolVars, bootVars
<1> QED
  BY <1>5, <1>6, <1>7, <1>8, <1>9, <1>10, <1>11, <1>12, <1>13, <1>14 DEF ExecuteStep

\* A page read from the ledger is well formed, and so is the cursor after it.
LEMMA PageTypes ==
    ASSUME TypeOK, ListPage
    PROVE  /\ page' \subseteq Snapshot
           /\ more' \in BOOLEAN
           /\ cursor' \in Jobs \cup {0}
<1> DEFINE ids == FirstN(Candidates(cursor, head), PageLimit)
<1>1. ids \subseteq Jobs
  BY DEF FirstN, Candidates
<1>2. page' = {[job |-> j, row |-> ledger[j]] : j \in ids}
  BY DEF ListPage
<1>3. page' \subseteq Snapshot
  BY <1>1, <1>2 DEF TypeOK, Snapshot
<1>4. more' \in BOOLEAN
  BY DEF ListPage
<1>5. cursor' \in ids \cup {cursor}
  BY DEF ListPage
<1> QED BY <1>1, <1>3, <1>4, <1>5 DEF TypeOK

\* A stopped process has forgotten everything, in values of the right type.
LEMMA StopTypes ==
    ASSUME Stop
    PROVE  /\ phase' = "down" /\ head' = 0 /\ cursor' = 0 /\ more' = FALSE
           /\ page' = {} /\ entries' = {} /\ profiles' = {} /\ interrupted' = {}
BY DEF Stop

\* What maintenance notes about an entry it removes.
LEMMA SweptTypes ==
    ASSUME TypeOK
    PROVE  \A e \in entries : NoteSwept(e) => swept' \subseteq Jobs \X Audios
BY DEF TypeOK, NoteSwept

\* A step of startup, of maintenance, of the drain worker, a crash and a
\* statement run late keep the types.
LEMMA StartupTypes ==
    ASSUME TypeOK, Boot \/ StartupStep \/ DrainStep \/ Crash \/ LateStatement
    PROVE  TypeOK'
<1> USE DEF TypeOK
<1>1. \A s \in page : /\ s.job \in Jobs
                      /\ RecoveryOf(s) \in Statement
  BY StatementTypes DEF Snapshot
<1>2. CASE Boot
  <2>1. interrupted' \subseteq Jobs \X (Nat \cup {-1})
    BY <1>2 DEF Boot, Row
  <2>2. profiles' \subseteq Requests
    BY <1>2, ConfigurationAssumption DEF Boot
  <2> QED BY <1>2, <2>1, <2>2 DEF Boot, ledgerVars, spoolVars
<1>16. CASE RecoverRefuses
  BY <1>16, StopTypes DEF RecoverRefuses, ledgerVars, spoolVars
<1>3. CASE RecoverPage
  BY <1>3, PageTypes DEF RecoverPage, ledgerVars, spoolVars
<1>4. CASE RecoverRow
  <2>1. ledger' \in [Jobs -> Row]
    BY <1>1, <1>4, CommitType DEF RecoverRow
  <2> QED BY <1>4, <2>1 DEF RecoverRow, spoolVars
<1>5. CASE RecoverRemove
  <2>1. /\ files' \subseteq Jobs \X Audios /\ claims' \in [Jobs -> Audios \cup {NoAudio}]
        /\ stale' \subseteq files'
    BY <1>1, <1>5, SpoolTypes DEF RecoverRemove
  <2> QED BY <1>5, <2>1 DEF RecoverRemove, ledgerVars
<1>6. CASE RecoverDone
  BY <1>6 DEF RecoverDone, ledgerVars, spoolVars
<1>7. CASE MaintainEntry
  <2>1. PICK e \in entries : /\ MaintainClaim(e) \/ MaintainFile(e)
                             /\ entries' = entries \ {e}
    BY <1>7 DEF MaintainEntry
  <2>2. e[1] \in Jobs
    OBVIOUS
  <2>3. /\ files' \subseteq Jobs \X Audios /\ claims' \in [Jobs -> Audios \cup {NoAudio}]
        /\ stale' \subseteq files'
    BY <2>1, <2>2, SpoolTypes DEF MaintainClaim, MaintainFile, spoolVars
  <2>4. swept' \subseteq Jobs \X Audios
    BY <2>1, SweptTypes DEF MaintainClaim, MaintainFile
  <2> QED BY <1>7, <2>1, <2>3, <2>4 DEF MaintainEntry, ledgerVars
<1>8. CASE MaintainRefuses
  BY <1>8, StopTypes DEF MaintainRefuses, ledgerVars, spoolVars
<1>9. CASE Serve
  BY <1>9 DEF Serve, ledgerVars, spoolVars
<1>10. CASE StartupLedgerFails
  <2>1. late' \subseteq Statement
    <3>1. CASE late' = late
      BY <3>1
    <3>2. CASE \E s \in page : Abandon({RecoveryOf(s)})
      BY <1>1, <3>2, AbandonType
    <3> QED BY <1>10, <3>1, <3>2 DEF StartupLedgerFails
  <2> QED BY <1>10, <2>1, StopTypes DEF StartupLedgerFails, spoolVars
<1>11. CASE StartupSpoolFails
  <2>1. /\ files' \subseteq Jobs \X Audios /\ claims' \in [Jobs -> Audios \cup {NoAudio}]
        /\ stale' \subseteq files'
    BY <1>1, <1>11, SpoolTypes DEF StartupSpoolFails, spoolVars
  <2>2. swept' \subseteq Jobs \X Audios
    BY <1>11, SweptTypes DEF StartupSpoolFails
  <2> QED BY <1>11, <2>1, <2>2, StopTypes DEF StartupSpoolFails, ledgerVars
<1>12. CASE DrainPage
  BY <1>12, PageTypes DEF DrainPage, ledgerVars, spoolVars
<1>13. CASE DrainNext
  <2>1. Drainer \in Tasks
    BY DEF Tasks
  <2> QED BY <1>1, <1>13, <2>1, TaskTypes DEF DrainNext, ledgerVars, spoolVars
<1>14. CASE Crash
  <2>1. \A p \in Tasks : /\ At(p, "insert") => InsertOf(p) \in Statement
                         /\ At(p, "claim") => ClaimOf(p) \in Statement
                         /\ At(p, "persist") => PersistOf(p) \in Statement
    BY StatementTypes DEF GoodTask, Task, At, InsertOf, ClaimOf, PersistOf, AdmissionPc
  <2>2. late' \subseteq Statement
    BY <1>1, <1>14, <2>1, AbandonType DEF Crash
  <2>3. IdleTask \in GoodTask
    BY DefaultTypes DEF IdleTask, GoodTask, AdmissionPc
  <2> QED BY <1>14, <2>2, <2>3, StopTypes DEF Crash, spoolVars
<1>15. CASE LateStatement
  <2>1. ledger' \in [Jobs -> Row] /\ late' \subseteq Statement
    BY <1>15, CommitType DEF LateStatement, RunLate
  <2> QED BY <1>15, <2>1 DEF LateStatement, spoolVars, bootVars
<1> QED
  BY <1>2, <1>3, <1>4, <1>5, <1>6, <1>7, <1>8, <1>9, <1>10, <1>11, <1>12, <1>13,
     <1>14, <1>15, <1>16 DEF StartupStep, DrainStep

\* Every variable keeps its type, and every task stays one the code can be
\* in, through every step of admission, execution, recovery and failure.
THEOREM TypeCorrect == Spec => []TypeOK
<1>1. Init => TypeOK
  <2>1. IdleTask \in GoodTask
    BY DefaultTypes DEF IdleTask, GoodTask, AdmissionPc
  <2> SUFFICES ASSUME Init PROVE TypeOK
    OBVIOUS
  <2>2. ledger \in [Jobs -> Row] /\ late \subseteq Statement
    BY DefaultTypes DEF Init, LedgerInit
  <2>3. /\ files \subseteq Jobs \X Audios /\ claims \in [Jobs -> Audios \cup {NoAudio}]
        /\ stale \subseteq files
    BY DEF Init, SpoolInit
  <2>4. task \in [Tasks -> GoodTask]
    BY <2>1 DEF Init
  <2>5. more \in BOOLEAN
    BY DEF Init
  <2>6. paid \in [Jobs -> Nat]
    BY DEF Init
  <2> QED BY <2>2, <2>3, <2>4, <2>5, <2>6 DEF Init, TypeOK
<1>2. TypeOK /\ [Next]_vars => TypeOK'
  <2>1. TypeOK /\ Next => TypeOK'
    BY AdmitTypes, ExecuteTypes, StartupTypes DEF Next
  <2>2. TypeOK /\ UNCHANGED vars => TypeOK'
    BY DEF TypeOK, vars, ledgerVars, spoolVars, bootVars
  <2> QED BY <2>1, <2>2
<1> QED BY <1>1, <1>2, PTL DEF Spec

(***************************************************************************)
(* The fence invariant                                                     *)
(***************************************************************************)

\* A step that writes no row and spends nothing keeps the fence, provided
\* each task is as before, or out of the critical stretch, or holds a current
\* snapshot of an actionable row; each unanswered statement is old or safe;
\* and each page entry is old or current.
LEMMA QuietStep ==
    ASSUME TypeOK, TypeOK', FenceInv, ledger' = ledger, paid' = paid,
           \A t \in Tasks : \/ task'[t] = task[t]
                            \/ task'[t].pc \notin SnapshotPc \cup InFlightPc
                            \/ /\ task'[t].pc \in SnapshotPc
                               /\ Actionable(task'[t].snap.st)
                               /\ Known(task'[t].job, task'[t].snap),
           \A s \in late' : s \in late \/ LateSafe(s)',
           \A s \in page' : s \in page \/ s.row = ledger[s.job],
           phase' # "serving" => \A t \in Tasks : task'[t].pc = "idle"
    PROVE  FenceInv'
<1>1. \A t \in Tasks : task'[t].pc \in InFlightPc => task'[t] = task[t]
  BY DEF SnapshotPc, InFlightPc
<1>2. RowTruth'
  BY DEF FenceInv, RowTruth
<1>3. InFlightOwnsRow'
  BY <1>1 DEF FenceInv, InFlightOwnsRow
<1>4. \A t \in Tasks : task'[t].pc \in SnapshotPc =>
            Actionable(task'[t].snap.st) /\ Known(task[t].job, task[t].snap)'
  BY DEF FenceInv, Known, SnapshotPc, InFlightPc
<1>5. \A t \in Tasks : /\ At(t, "egress")' => paid'[task'[t].job] = 0
                       /\ At(t, "persist")' => paid'[task'[t].job] \in AcceptedBy(task'[t].out)
  BY <1>1 DEF FenceInv, At, InFlightPc
<1>6. ASSUME NEW s \in late, LateSafe(s)
      PROVE  LateSafe(s)'
  BY <1>1, <1>6 DEF LateSafe, Lawful
<1>7. \A s \in late' : LateSafe(s)'
  BY <1>6 DEF FenceInv
<1>8. \A s \in page' : Known(s.job, s.row)'
  <2> SUFFICES ASSUME NEW s \in page' PROVE Known(s.job, s.row)'
    OBVIOUS
  <2>1. CASE s \in page
    BY <2>1 DEF FenceInv, Known
  <2>2. CASE s.row = ledger[s.job]
    BY <2>2 DEF TypeOK, Snapshot, Row, Known
  <2> QED BY <2>1, <2>2
<1>9. phase' # "serving" => \A t \in Tasks : At(t, "idle")'
  BY DEF At
<1> QED BY <1>2, <1>3, <1>4, <1>5, <1>7, <1>8, <1>9 DEF FenceInv

\* A step whose statement applies keeps the fence: the revision grows by
\* one, so every other snapshot, page entry and statement about the job is
\* outdated.  Only the task that sent a verdict was in flight for the job
\* before, and only the task p that claimed it is afterwards.
LEMMA WriteStep ==
    ASSUME TypeOK, TypeOK', FenceInv, NEW s \in Statement, NEW p \in Tasks,
           Applies(s), Commit(s), paid' = paid, late' \subseteq late, page' \subseteq page,
           Lawful(s),
           \A t \in Tasks :
                \/ /\ task'[t] = task[t]
                   /\ task[t].pc \in InFlightPc /\ task[t].job = s.job =>
                        s.row.st \in {"accepted", "submitting"}
                \/ task'[t].pc \notin SnapshotPc \cup InFlightPc
                \/ /\ t = p /\ task'[t].pc = "egress" /\ task'[t].job = s.job
                   /\ task'[t].snap = s.row /\ s.row.st = "submitting",
           phase' # "serving" => \A t \in Tasks : task'[t].pc = "idle"
    PROVE  FenceInv'
<1>1. /\ ledger' = [ledger EXCEPT ![s.job] = s.row]
      /\ s.row.rev = ledger[s.job].rev + 1
      /\ s.job \in Jobs
  <2>1. s.job \in Jobs /\ ledger[s.job].rev \in Int /\ s.row.rev \in Int
    BY DEF TypeOK, Statement, Row
  <2> QED BY <2>1 DEF Applies, Commit
<1>2. /\ ledger'[s.job] = s.row
      /\ \A j \in Jobs : j # s.job => ledger'[j] = ledger[j]
  BY <1>1 DEF TypeOK
<1>3. /\ s.row.st \in Status /\ s.row.rev \in Nat
      /\ s.row.st = "accepted" => ledger[s.job].st = "absent"
      /\ s.row.st = "submitting" => Actionable(ledger[s.job].st)
      /\ s.row.st = "retryable" => paid[s.job] = 0
      /\ s.row.st = "completed" => paid[s.job] = 1
  BY <1>1 DEF Lawful, TypeOK, Statement, Row
<1>4. s.row.st \in {"accepted", "retryable", "submitting"} => paid[s.job] = 0
  BY <1>1, <1>3 DEF FenceInv, RowTruth, Actionable
<1>5. \A t \in Tasks : task[t].pc \in InFlightPc /\ task[t].job = s.job =>
            s.row.st \notin {"accepted", "submitting"}
  BY <1>3 DEF FenceInv, InFlightOwnsRow, Actionable
<1>6. RowTruth'
  BY <1>1, <1>2, <1>3, <1>4 DEF FenceInv, RowTruth, Status
<1>7. \A t \in Tasks : task'[t].pc \in InFlightPc =>
            \/ /\ task'[t] = task[t] /\ task[t].job # s.job
            \/ /\ t = p /\ task'[t].pc = "egress" /\ task'[t].job = s.job
               /\ task'[t].snap = s.row /\ s.row.st = "submitting" /\ paid[s.job] = 0
  BY <1>4, <1>5 DEF SnapshotPc, InFlightPc
<1>8. \A t \in Tasks : task[t].pc \in InFlightPc \cup SnapshotPc => task[t].job \in Jobs
  BY DEF TypeOK, GoodTask, InFlightPc, SnapshotPc
<1>9. InFlightOwnsRow'
  BY <1>2, <1>7, <1>8 DEF FenceInv, InFlightOwnsRow
<1>10. \A j \in Jobs, row \in Row : Known(j, row) => Known(j, row)'
  BY <1>1, <1>2 DEF Known, TypeOK, Row
<1>11. \A t \in Tasks : task'[t].pc \in SnapshotPc =>
            Actionable(task'[t].snap.st) /\ Known(task[t].job, task[t].snap)'
  <2>1. \A t \in Tasks : task'[t].pc \in SnapshotPc => task'[t] = task[t]
    BY DEF SnapshotPc, InFlightPc
  <2>2. \A t \in Tasks : task[t].snap \in Row
    BY DEF TypeOK, GoodTask, Task
  <2> SUFFICES ASSUME NEW t \in Tasks, task'[t].pc \in SnapshotPc
               PROVE  Actionable(task'[t].snap.st) /\ Known(task[t].job, task[t].snap)'
    OBVIOUS
  <2>3. /\ task'[t] = task[t] /\ task[t].job \in Jobs
        /\ Actionable(task[t].snap.st) /\ Known(task[t].job, task[t].snap)
    BY <1>8, <2>1 DEF FenceInv
  <2> QED BY <1>1, <1>2, <2>2, <2>3 DEF Known, TypeOK, Row
<1>12. \A t \in Tasks : /\ At(t, "egress")' => paid'[task'[t].job] = 0
                        /\ At(t, "persist")' => paid'[task'[t].job] \in AcceptedBy(task'[t].out)
  BY <1>7 DEF FenceInv, At, InFlightPc
<1>13. ASSUME NEW l \in late, LateSafe(l)
       PROVE  LateSafe(l)'
  <2>0. l.job \in Jobs /\ l.row.rev \in Int /\ ledger[l.job].rev \in Int
    BY DEF TypeOK, Statement, Row
  <2>1. CASE l.job = s.job
    <3>1. l.row.rev \in 0 .. ledger'[l.job].rev + 1 /\ ledger'[l.job].rev # l.row.rev - 1
      BY <1>1, <1>2, <1>13, <2>0, <2>1 DEF LateSafe, Lawful
    <3> QED BY <1>13, <3>1 DEF LateSafe, Lawful
  <2>2. CASE l.job # s.job
    <3>1. ledger'[l.job] = ledger[l.job]
      BY <1>2, <2>0, <2>2
    <3>2. \A t \in Tasks : task'[t].pc \in InFlightPc /\ task'[t].job = l.job =>
                task[t].pc \in InFlightPc /\ task[t].job = l.job
      BY <1>7, <2>2
    <3> QED BY <1>13, <3>1, <3>2 DEF LateSafe, Lawful
  <2> QED BY <2>1, <2>2
<1>14. \A l \in late' : LateSafe(l)'
  BY <1>13 DEF FenceInv
<1>15. \A l \in page' : Known(l.job, l.row)'
  BY <1>10 DEF FenceInv, TypeOK, Snapshot
<1>16. phase' # "serving" => \A t \in Tasks : At(t, "idle")'
  BY DEF At
<1> QED BY <1>6, <1>9, <1>11, <1>12, <1>14, <1>15, <1>16 DEF FenceInv

\* Every statement sent is lawful: it was computed from a snapshot that is
\* outdated by its revision or still true, and a verdict agrees with what the
\* submission has cost.
LEMMA SentLawful ==
    ASSUME TypeOK, FenceInv, NEW s,
           \/ \E p \in Tasks : At(p, "insert") /\ s = InsertOf(p)
           \/ \E p \in Tasks : At(p, "claim") /\ s = ClaimOf(p)
           \/ \E p \in Tasks : At(p, "persist") /\ s = PersistOf(p)
           \/ \E x \in page : x.row.st = "submitting" /\ s = RecoveryOf(x)
    PROVE  s \in Statement /\ Lawful(s)
<1>1. ASSUME NEW p \in Tasks, At(p, "insert"), s = InsertOf(p)
      PROVE  s \in Statement /\ Lawful(s)
  <2>1. /\ task[p].job \in Jobs /\ task[p].req \in Requests
        /\ ledger[task[p].job].rev \in Nat \cup {-1}
    BY <1>1 DEF TypeOK, GoodTask, At, Row, AdmissionPc
  <2>2. /\ s \in Statement
        /\ s.job = task[p].job /\ s.row.rev = 0 /\ s.row.st = "accepted"
    BY <1>1, <2>1, StatementTypes DEF InsertOf, Insert, accept
  <2>3. ledger[s.job].rev = -1 => ledger[s.job].st = "absent"
    BY <2>1, <2>2 DEF FenceInv, RowTruth
  <2> QED BY <2>1, <2>2, <2>3 DEF Lawful, Status
<1>2. ASSUME NEW p \in Tasks, At(p, "claim"), s = ClaimOf(p)
      PROVE  s \in Statement /\ Lawful(s)
  <2>1. task[p].job \in Jobs /\ task[p].snap \in Row /\ CanBeginSubmission(task[p].snap)
    BY <1>2 DEF TypeOK, GoodTask, Task, At
  <2>2. s \in Statement
    BY <1>2, <2>1, StatementTypes DEF ClaimOf
  <2>3. s.job = task[p].job /\ s.row.rev = task[p].snap.rev + 1 /\ s.row.st = "submitting"
    BY <1>2, <2>1 DEF ClaimOf, CompareAndSwap, begin_submission, Row
  <2>4. Actionable(task[p].snap.st) /\ Known(task[p].job, task[p].snap)
    BY <1>2 DEF FenceInv, At, SnapshotPc
  <2>5. task[p].snap.rev \in Nat \cup {-1} /\ ledger[s.job].rev \in Nat \cup {-1}
    BY <2>1, <2>3 DEF TypeOK, Row
  <2>6. /\ s.row.rev \in 0 .. ledger[s.job].rev + 1
        /\ ledger[s.job].rev = s.row.rev - 1 => Actionable(ledger[s.job].st)
    BY <2>3, <2>4, <2>5 DEF Known
  <2> QED BY <2>2, <2>3, <2>6 DEF Lawful, Status
<1>3. ASSUME NEW p \in Tasks, At(p, "persist"), s = PersistOf(p)
      PROVE  s \in Statement /\ Lawful(s)
  <2>1. task[p].job \in Jobs /\ task[p].snap \in Row /\ task[p].out \in Outcomes
    BY <1>3 DEF TypeOK, GoodTask, Task, At
  <2>2. s \in Statement
    BY <1>3, <2>1, StatementTypes DEF PersistOf
  <2>3. /\ s.job = task[p].job /\ s.row.rev = task[p].snap.rev + 1
        /\ s.row.st = apply_recognition_outcome(task[p].snap, task[p].out).st
    BY <1>3, <2>1 DEF PersistOf, CompareAndSwap, apply_recognition_outcome, Row
  <2>4. /\ s.row.st \in {"completed", "retryable", "outcome_unknown", "failed"}
        /\ s.row.st = "retryable" => task[p].out = "not_accepted_retryable"
        /\ s.row.st = "completed" => task[p].out = "ok"
    BY <2>1, <2>3 DEF apply_recognition_outcome, Row, Outcomes
  <2>5. ledger[s.job] = task[p].snap /\ ledger[s.job].st = "submitting"
    BY <1>3, <2>3 DEF FenceInv, InFlightOwnsRow, At, InFlightPc
  <2>6. paid[s.job] \in AcceptedBy(task[p].out)
    BY <1>3, <2>3 DEF FenceInv
  <2>7. /\ s.row.st = "retryable" => paid[s.job] = 0
        /\ s.row.st = "completed" => paid[s.job] = 1
    BY <2>4, <2>6 DEF AcceptedBy
  <2>8. ledger[s.job].rev \in Nat \cup {-1} /\ s.row.rev \in 0 .. ledger[s.job].rev + 1
    BY <2>1, <2>3, <2>5 DEF Row
  <2> QED BY <2>2, <2>4, <2>5, <2>7, <2>8 DEF Lawful, Status
<1>4. ASSUME NEW x \in page, x.row.st = "submitting", s = RecoveryOf(x)
      PROVE  s \in Statement /\ Lawful(s)
  <2>1. x.job \in Jobs /\ x.row \in Row /\ s \in Statement
    BY <1>4, StatementTypes DEF TypeOK, Snapshot
  <2>2. s.job = x.job /\ s.row.rev = x.row.rev + 1 /\ s.row.st = "outcome_unknown"
    BY <1>4, <2>1 DEF RecoveryOf, CompareAndSwap, recover_interrupted_submission, Row
  <2>3. Known(x.job, x.row)
    BY <1>4 DEF FenceInv
  <2>4. x.row.rev \in Nat \cup {-1} /\ ledger[s.job].rev \in Nat \cup {-1}
    BY <2>1, <2>2 DEF TypeOK, Row
  <2>5. /\ s.row.rev \in 0 .. ledger[s.job].rev + 1
        /\ ledger[s.job].rev = s.row.rev - 1 => ledger[s.job].st = "submitting"
    BY <1>4, <2>2, <2>3, <2>4 DEF Known
  <2> QED BY <2>1, <2>2, <2>5 DEF Lawful, Status
<1> QED BY <1>1, <1>2, <1>3, <1>4

\* A statement whose sender gives up is safe to run later: a task that gives
\* up on persisting was the only one in flight for its job, and nothing is in
\* flight while recovery runs.
LEMMA AbandonedSafe ==
    ASSUME TypeOK, FenceInv, ledger' = ledger, paid' = paid, NEW s,
           \/ \E p \in Tasks : At(p, "insert") /\ s = InsertOf(p)
           \/ \E p \in Tasks : At(p, "claim") /\ s = ClaimOf(p)
           \/ \E p \in Tasks : /\ At(p, "persist") /\ s = PersistOf(p)
                               /\ task'[p].pc \notin InFlightPc
           \/ \E x \in page : /\ x.row.st = "submitting" /\ s = RecoveryOf(x)
                              /\ \A t \in Tasks : task'[t].pc \notin InFlightPc,
           \A t \in Tasks : task'[t].pc \in InFlightPc => task'[t] = task[t]
    PROVE  LateSafe(s)'
<1>1. s \in Statement /\ Lawful(s)
  BY SentLawful
<1>2. Lawful(s)'
  BY <1>1 DEF Lawful
<1>3. ASSUME ledger[s.job].rev = s.row.rev - 1, NEW t \in Tasks, task'[t].pc \in InFlightPc
      PROVE  task'[t].job # s.job
  <2>1. SUFFICES ASSUME task'[t].job = s.job PROVE FALSE
    OBVIOUS
  <2>2. task[t].pc \in InFlightPc /\ task[t].job = s.job
    BY <1>3, <2>1
  <2>3. ledger[s.job].st = "submitting" /\ (\A p \in Tasks :
            task[p].pc \in InFlightPc /\ task[p].job = s.job => p = t)
    BY <2>2 DEF FenceInv, InFlightOwnsRow
  <2>4. s.row.st \notin {"accepted", "submitting"}
    BY <1>1, <1>3, <2>3 DEF Lawful, Actionable
  <2>5. \A p \in Tasks : At(p, "persist") /\ s = PersistOf(p) =>
            task[p].pc \in InFlightPc /\ task[p].job = s.job
    BY SMTT(30) DEF At, InFlightPc, PersistOf, CompareAndSwap
  <2>6. \A p \in Tasks : s # InsertOf(p)
    BY <2>4 DEF InsertOf, Insert, accept
  <2>7. \A p \in Tasks : At(p, "claim") => s # ClaimOf(p)
    <3>1. \A p \in Tasks : task[p].snap \in Row
      BY DEF TypeOK, GoodTask, Task
    <3>2. \A p \in Tasks : ClaimOf(p).row.st = "submitting"
      BY <3>1 DEF ClaimOf, CompareAndSwap, begin_submission, Row
    <3> QED BY <2>4, <3>2
  <2> QED BY <1>3, <2>3, <2>5, <2>6, <2>7
<1> QED BY <1>2, <1>3 DEF LateSafe

\* What the ways of moving one task do to its pc, and that they move no other.
LEMMA TaskEffects ==
    ASSUME TypeOK, NEW p \in Tasks
    PROVE  /\ Finish(p) => /\ task'[p].pc = "idle"
                           /\ \A t \in Tasks \ {p} : task'[t] = task[t]
           /\ \A j : StartExecution(p, j) => /\ task'[p].pc = "exec"
                                             /\ \A t \in Tasks \ {p} : task'[t] = task[t]
           /\ \A pc : Goto(p, pc) => /\ task'[p] = [task[p] EXCEPT !.pc = pc]
                                     /\ task'[p].pc = pc
                                     /\ \A t \in Tasks \ {p} : task'[t] = task[t]
<1>1. task \in [Tasks -> Task]
  BY DEF TypeOK, GoodTask
<1>2. Finish(p) => task'[p].pc = "idle" /\ \A t \in Tasks \ {p} : task'[t] = task[t]
  BY <1>1 DEF Finish, IdleTask
<1>3. \A j : StartExecution(p, j) =>
        task'[p].pc = "exec" /\ \A t \in Tasks \ {p} : task'[t] = task[t]
  BY <1>1 DEF StartExecution, IdleTask
<1>4. \A pc : Goto(p, pc) => /\ task'[p] = [task[p] EXCEPT !.pc = pc]
                             /\ task'[p].pc = pc
                             /\ \A t \in Tasks \ {p} : task'[t] = task[t]
  BY <1>1 DEF Goto, Task
<1> QED BY <1>2, <1>3, <1>4

\* A step that admits keeps the fence.
LEMMA AdmitFence ==
    ASSUME TypeOK, TypeOK', FenceInv, NEW p \in Slots,
           \/ \E j \in Jobs, q \in Requests : Post(p, j, q)
           \/ AdmitStep(p) \/ Disconnect(p)
    PROVE  FenceInv'
<1>0. p \in Tasks
  BY DEF Tasks
<1>1. phase = "serving"
  <2>1. CASE \E j \in Jobs, q \in Requests : Post(p, j, q)
    BY <2>1 DEF Post
  <2>2. CASE AdmitStep(p) \/ Disconnect(p)
    <3>1. task[p].pc \in AdmissionPc
      BY <2>2 DEF AdmitStep, Disconnect, AdmitLoad, AdmitStore, AdmitStoreRejected,
                  AdmitInsert, AdmitInsertFails, AdmitInserted, AdmitExisting,
                  AdmitVerify, AdmitDiscard, AdmitDiscardFails, At, AdmissionPc
    <3> QED BY <1>0, <3>1 DEF FenceInv, At, AdmissionPc
  <2> QED BY <2>1, <2>2
<1>2. ASSUME \A t \in Tasks \ {p} : task'[t] = task[t],
             task'[p].pc \notin SnapshotPc \cup InFlightPc, UNCHANGED <<ledgerVars, bootVars, paid>>
      PROVE  FenceInv'
  BY <1>0, <1>1, <1>2, QuietStep DEF TypeOK, ledgerVars, bootVars
<1>3. \A row : /\ Finish(p) \/ Settle(p, row) \/ ResolveRace(p, row)
                    \/ StartExecution(p, task[p].job)
                    \/ (\E pc \in AdmissionPc : Goto(p, pc)) =>
                  /\ \A t \in Tasks \ {p} : task'[t] = task[t]
                  /\ task'[p].pc \notin SnapshotPc \cup InFlightPc
  <2>1. \A row : task' = [task EXCEPT ![p].pc = "discard", ![p].snap = row] =>
            /\ \A t \in Tasks \ {p} : task'[t] = task[t]
            /\ task'[p].pc \notin SnapshotPc \cup InFlightPc
    BY <1>0 DEF TypeOK, GoodTask, Task, SnapshotPc, InFlightPc
  <2>2. Finish(p) \/ StartExecution(p, task[p].job) \/ (\E pc \in AdmissionPc : Goto(p, pc)) =>
            /\ \A t \in Tasks \ {p} : task'[t] = task[t]
            /\ task'[p].pc \notin SnapshotPc \cup InFlightPc
    BY <1>0, TaskEffects DEF SnapshotPc, InFlightPc, AdmissionPc
  <2> QED BY <2>1, <2>2 DEF Settle, ResolveRace
<1>4. ASSUME NEW j \in Jobs, NEW q \in Requests, Post(p, j, q)
      PROVE  FenceInv'
  <2>1. /\ \A t \in Tasks \ {p} : task'[t] = task[t]
        /\ task'[p].pc \notin SnapshotPc \cup InFlightPc
    BY <1>0, <1>4 DEF Post, TypeOK, IdleTask, SnapshotPc, InFlightPc
  <2> QED BY <1>2, <1>4, <2>1 DEF Post
<1>5. CASE AdmitStore(p)
  <2>1. /\ \A t \in Tasks \ {p} : task'[t] = task[t]
        /\ task'[p].pc \notin SnapshotPc \cup InFlightPc
    BY <1>0, <1>5 DEF AdmitStore, TypeOK, GoodTask, Task, SnapshotPc, InFlightPc
  <2> QED BY <1>2, <1>5, <2>1 DEF AdmitStore
<1>6. CASE AdmitLoad(p) \/ AdmitStoreRejected(p) \/ AdmitInserted(p) \/ AdmitExisting(p)
              \/ AdmitVerify(p) \/ AdmitDiscard(p) \/ AdmitDiscardFails(p)
  BY <1>2, <1>3, <1>6 DEF AdmitLoad, AdmitStoreRejected, AdmitInserted, AdmitExisting,
                          AdmitVerify, AdmitDiscard, AdmitDiscardFails, AdmissionPc
<1>7. CASE AdmitInsert(p)
  <2>1. /\ \A t \in Tasks \ {p} : task'[t] = task[t]
        /\ task'[p].pc \notin SnapshotPc \cup InFlightPc
    BY <1>3, <1>7 DEF AdmitInsert, AdmissionPc
  <2>2. CASE ~Applies(InsertOf(p))
    BY <1>2, <1>7, <2>1, <2>2 DEF AdmitInsert, Commit, ledgerVars
  <2>3. CASE Applies(InsertOf(p))
    <3> DEFINE s == InsertOf(p)
    <3>1. s \in Statement /\ Lawful(s) /\ s.row.st = "accepted"
      BY <1>0, <1>7, SentLawful DEF AdmitInsert, InsertOf, Insert, accept
    <3>2. Applies(s) /\ Commit(s) /\ late' = late /\ page' = page /\ paid' = paid /\ phase' = phase
      BY <1>7, <2>3 DEF AdmitInsert, bootVars
    <3> HIDE DEF s
    <3> QED BY <1>0, <1>1, <2>1, <3>1, <3>2, WriteStep
  <2> QED BY <2>2, <2>3
<1>8. CASE AdmitInsertFails(p) \/ Disconnect(p)
  <2>1. /\ \A t \in Tasks \ {p} : task'[t] = task[t]
        /\ task'[p].pc \notin SnapshotPc \cup InFlightPc
    BY <1>3, <1>8 DEF AdmitInsertFails, Disconnect, AdmissionPc
  <2>2. /\ ledger' = ledger /\ paid' = paid /\ page' = page /\ phase' = phase
        /\ \A s \in late' : s \in late \/ (At(p, "insert") /\ s = InsertOf(p))
    BY <1>8 DEF AdmitInsertFails, Disconnect, Abandon, bootVars
  <2>3. \A s \in late' : s \in late \/ LateSafe(s)'
    <3>1. \A t \in Tasks : task'[t].pc \in InFlightPc => task'[t] = task[t]
      BY <2>1
    <3> QED BY <1>0, <2>2, <3>1, AbandonedSafe
  <2> QED BY <1>0, <1>1, <2>1, <2>2, <2>3, QuietStep DEF TypeOK
<1> QED BY <1>4, <1>5, <1>6, <1>7, <1>8 DEF AdmitStep

\* A step of an execution, and a failed read, keep the fence.
LEMMA ExecuteFence ==
    ASSUME TypeOK, TypeOK', FenceInv, NEW p \in Tasks, ExecuteStep(p) \/ ReadFails(p)
    PROVE  FenceInv'
<1>1. task[p].pc # "idle"
  BY DEF ExecuteStep, ReadFails, ExecuteLoad, ExecuteRead, ExecuteReadFails, ExecuteClaim,
         ExecuteClaimFails, Recognize, ExecutePersist, ExecutePersistFails,
         ExecuteCleanup, At
<1>2. phase = "serving" /\ task[p].job \in Jobs /\ task[p].snap \in Row
  BY <1>1 DEF FenceInv, At, TypeOK, GoodTask, Task
<1>3. ASSUME \A t \in Tasks \ {p} : task'[t] = task[t],
             \/ task'[p].pc \notin SnapshotPc \cup InFlightPc
             \/ /\ task'[p].pc \in SnapshotPc
                /\ Actionable(task'[p].snap.st)
                /\ Known(task'[p].job, task'[p].snap),
             UNCHANGED <<ledgerVars, bootVars, paid>>
      PROVE  FenceInv'
  BY <1>2, <1>3, QuietStep DEF ledgerVars, bootVars
<1>4. Finish(p) => /\ \A t \in Tasks \ {p} : task'[t] = task[t]
                   /\ task'[p].pc \notin SnapshotPc \cup InFlightPc
  BY TaskEffects DEF SnapshotPc, InFlightPc
<1>5. CASE ExecuteLoad(p)
  <2>1. CASE Finish(p)
    BY <1>3, <1>4, <1>5, <2>1 DEF ExecuteLoad
  <2>2. CASE /\ Actionable(ledger[task[p].job].st)
             /\ task' = [task EXCEPT ![p].pc = "read", ![p].snap = ledger[task[p].job]]
    <3>1. /\ \A t \in Tasks \ {p} : task'[t] = task[t]
          /\ task'[p].pc = "read" /\ task'[p].job = task[p].job
          /\ task'[p].snap = ledger[task[p].job]
      BY <2>2 DEF TypeOK, GoodTask, Task
    <3>2. Known(task'[p].job, task'[p].snap)
      <4>1. ledger[task[p].job].rev \in Int
        BY <1>2 DEF TypeOK, Row
      <4> QED BY <3>1, <4>1 DEF Known
    <3> QED BY <1>3, <1>5, <2>2, <3>1, <3>2 DEF ExecuteLoad, SnapshotPc
  <2> QED BY <1>5, <2>1, <2>2 DEF ExecuteLoad
<1>6. CASE ExecuteRead(p)
  <2>1. CASE Finish(p)
    BY <1>3, <1>4, <1>6, <2>1 DEF ExecuteRead
  <2>2. CASE Goto(p, "claim")
    <3>1. /\ \A t \in Tasks \ {p} : task'[t] = task[t]
          /\ task'[p].pc = "claim" /\ task'[p].job = task[p].job
          /\ task'[p].snap = task[p].snap
      BY <2>2, TaskEffects DEF TypeOK, GoodTask, Task
    <3>2. Actionable(task[p].snap.st) /\ Known(task[p].job, task[p].snap)
      BY <1>6 DEF FenceInv, ExecuteRead, At, SnapshotPc
    <3> QED BY <1>3, <1>6, <3>1, <3>2 DEF ExecuteRead, SnapshotPc
  <2> QED BY <1>6, <2>1, <2>2 DEF ExecuteRead
<1>7. CASE ExecuteReadFails(p) \/ ExecuteCleanup(p)
  BY <1>3, <1>4, <1>7 DEF ExecuteReadFails, ExecuteCleanup
<1>8. CASE ReadFails(p)
  <2>1. CASE Finish(p)
    BY <1>3, <1>4, <1>8, <2>1 DEF ReadFails
  <2>2. CASE Goto(p, "verify")
    <3>1. /\ \A t \in Tasks \ {p} : task'[t] = task[t]
          /\ task'[p].pc \notin SnapshotPc \cup InFlightPc
      <4>1. task'[p].pc = "verify" /\ \A t \in Tasks \ {p} : task'[t] = task[t]
        BY <2>2, TaskEffects
      <4> QED BY <4>1 DEF SnapshotPc, InFlightPc
    <3> QED BY <1>3, <1>8, <3>1 DEF ReadFails
  <2> QED BY <1>8, <2>1, <2>2 DEF ReadFails
<1>9. CASE ExecuteClaim(p)
  <2>1. CASE ~Applies(ClaimOf(p))
    BY <1>3, <1>4, <1>9, <2>1 DEF ExecuteClaim, Commit, ledgerVars
  <2>2. CASE Applies(ClaimOf(p))
    <3> DEFINE s == ClaimOf(p)
    <3>1. s \in Statement /\ Lawful(s)
      BY <1>9, SentLawful DEF ExecuteClaim
    <3>2. s.job = task[p].job /\ s.row.st = "submitting"
      BY <1>2 DEF ClaimOf, CompareAndSwap, begin_submission, Row
    <3>3. /\ \A t \in Tasks \ {p} : task'[t] = task[t]
          /\ task'[p].pc = "egress" /\ task'[p].job = s.job /\ task'[p].snap = s.row
      BY <1>9, <2>2, <3>2 DEF ExecuteClaim, TypeOK, GoodTask, Task
    <3>4. Applies(s) /\ Commit(s) /\ late' = late /\ page' = page /\ paid' = paid /\ phase' = phase
      BY <1>9, <2>2 DEF ExecuteClaim, bootVars
    <3> HIDE DEF s
    <3> QED BY <1>2, <3>1, <3>2, <3>3, <3>4, WriteStep
  <2> QED BY <2>1, <2>2
<1>10. CASE ExecuteClaimFails(p)
  <2>1. /\ ledger' = ledger /\ paid' = paid /\ page' = page /\ phase' = phase
        /\ \A s \in late' : s \in late \/ (At(p, "claim") /\ s = ClaimOf(p))
    BY <1>10 DEF ExecuteClaimFails, Abandon, bootVars
  <2>2. \A s \in late' : s \in late \/ LateSafe(s)'
    <3>1. \A t \in Tasks : task'[t].pc \in InFlightPc => task'[t] = task[t]
      BY <1>4, <1>10 DEF ExecuteClaimFails
    <3> QED BY <2>1, <3>1, AbandonedSafe
  <2> QED BY <1>2, <1>4, <1>10, <2>1, <2>2, QuietStep DEF ExecuteClaimFails
<1>11. CASE Recognize(p)
  <2>1. PICK out \in Outcomes : \E n \in AcceptedBy(out) :
            /\ task' = [task EXCEPT ![p].pc = "persist", ![p].out = out]
            /\ paid' = [paid EXCEPT ![task[p].job] = @ + n]
    BY <1>11 DEF Recognize
  <2>2. PICK n \in AcceptedBy(out) :
            /\ task' = [task EXCEPT ![p].pc = "persist", ![p].out = out]
            /\ paid' = [paid EXCEPT ![task[p].job] = @ + n]
    BY <2>1
  <2> DEFINE j == task[p].job
  <2>3. /\ \A t \in Tasks \ {p} : task'[t] = task[t]
        /\ task'[p].pc = "persist" /\ task'[p].job = j
        /\ task'[p].snap = task[p].snap /\ task'[p].out = out
    BY <2>2 DEF TypeOK, GoodTask, Task
  <2>4. task[p].pc = "egress" /\ j \in Jobs
    BY <1>2, <1>11 DEF Recognize, At
  <2>5. paid[j] = 0 /\ n \in {0, 1}
    BY <2>4 DEF FenceInv, At, AcceptedBy
  <2>6. paid'[j] = n /\ \A k \in Jobs : k # j => paid'[k] = paid[k]
    BY <2>2, <2>4, <2>5 DEF TypeOK
  <2>7. ledger[j] = task[p].snap /\ ledger[j].st = "submitting"
    BY <2>4 DEF FenceInv, InFlightOwnsRow, InFlightPc
  <2>8. \A t \in Tasks : task[t].pc \in InFlightPc /\ task[t].job = j => t = p
    BY <2>4 DEF FenceInv, InFlightOwnsRow, InFlightPc
  <2>9. ledger' = ledger /\ late' = late /\ page' = page /\ phase' = phase
    BY <1>11 DEF Recognize, ledgerVars, bootVars
  <2>10. \A t \in Tasks : task[t].pc \in InFlightPc => task[t].job \in Jobs
    BY DEF TypeOK, GoodTask, InFlightPc
  <2> HIDE DEF j
  <2>11. RowTruth'
    BY <2>5, <2>6, <2>7, <2>9 DEF FenceInv, RowTruth
  <2>12. InFlightOwnsRow'
    BY <2>3, <2>4, <2>7, <2>8, <2>9 DEF FenceInv, InFlightOwnsRow, InFlightPc
  <2>13. \A t \in Tasks : task'[t].pc \in SnapshotPc =>
            Actionable(task'[t].snap.st) /\ Known(task[t].job, task[t].snap)'
    BY <2>3, <2>9 DEF FenceInv, SnapshotPc, Known
  <2>14. \A t \in Tasks : At(t, "egress")' => paid'[task'[t].job] = 0
    BY <2>3, <2>6, <2>8, <2>10 DEF FenceInv, At, InFlightPc
  <2>15. \A t \in Tasks : At(t, "persist")' => paid'[task'[t].job] \in AcceptedBy(task'[t].out)
    BY <2>3, <2>6, <2>8, <2>10 DEF FenceInv, At, InFlightPc
  <2>16. ASSUME NEW s \in late, LateSafe(s)
         PROVE  LateSafe(s)'
    <3>1. s.job \in Jobs
      BY DEF TypeOK, Statement
    <3>2. CASE s.job = j
      <4>1. ledger[j].rev # s.row.rev - 1
        BY <2>4, <2>16, <3>2 DEF LateSafe, InFlightPc, j
      <4> QED BY <2>9, <2>16, <3>2, <4>1 DEF LateSafe, Lawful
    <3>3. CASE s.job # j
      <4>1. \A t \in Tasks : task'[t].pc \in InFlightPc /\ task'[t].job = s.job =>
                task[t].pc \in InFlightPc /\ task[t].job = s.job
        BY <2>3, <3>3
      <4> QED BY <2>6, <2>9, <2>16, <3>1, <3>3, <4>1 DEF LateSafe, Lawful
    <3> QED BY <3>2, <3>3
  <2>17. \A s \in late' : LateSafe(s)'
    BY <2>9, <2>16 DEF FenceInv
  <2>18. \A s \in page' : Known(s.job, s.row)'
    BY <2>9 DEF FenceInv, Known
  <2> QED BY <1>2, <2>9, <2>11, <2>12, <2>13, <2>14, <2>15, <2>17, <2>18 DEF FenceInv
<1>12. CASE ExecutePersist(p)
  <2>1. /\ \A t \in Tasks \ {p} : task'[t] = task[t]
        /\ task'[p].pc \notin SnapshotPc \cup InFlightPc
    <3>1. CASE Finish(p)
      BY <1>4, <3>1
    <3>2. CASE task' = [task EXCEPT ![p].pc = "cleanup", ![p].snap = PersistOf(p).row,
                                    ![p].out = "none"]
      BY <3>2 DEF TypeOK, GoodTask, Task, SnapshotPc, InFlightPc
    <3> QED BY <1>12, <3>1, <3>2 DEF ExecutePersist
  <2>2. CASE ~Applies(PersistOf(p))
    BY <1>3, <1>12, <2>1, <2>2 DEF ExecutePersist, Commit, ledgerVars
  <2>3. CASE Applies(PersistOf(p))
    <3> DEFINE s == PersistOf(p)
    <3>1. s \in Statement /\ Lawful(s)
      BY <1>12, SentLawful DEF ExecutePersist
    <3>2. \A t \in Tasks \ {p} : ~(task[t].pc \in InFlightPc /\ task[t].job = s.job)
      BY <1>12 DEF ExecutePersist, At, PersistOf, CompareAndSwap, FenceInv, InFlightOwnsRow,
                   InFlightPc
    <3>3. Applies(s) /\ Commit(s) /\ late' = late /\ page' = page /\ paid' = paid /\ phase' = phase
      BY <1>12, <2>3 DEF ExecutePersist, bootVars
    <3> HIDE DEF s
    <3> QED BY <1>2, <2>1, <3>1, <3>2, <3>3, WriteStep
  <2> QED BY <2>2, <2>3
<1>13. CASE ExecutePersistFails(p)
  <2>1. /\ ledger' = ledger /\ paid' = paid /\ page' = page /\ phase' = phase
        /\ \A s \in late' : s \in late \/ (At(p, "persist") /\ s = PersistOf(p))
    BY <1>13 DEF ExecutePersistFails, Abandon, bootVars
  <2>2. \A t \in Tasks : task'[t].pc \in InFlightPc => t # p /\ task'[t] = task[t]
    BY <1>4, <1>13 DEF ExecutePersistFails
  <2>3. \A s \in late' : s \in late \/ LateSafe(s)'
    BY <2>1, <2>2, AbandonedSafe
  <2> QED BY <1>2, <1>4, <1>13, <2>1, <2>3, QuietStep DEF ExecutePersistFails
<1> QED
  BY <1>5, <1>6, <1>7, <1>8, <1>9, <1>10, <1>11, <1>12, <1>13 DEF ExecuteStep

\* A step of startup, of maintenance, of the drain worker, a crash and a
\* statement run late keep the fence.
LEMMA StartupFence ==
    ASSUME TypeOK, TypeOK', FenceInv,
           Boot \/ StartupStep \/ DrainStep \/ Crash \/ LateStatement
    PROVE  FenceInv'
<1>1. \A t \in Tasks : phase # "serving" => task[t].pc = "idle"
  BY DEF FenceInv, At
<1>2. ASSUME UNCHANGED <<ledgerVars, task, paid>>, page' \subseteq page, phase # "serving"
      PROVE  FenceInv'
  BY <1>1, <1>2, QuietStep DEF ledgerVars
<1>3. ListPage => \A s \in page' : s.row = ledger[s.job]
  BY DEF ListPage
<1>4. CASE Boot \/ RecoverRemove \/ RecoverDone \/ MaintainEntry \/ Serve
  <2>1. page' \subseteq page
    BY <1>4 DEF Boot, RecoverRemove, RecoverDone, MaintainEntry, Serve
  <2>2. UNCHANGED <<ledgerVars, task, paid>> /\ phase # "serving"
    BY <1>4 DEF Boot, RecoverRemove, RecoverDone, MaintainEntry, Serve
  <2> QED BY <1>2, <2>1, <2>2
<1>5. CASE RecoverRefuses \/ MaintainRefuses
  BY <1>2, <1>5 DEF RecoverRefuses, MaintainRefuses, Stop
<1>6. CASE StartupSpoolFails
  BY <1>2, <1>6 DEF StartupSpoolFails, Stop
<1>7. CASE RecoverPage
  BY <1>1, <1>3, <1>7, QuietStep DEF RecoverPage, ledgerVars
<1>8. CASE RecoverRow
  <2>1. PICK s \in page :
            /\ IsNext(s)
            /\ IF s.row.st = "submitting" THEN Commit(RecoveryOf(s)) ELSE UNCHANGED ledger
            /\ IF s.row.st = "submitting" /\ Applies(RecoveryOf(s))
               THEN phase' = "recover_remove" /\ UNCHANGED page
               ELSE page' = page \ {s} /\ UNCHANGED phase
    BY <1>8 DEF RecoverRow
  <2>2. phase = "recover" /\ UNCHANGED <<late, task, paid>> /\ page' \subseteq page
    BY <1>8, <2>1 DEF RecoverRow
  <2>3. CASE ~(s.row.st = "submitting" /\ Applies(RecoveryOf(s)))
    <3>1. ledger' = ledger
      BY <2>1, <2>3 DEF Commit
    <3> QED BY <1>2, <2>2, <3>1 DEF ledgerVars
  <2>4. CASE s.row.st = "submitting" /\ Applies(RecoveryOf(s))
    <3> DEFINE w == RecoveryOf(s)
    <3>1. w \in Statement /\ Lawful(w)
      BY <2>4, SentLawful
    <3>2. Applies(w) /\ Commit(w) /\ phase' = "recover_remove"
      BY <2>1, <2>4
    <3>3. Drainer \in Tasks
      BY DEF Tasks
    <3> HIDE DEF w
    <3> QED BY <1>1, <2>2, <3>1, <3>2, <3>3, WriteStep DEF InFlightPc
  <2> QED BY <2>3, <2>4
<1>9. CASE StartupLedgerFails
  <2>1. /\ ledger' = ledger /\ paid' = paid /\ task' = task /\ page' = {} /\ phase # "serving"
        /\ \A l \in late' : \/ l \in late
                            \/ \E x \in page : x.row.st = "submitting" /\ l = RecoveryOf(x)
    BY <1>9 DEF StartupLedgerFails, Stop, Abandon
  <2>2. \A l \in late' : l \in late \/ LateSafe(l)'
    BY <1>1, <2>1, AbandonedSafe DEF InFlightPc
  <2> QED BY <1>1, <2>1, <2>2, QuietStep
<1>10. CASE DrainPage
  <2>1. \A s \in page' : s \in page \/ s.row = ledger[s.job]
    BY <1>3, <1>10 DEF DrainPage
  <2> QED BY <1>10, <2>1, QuietStep DEF DrainPage, ledgerVars
<1>11. CASE DrainNext
  <2>1. Drainer \in Tasks
    BY DEF Tasks
  <2>2. /\ \A t \in Tasks \ {Drainer} : task'[t] = task[t]
        /\ task'[Drainer].pc \notin SnapshotPc \cup InFlightPc
    <3>1. task' = task \/ \E j : StartExecution(Drainer, j)
      BY <1>11 DEF DrainNext
    <3>2. task[Drainer].pc = "idle"
      BY <1>11 DEF DrainNext, At
    <3> QED BY <2>1, <3>1, <3>2, TaskEffects DEF SnapshotPc, InFlightPc
  <2>3. page' \subseteq page /\ phase' = "serving"
    BY <1>11 DEF DrainNext
  <2> QED BY <1>11, <2>2, <2>3, QuietStep DEF DrainNext, ledgerVars
<1>12. CASE Crash
  <2>1. \A t \in Tasks : task'[t].pc = "idle"
    BY <1>12 DEF Crash, IdleTask
  <2>2. /\ ledger' = ledger /\ paid' = paid /\ page' = {}
        /\ \A l \in late' : \/ l \in late
                            \/ \E p \in Tasks : At(p, "insert") /\ l = InsertOf(p)
                            \/ \E p \in Tasks : At(p, "claim") /\ l = ClaimOf(p)
                            \/ \E p \in Tasks : At(p, "persist") /\ l = PersistOf(p)
                            \/ \E x \in page : x.row.st = "submitting" /\ l = RecoveryOf(x)
    BY <1>12 DEF Crash, Stop, Abandon
  <2>3. \A l \in late' : l \in late \/ LateSafe(l)'
    BY <2>1, <2>2, AbandonedSafe DEF InFlightPc
  <2> QED BY <2>1, <2>2, <2>3, QuietStep DEF SnapshotPc, InFlightPc
<1>13. CASE LateStatement
  <2>1. PICK s \in late : Commit(s) /\ late' = late \ {s}
    BY <1>13 DEF LateStatement, RunLate
  <2>2. task' = task /\ paid' = paid /\ page' = page /\ phase' = phase
    BY <1>13 DEF LateStatement, bootVars
  <2>3. CASE ~Applies(s)
    BY <1>1, <2>1, <2>2, <2>3, QuietStep DEF Commit
  <2>4. CASE Applies(s)
    <3>1. s \in Statement /\ LateSafe(s)
      BY DEF FenceInv, TypeOK
    <3>2. Lawful(s) /\ \A p \in Tasks : ~(task[p].pc \in InFlightPc /\ task[p].job = s.job)
      BY <2>4, <3>1 DEF LateSafe, Applies
    <3>3. Drainer \in Tasks
      BY DEF Tasks
    <3> QED BY <1>1, <2>1, <2>2, <2>4, <3>1, <3>2, <3>3, WriteStep
  <2> QED BY <2>3, <2>4
<1> QED
  BY <1>4, <1>5, <1>6, <1>7, <1>8, <1>9, <1>10, <1>11, <1>12, <1>13
  DEF StartupStep, DrainStep

\* The fence holds in every reachable state, for any number of jobs, requests
\* and slots, any page limit and any faults: stale snapshots and late
\* statements are harmless, and money is accounted for in the row.
THEOREM FenceCorrect == Spec => []FenceInv
<1>1. Init => FenceInv
  <2> SUFFICES ASSUME Init PROVE FenceInv
    OBVIOUS
  <2>1. \A p \in Tasks : task[p].pc = "idle"
    BY DEF Init, IdleTask
  <2>2. \A j \in Jobs : ledger[j].st = "absent" /\ ledger[j].rev = -1 /\ paid[j] = 0
    BY DEF Init, LedgerInit, NoRow
  <2>3. RowTruth
    BY <2>2 DEF RowTruth
  <2> QED BY <2>1, <2>3 DEF Init, LedgerInit, FenceInv, InFlightOwnsRow, At, SnapshotPc, InFlightPc
<1>2. TypeOK /\ TypeOK' /\ FenceInv /\ [Next]_vars => FenceInv'
  <2>1. TypeOK /\ TypeOK' /\ FenceInv /\ Next => FenceInv'
    BY AdmitFence, ExecuteFence, StartupFence DEF Next
  <2>2. TypeOK /\ TypeOK' /\ FenceInv /\ UNCHANGED vars => FenceInv'
    BY QuietStep DEF vars, ledgerVars, bootVars, FenceInv, At
  <2> QED BY <2>1, <2>2
<1> QED BY <1>1, <1>2, TypeCorrect, PTL DEF Spec

\* No job is ever paid for twice.
THEOREM PaidOnce == Spec => []PaidAtMostOnce
<1>1. FenceInv => PaidAtMostOnce
  BY DEF FenceInv, RowTruth, PaidAtMostOnce
<1> QED BY <1>1, FenceCorrect, PTL

\* A task in flight owns its row and is the only one in flight for its job.
THEOREM InFlightOwnership == Spec => []InFlightOwnsRow
<1>1. FenceInv => InFlightOwnsRow
  BY DEF FenceInv
<1> QED BY <1>1, FenceCorrect, PTL

(***************************************************************************)
(* Refinement of BatchPromise                                              *)
(***************************************************************************)

\* A lawful statement that applies is a step of the promise: an admission, a
\* submission, a retry of what cost nothing, or a verdict.
LEMMA LawfulStep ==
    ASSUME TypeOK, FenceInv, NEW s \in Statement, Lawful(s), Applies(s), Commit(s),
           paid' = paid
    PROVE  Promise!Next
<1> DEFINE j == s.job
           V == [k \in Jobs |-> VerdictOf(ledger[k].st)]
           W == [k \in Jobs |-> VerdictOf(ledger'[k].st)]
<1>1. /\ j \in Jobs /\ ledger[j].rev = s.row.rev - 1
      /\ ledger' = [ledger EXCEPT ![j] = s.row]
  BY DEF Statement, Applies, Commit
<1>2. /\ ledger'[j] = s.row
      /\ \A k \in Jobs : k # j => ledger'[k] = ledger[k]
  BY <1>1 DEF TypeOK
<1>3. W = [V EXCEPT ![j] = VerdictOf(s.row.st)]
  <2>1. \A k \in Jobs : W[k] = IF k = j THEN VerdictOf(s.row.st) ELSE V[k]
    BY <1>2
  <2> QED BY <2>1
<1>4. /\ s.row.st = "accepted" => ledger[j].st = "absent"
      /\ s.row.st = "submitting" => Actionable(ledger[j].st)
      /\ s.row.st \notin {"accepted", "submitting"} => ledger[j].st = "submitting"
      /\ s.row.st = "retryable" => paid[j] = 0
      /\ s.row.st = "completed" => paid[j] = 1
      /\ s.row.st \in Status
  BY <1>1 DEF Lawful
<1>5. V[j] = VerdictOf(ledger[j].st)
  BY <1>1
<1>6. CASE s.row.st = "accepted"
  <2>1. Promise!Admit(j)
    BY <1>3, <1>4, <1>5, <1>6 DEF Promise!Admit, Promise!Move, VerdictOf, Actionable
  <2> QED BY <1>1, <2>1 DEF Promise!Next
<1>7. CASE s.row.st = "submitting"
  <2>1. Promise!Submit(j)
    BY <1>3, <1>4, <1>5, <1>7 DEF Promise!Submit, Promise!Move, VerdictOf, Actionable
  <2> QED BY <1>1, <2>1 DEF Promise!Next
<1>8. CASE s.row.st = "retryable"
  <2>1. Promise!Retry(j)
    BY <1>3, <1>4, <1>5, <1>8 DEF Promise!Retry, Promise!Move, VerdictOf, Actionable
  <2> QED BY <1>1, <2>1 DEF Promise!Next
<1>9. CASE s.row.st \in {"completed", "failed", "outcome_unknown"}
  <2>1. Promise!Conclude(j, s.row.st)
    BY <1>3, <1>4, <1>5, <1>9 DEF Promise!Conclude, Promise!Move, VerdictOf, Actionable
  <2> QED BY <1>1, <1>9, <2>1 DEF Promise!Next
<1> QED BY <1>4, <1>6, <1>7, <1>8, <1>9 DEF Status

\* Every step writes one row by a lawful statement, or makes one provider
\* call for a submitting job that has cost nothing, or does neither.
LEMMA StepShape ==
    ASSUME TypeOK, FenceInv, Next
    PROVE  \/ UNCHANGED <<ledger, paid>>
           \/ /\ paid' = paid
              /\ \E s \in Statement : Lawful(s) /\ Applies(s) /\ Commit(s)
           \/ \E p \in Tasks : Recognize(p)
<1> DEFINE Quiet == UNCHANGED <<ledger, paid>>
           Writes == /\ paid' = paid
                     /\ \E s \in Statement : Lawful(s) /\ Applies(s) /\ Commit(s)
<1>1. ASSUME NEW s \in Statement, Lawful(s), Commit(s), paid' = paid
      PROVE  Quiet \/ Writes
  BY <1>1 DEF Commit
<1>2. ASSUME NEW p \in Slots, NEW j \in Jobs, NEW q \in Requests, Post(p, j, q)
      PROVE  Quiet
  BY <1>2 DEF Post, ledgerVars
<1>3. ASSUME NEW p \in Slots, AdmitStep(p) \/ Disconnect(p)
      PROVE  Quiet \/ Writes
  <2>1. CASE AdmitInsert(p)
    <3>1. p \in Tasks
      BY DEF Tasks
    <3>2. InsertOf(p) \in Statement /\ Lawful(InsertOf(p))
      BY <2>1, <3>1, SentLawful DEF AdmitInsert
    <3> QED BY <1>1, <2>1, <3>2 DEF AdmitInsert
  <2>2. CASE ~AdmitInsert(p)
    BY <1>3, <2>2 DEF AdmitStep, Disconnect, AdmitLoad, AdmitStore, AdmitStoreRejected,
                      AdmitInsertFails, AdmitInserted, AdmitExisting, AdmitVerify,
                      AdmitDiscard, AdmitDiscardFails, ledgerVars
  <2> QED BY <2>1, <2>2
<1>4. ASSUME NEW p \in Tasks, ExecuteStep(p) \/ ReadFails(p)
      PROVE  Quiet \/ Writes \/ Recognize(p)
  <2>1. CASE ExecuteClaim(p)
    <3>1. ClaimOf(p) \in Statement /\ Lawful(ClaimOf(p))
      BY <2>1, SentLawful DEF ExecuteClaim
    <3> QED BY <1>1, <2>1, <3>1 DEF ExecuteClaim
  <2>2. CASE ExecutePersist(p)
    <3>1. PersistOf(p) \in Statement /\ Lawful(PersistOf(p))
      BY <2>2, SentLawful DEF ExecutePersist
    <3> QED BY <1>1, <2>2, <3>1 DEF ExecutePersist
  <2>3. CASE ~(ExecuteClaim(p) \/ ExecutePersist(p) \/ Recognize(p))
    BY <1>4, <2>3 DEF ExecuteStep, ReadFails, ExecuteLoad, ExecuteRead, ExecuteReadFails,
                      ExecuteClaimFails, ExecutePersistFails, ExecuteCleanup, ledgerVars
  <2> QED BY <2>1, <2>2, <2>3
<1>5. CASE RecoverRow
  <2>1. PICK s \in page :
            IF s.row.st = "submitting" THEN Commit(RecoveryOf(s)) ELSE UNCHANGED ledger
    BY <1>5 DEF RecoverRow
  <2>2. paid' = paid
    BY <1>5 DEF RecoverRow
  <2>3. CASE s.row.st = "submitting"
    <3>1. RecoveryOf(s) \in Statement /\ Lawful(RecoveryOf(s))
      BY <2>3, SentLawful
    <3> QED BY <1>1, <2>1, <2>2, <2>3, <3>1
  <2> QED BY <2>1, <2>2, <2>3
<1>6. CASE LateStatement
  <2>1. PICK s \in late : Commit(s)
    BY <1>6 DEF LateStatement, RunLate
  <2>2. s \in Statement /\ Lawful(s) /\ paid' = paid
    BY <1>6 DEF FenceInv, LateSafe, TypeOK, LateStatement
  <2> QED BY <1>1, <2>1, <2>2
<1>7. CASE Boot \/ DrainStep \/ Crash \/ (StartupStep /\ ~RecoverRow)
  BY <1>7 DEF Boot, DrainStep, DrainPage, DrainNext, Crash, StartupStep, RecoverRefuses,
              RecoverPage,
              RecoverRemove, RecoverDone, MaintainEntry, MaintainRefuses, Serve,
              StartupLedgerFails, StartupSpoolFails, ledgerVars
<1> HIDE DEF Quiet, Writes
<1>8. Quiet \/ Writes \/ \E p \in Tasks : Recognize(p)
  <2>1. CASE \E p \in Slots : \/ \E j \in Jobs, q \in Requests : Post(p, j, q)
                              \/ AdmitStep(p) \/ Disconnect(p)
    BY <1>2, <1>3, <2>1
  <2>2. CASE \E p \in Tasks : ExecuteStep(p) \/ ReadFails(p)
    BY <1>4, <2>2
  <2>3. CASE Boot \/ StartupStep \/ DrainStep \/ Crash \/ LateStatement
    BY <1>5, <1>6, <1>7, <2>3 DEF Quiet, Writes
  <2> QED BY <2>1, <2>2, <2>3 DEF Next
<1> QED BY <1>8 DEF Quiet, Writes

\* The provider call is a payment or, for the promise, nothing.
LEMMA RecognizeStep ==
    ASSUME TypeOK, FenceInv, NEW p \in Tasks, Recognize(p)
    PROVE  Promise!Next \/ UNCHANGED <<ledger, paid>>
<1> DEFINE j == task[p].job
<1>1. PICK n \in {0, 1} : paid' = [paid EXCEPT ![j] = @ + n]
  BY DEF Recognize, AcceptedBy
<1>2. j \in Jobs /\ task[p].pc \in InFlightPc /\ paid[j] = 0
  BY DEF Recognize, At, TypeOK, GoodTask, InFlightPc, FenceInv
<1>3. ledger[j].st = "submitting"
  BY <1>2 DEF FenceInv, InFlightOwnsRow
<1>4. ledger' = ledger
  BY DEF Recognize, ledgerVars
<1>5. CASE n = 0
  <2>1. paid' = paid
    BY <1>1, <1>2, <1>5 DEF TypeOK
  <2> QED BY <1>4, <2>1
<1>6. CASE n = 1
  <2>1. paid' = [paid EXCEPT ![j] = 1]
    BY <1>1, <1>2, <1>6 DEF TypeOK
  <2>2. Promise!Pay(j)
    BY <1>2, <1>3, <1>4, <2>1 DEF Promise!Pay, VerdictOf, Actionable
  <2> QED BY <1>2, <2>2 DEF Promise!Next
<1> QED BY <1>5, <1>6

\* The pipeline implements the promise: whatever tasks, crashes and lost
\* replies do, each job is admitted once, is accepted by the provider at most
\* once, is retried only while it has cost nothing, and keeps its verdict.
THEOREM PipelineKeepsPromise == Spec => KeepsPromise
<1>1. Init => Promise!Init
  BY DEF Init, LedgerInit, NoRow, Promise!Init, VerdictOf, Actionable
<1>2. TypeOK /\ FenceInv /\ [Next]_vars =>
        [Promise!Next]_<<[j \in Jobs |-> VerdictOf(ledger[j].st)], paid>>
  <2>1. ASSUME TypeOK, FenceInv, Next
        PROVE  Promise!Next \/ UNCHANGED <<ledger, paid>>
    BY <2>1, StepShape, LawfulStep, RecognizeStep
  <2> QED BY <2>1 DEF vars, ledgerVars
<1> QED BY <1>1, <1>2, TypeCorrect, FenceCorrect, PTL DEF Spec, KeepsPromise, Promise!Spec

(***************************************************************************)
(* Startup: the walk over the pages and the sweep of the spool             *)
(***************************************************************************)

\* The recovery walk: a submission that was in flight when the head was
\* frozen and has not been moved since is still submitting, at or below the
\* head, and ahead of the walk: on a page not read yet, or on the current one
\* as it stands (reconcile_startup, reconcile_candidates).
WalkInv ==
    phase \in {"recover", "recover_remove"} =>
        \A i \in interrupted :
            /\ i[2] <= ledger[i[1]].rev
            /\ ledger[i[1]].rev = i[2] =>
                /\ ledger[i[1]].st = "submitting"
                /\ i[1] <= head
                /\ \/ more /\ i[1] > cursor
                   \/ \E s \in page : s.job = i[1] /\ s.row = ledger[i[1]]

\* Audio is removed during the walk only behind a swapped row.
RemoveInv ==
    phase = "recover_remove" =>
        \A s \in page : IsNext(s) =>
            is_terminal(ledger[s.job].st) /\ s.row.rev < ledger[s.job].rev

\* After the walk every interrupted submission has moved on.
FencedInv ==
    phase \in {"maintain", "serving"} =>
        \A i \in interrupted : i[2] < ledger[i[1]].rev

\* A verdict still on the wire during startup is about a submission that was
\* in flight when the head was frozen: a statement nobody waits for cannot
\* finish a submission begun later.
OrphanInv ==
    phase \in {"recover", "recover_remove", "maintain"} =>
        \A s \in late :
            (ledger[s.job].rev = s.row.rev - 1 /\ s.row.st \notin {"accepted", "submitting"})
                => <<s.job, ledger[s.job].rev>> \in interrupted

\* Maintenance has left no audio of a finished job behind it.
SweepInv ==
    phase = "maintain" =>
        \A f \in files : f \in entries \/ ~is_terminal(ledger[f[1]].st)

\* A process that is down remembers no page and no cursor.
DownInv == phase = "down" => cursor = 0 /\ page = {}

StartupInv == WalkInv /\ RemoveInv /\ FencedInv /\ OrphanInv /\ SweepInv /\ DownInv

\* A set of numbers that is not empty has a least member.
LEMMA LeastMember ==
    ASSUME NEW T \in SUBSET Nat, T # {}
    PROVE  \E m \in T : \A k \in T : m <= k
<1> DEFINE Less == OpToRel(<, Nat)
<1>1. \E m \in T : \A k \in T : ~(<<k, m>> \in Less)
  BY NatLessThanWellFounded, WFMin
<1>2. \A k, m \in Nat : k < m => <<k, m>> \in Less
  BY DEF OpToRel
<1> HIDE DEF Less
<1>3. PICK m \in T : \A k \in T : ~(<<k, m>> \in Less)
  BY <1>1
<1>4. \A k \in T : ~(k < m)
  BY <1>2, <1>3
<1> QED BY <1>4

\* The first n of a finite set of numbers: it is closed downwards, and it is
\* everything unless it has n members (ORDER BY job_id LIMIT n).
LEMMA FirstNFacts ==
    ASSUME NEW S \in SUBSET Nat, IsFiniteSet(S), NEW n \in Nat
    PROVE  /\ \A i \in S, c \in FirstN(S, n) : i <= c => i \in FirstN(S, n)
           /\ Cardinality(FirstN(S, n)) < n => FirstN(S, n) = S
<1> DEFINE Upto(j) == {k \in S : k <= j}
           F == FirstN(S, n)
<1>1. F = {j \in S : Cardinality(Upto(j)) <= n}
  BY DEF FirstN
<1>2. \A j \in S : IsFiniteSet(Upto(j)) /\ Cardinality(Upto(j)) \in Nat
  BY FS_Subset, FS_CardinalityType
<1>3. ASSUME NEW i \in S, NEW c \in F, i <= c
      PROVE  i \in F
  <2>1. c \in S /\ Cardinality(Upto(c)) <= n
    BY <1>1
  <2>2. Upto(i) \in SUBSET Upto(c)
    <3>1. i \in Nat /\ c \in Nat
      BY <1>1
    <3> SUFFICES ASSUME NEW k \in S, k <= i PROVE k <= c
      BY DEF Upto
    <3> HIDE DEF F
    <3> QED BY <1>3, <3>1
  <2>3. Cardinality(Upto(i)) <= Cardinality(Upto(c))
    BY <1>2, <2>1, <2>2, FS_Subset
  <2> HIDE DEF Upto
  <2>4. Cardinality(Upto(i)) <= n
    BY <1>2, <2>1, <2>3
  <2> QED BY <1>1, <2>4
<1>4. ASSUME Cardinality(F) < n
      PROVE  F = S
  <2> SUFFICES ASSUME S \ F # {} PROVE FALSE
    BY <1>1
  <2>1. PICK m \in S \ F : \A k \in S \ F : m <= k
    <3>1. S \ F \in SUBSET Nat
      OBVIOUS
    <3> HIDE DEF F
    <3> QED BY <3>1, LeastMember
  <2>2. Cardinality(Upto(m)) > n
    <3>1. ~(Cardinality(Upto(m)) <= n)
      BY <1>1, <2>1
    <3> QED BY <1>2, <2>1, <3>1
  <2>3. Upto(m) \ {m} \in SUBSET F
    <3> SUFFICES ASSUME NEW k \in S, k <= m, k # m PROVE k \in F
      OBVIOUS
    <3> QED BY <2>1
  <2>4. IsFiniteSet(F)
    BY <1>1, FS_Subset
  <2>5. Cardinality(Upto(m) \ {m}) = Cardinality(Upto(m)) - 1
    <3>1. m \in Upto(m)
      BY <2>1
    <3> HIDE DEF Upto
    <3> QED BY <1>2, <2>1, <3>1, FS_RemoveElement
  <2>6. Cardinality(Upto(m) \ {m}) <= Cardinality(F)
    BY <2>3, <2>4, FS_Subset
  <2>7. Cardinality(F) \in Nat /\ Cardinality(Upto(m)) \in Nat
    BY <1>2, <2>1, <2>4, FS_CardinalityType
  <2> HIDE DEF F, Upto
  <2> QED BY <1>4, <2>2, <2>5, <2>6, <2>7
<1> QED BY <1>3, <1>4

\* Reading a page loses nobody: a candidate beyond the cursor is on the page
\* as it stands, or beyond the new cursor with more to come.
LEMMA PageKeeps ==
    ASSUME TypeOK, ListPage, NEW j \in Candidates(cursor, head)
    PROVE  \/ more' /\ j > cursor'
           \/ \E s \in page' : s.job = j /\ s.row = ledger[j]
<1> DEFINE S == Candidates(cursor, head)
           ids == FirstN(S, PageLimit)
<1>1. S \in SUBSET Nat /\ (\A k \in S : k <= head) /\ head \in Nat
  <2>1. head \in Nat
    BY JobsAssumption DEF TypeOK
  <2>2. S \in SUBSET Nat /\ (\A k \in S : k <= head)
    BY JobsAssumption DEF Candidates
  <2> QED BY <2>1, <2>2
<1>2. IsFiniteSet(S)
  <2> HIDE DEF S
  <2> QED BY <1>1, FS_BoundedSetOfNaturals
<1>3. /\ \A i \in S, c \in ids : i <= c => i \in ids
      /\ Cardinality(ids) < PageLimit => ids = S
  <2> HIDE DEF S
  <2> QED BY <1>1, <1>2, PageAssumption, FirstNFacts
<1>4. ids \in SUBSET S
  BY DEF FirstN
<1>5. Cardinality(ids) \in Nat
  <2> HIDE DEF S, ids
  <2> QED BY <1>2, <1>4, FS_Subset, FS_CardinalityType
<1>6. /\ page' = {[job |-> k, row |-> ledger[k]] : k \in ids}
      /\ more' = (Cardinality(ids) >= PageLimit)
      /\ Cardinality(ids) >= PageLimit => cursor' \in ids
  BY DEF ListPage
<1>7. j \in S
  OBVIOUS
<1> HIDE DEF S, ids
<1>8. CASE j \in ids
  <2>1. [job |-> j, row |-> ledger[j]] \in page'
    BY <1>6, <1>8
  <2> QED BY <2>1
<1>9. CASE j \notin ids
  <2>1. Cardinality(ids) >= PageLimit
    BY <1>3, <1>5, <1>7, <1>9, PageAssumption
  <2>2. cursor' \in ids /\ cursor' \in Nat /\ j \in Nat
    BY <1>1, <1>4, <1>6, <1>7, <2>1
  <2>3. ~(j <= cursor')
    BY <1>3, <1>7, <1>9, <2>2
  <2>4. more'
    BY <1>6, <2>1, Zenon
  <2>5. j > cursor'
    BY <2>2, <2>3
  <2> QED BY <2>4, <2>5
<1> QED BY <1>8, <1>9

\* What a step does to a row: nothing, or one revision and one transition.
RowMoves(j) ==
    /\ ledger'[j].rev = ledger[j].rev + 1
    /\ \/ ledger[j].st = "absent" /\ ledger'[j].st = "accepted"
       \/ /\ Actionable(ledger[j].st) /\ ledger'[j].st = "submitting"
          /\ ledger'[j].req = ledger[j].req
       \/ /\ ledger[j].st = "submitting"
          /\ ledger'[j].st \in {"retryable", "completed", "failed", "outcome_unknown"}
          /\ ledger'[j].req = ledger[j].req

\* A lawful statement that applies moves its own row by one transition and
\* touches no other.
LEMMA LawfulMoves ==
    ASSUME TypeOK, FenceInv, NEW s \in Statement, Lawful(s), Applies(s), Commit(s)
    PROVE  /\ RowMoves(s.job)
           /\ ledger'[s.job] = s.row
           /\ \A j \in Jobs : j # s.job => ledger'[j] = ledger[j]
<1>1. /\ s.job \in Jobs /\ ledger' = [ledger EXCEPT ![s.job] = s.row]
      /\ ledger[s.job].rev = s.row.rev - 1
      /\ s.row.rev > 0 => ledger[s.job].req = s.row.req
  BY DEF Statement, Applies, Commit
<1>2. /\ ledger'[s.job] = s.row
      /\ \A k \in Jobs : k # s.job => ledger'[k] = ledger[k]
  BY <1>1 DEF TypeOK
<1>3. ledger[s.job].rev \in Nat \cup {-1} /\ s.row.rev \in Nat \cup {-1}
  BY <1>1 DEF TypeOK, Statement, Row
<1>4. /\ s.row.st = "accepted" => ledger[s.job].st = "absent"
      /\ s.row.st = "submitting" => Actionable(ledger[s.job].st)
      /\ s.row.st \notin {"accepted", "submitting"} => ledger[s.job].st = "submitting"
      /\ s.row.st \in Status
  BY <1>1 DEF Lawful
<1>5. ledger[s.job].st # "absent" => s.row.rev > 0
  <2>1. ledger[s.job].st # "absent" => ledger[s.job].rev # -1
    BY <1>1 DEF FenceInv, RowTruth
  <2> QED BY <1>1, <1>3, <2>1
<1>6. ledger'[s.job].rev = ledger[s.job].rev + 1
  BY <1>1, <1>2, <1>3
<1> QED BY <1>1, <1>2, <1>4, <1>5, <1>6 DEF RowMoves, Status, Actionable

\* Whatever the step, a row stays as it is or makes one transition.
LEMMA RowsMove ==
    ASSUME TypeOK, FenceInv, Next, NEW j \in Jobs
    PROVE  ledger'[j] = ledger[j] \/ RowMoves(j)
<1>1. CASE UNCHANGED <<ledger, paid>> \/ \E p \in Tasks : Recognize(p)
  BY <1>1 DEF Recognize, ledgerVars
<1>2. CASE \E s \in Statement : Lawful(s) /\ Applies(s) /\ Commit(s)
  BY <1>2, LawfulMoves
<1> QED BY <1>1, <1>2, StepShape

\* The types the startup lemmas need, in one place.
LEMMA StartupFacts ==
    ASSUME TypeOK
    PROVE  /\ \A j \in Jobs : ledger[j] \in Row /\ ledger[j].rev \in Int /\ j \in Nat
           /\ \A i \in interrupted : i[1] \in Jobs /\ i[2] \in Int
           /\ \A s \in page : s.job \in Jobs /\ s.row \in Row /\ s.row.rev \in Int
           /\ \A s \in late : s.job \in Jobs /\ s.row \in Row /\ s.row.rev \in Int
           /\ \A f \in files : f[1] \in Jobs /\ f[2] # NoAudio
BY JobsAssumption, RequestAssumption DEF TypeOK, Snapshot, Statement, Row

\* Revisions only grow, and a row whose revision stays is the same row.
LEMMA RevisionsGrow ==
    ASSUME TypeOK, FenceInv, Next, NEW j \in Jobs
    PROVE  /\ ledger[j].rev <= ledger'[j].rev
           /\ ledger'[j].rev = ledger[j].rev => ledger'[j] = ledger[j]
<1>1. ledger[j].rev \in Int
  BY StartupFacts
<1>2. ledger'[j] = ledger[j] \/ ledger'[j].rev = ledger[j].rev + 1
  BY RowsMove DEF RowMoves
<1> QED BY <1>1, <1>2

\* Tasks and the drain worker run only while the process serves.
LEMMA TasksServe ==
    ASSUME TypeOK, FenceInv,
           \/ \E p \in Slots : \/ \E j \in Jobs, q \in Requests : Post(p, j, q)
                               \/ AdmitStep(p) \/ Disconnect(p)
           \/ \E p \in Tasks : ExecuteStep(p) \/ ReadFails(p)
           \/ DrainStep
    PROVE  phase = "serving" /\ UNCHANGED <<phase, interrupted>>
<1>1. \A p \in Tasks : task[p].pc # "idle" => phase = "serving"
  BY DEF FenceInv, At
<1>2. ASSUME NEW p \in Slots, NEW j \in Jobs, NEW q \in Requests, Post(p, j, q)
      PROVE  phase = "serving" /\ UNCHANGED <<phase, interrupted>>
  BY <1>2 DEF Post, bootVars
<1>3. ASSUME NEW p \in Slots, AdmitStep(p) \/ Disconnect(p)
      PROVE  phase = "serving" /\ UNCHANGED <<phase, interrupted>>
  <2>1. p \in Tasks
    BY DEF Tasks
  <2>2. task[p].pc # "idle" /\ UNCHANGED bootVars
    BY <1>3 DEF AdmitStep, Disconnect, AdmitLoad, AdmitStore, AdmitStoreRejected, AdmitInsert,
                AdmitInsertFails, AdmitInserted, AdmitExisting, AdmitVerify, AdmitDiscard,
                AdmitDiscardFails, At, AdmissionPc
  <2> QED BY <1>1, <2>1, <2>2 DEF bootVars
<1>4. ASSUME NEW p \in Tasks, ExecuteStep(p) \/ ReadFails(p)
      PROVE  phase = "serving" /\ UNCHANGED <<phase, interrupted>>
  <2>1. task[p].pc # "idle" /\ UNCHANGED bootVars
    BY <1>4 DEF ExecuteStep, ReadFails, ExecuteLoad, ExecuteRead, ExecuteReadFails, ExecuteClaim,
                ExecuteClaimFails, Recognize, ExecutePersist, ExecutePersistFails,
                ExecuteCleanup, At
  <2> QED BY <1>1, <2>1 DEF bootVars
<1>5. DrainStep => phase = "serving" /\ UNCHANGED <<phase, interrupted>>
  BY DEF DrainStep, DrainPage, DrainNext
<1> QED BY <1>2, <1>3, <1>4, <1>5

\* While the process serves, only the fence has to be kept.
LEMMA SServing ==
    ASSUME TypeOK, FenceInv, StartupInv, Next,
           phase \in {"serving", "maintain"}, phase' = "serving", interrupted' = interrupted
    PROVE  StartupInv'
<1>1. \A i \in interrupted : i[2] < ledger'[i[1]].rev
  <2> SUFFICES ASSUME NEW i \in interrupted PROVE i[2] < ledger'[i[1]].rev
    OBVIOUS
  <2>1. i[1] \in Jobs /\ i[2] \in Int /\ ledger[i[1]].rev \in Int
    BY StartupFacts
  <2>2. i[2] < ledger[i[1]].rev
    BY DEF StartupInv, FencedInv
  <2>3. ledger'[i[1]] = ledger[i[1]] \/ ledger'[i[1]].rev = ledger[i[1]].rev + 1
    BY <2>1, RowsMove DEF RowMoves
  <2> QED BY <2>1, <2>2, <2>3
<1> QED BY <1>1 DEF StartupInv, WalkInv, RemoveInv, FencedInv, OrphanInv, SweepInv, DownInv

\* A process that stops has nothing left to keep.
LEMMA SStop == ASSUME Stop PROVE StartupInv'
BY DEF Stop, StartupInv, WalkInv, RemoveInv, FencedInv, OrphanInv, SweepInv, DownInv

\* At the start every submission in flight is ahead of the walk, and every
\* verdict on the wire is about one of them.
LEMMA SBoot == ASSUME TypeOK, FenceInv, StartupInv, Boot PROVE StartupInv'
<1>1. /\ phase' = "recover" /\ cursor' = 0 /\ page' = {} /\ ledger' = ledger /\ late' = late
      /\ interrupted' = {<<j, ledger[j].rev>> :
                            j \in {k \in Jobs : ledger[k].st = "submitting"}}
      /\ IsRecoveryHead(head') /\ more' = (head' # 0)
  BY DEF Boot, StartupInv, DownInv, ledgerVars
<1>2. WalkInv'
  <2> SUFFICES ASSUME NEW j \in Jobs, ledger[j].st = "submitting"
               PROVE  j <= head' /\ more' /\ j > 0
    BY <1>1, StartupFacts DEF WalkInv
  <2>1. head' # 0 /\ j <= head'
    BY <1>1, JobsAssumption DEF IsRecoveryHead
  <2>2. more'
    BY <1>1, <2>1, Zenon
  <2>3. j > 0
    BY JobsAssumption
  <2> QED BY <2>1, <2>2, <2>3
<1>3. OrphanInv'
  <2> SUFFICES ASSUME NEW s \in late, ledger[s.job].rev = s.row.rev - 1,
                      s.row.st \notin {"accepted", "submitting"}
               PROVE  <<s.job, ledger[s.job].rev>> \in interrupted'
    BY <1>1 DEF OrphanInv
  <2>1. s.job \in Jobs
    BY StartupFacts
  <2>2. ledger[s.job].st = "submitting"
    BY DEF FenceInv, LateSafe, Lawful
  <2> QED BY <1>1, <2>1, <2>2
<1> QED BY <1>1, <1>2, <1>3 DEF StartupInv, RemoveInv, FencedInv, SweepInv, DownInv

\* Reading a page keeps every interrupted submission ahead of the walk.
LEMMA SRecoverPage == ASSUME TypeOK, FenceInv, StartupInv, RecoverPage PROVE StartupInv'
<1>1. /\ phase = "recover" /\ phase' = "recover" /\ page = {} /\ ListPage
      /\ UNCHANGED <<ledger, late, head, interrupted>>
  BY DEF RecoverPage, ledgerVars
<1>2. WalkInv'
  <2> SUFFICES ASSUME NEW i \in interrupted
               PROVE  /\ i[2] <= ledger[i[1]].rev
                      /\ ledger[i[1]].rev = i[2] =>
                            /\ ledger[i[1]].st = "submitting"
                            /\ i[1] <= head
                            /\ \/ more' /\ i[1] > cursor'
                               \/ \E s \in page' : s.job = i[1] /\ s.row = ledger[i[1]]
    BY <1>1 DEF WalkInv
  <2>1. /\ i[2] <= ledger[i[1]].rev
        /\ ledger[i[1]].rev = i[2] =>
             ledger[i[1]].st = "submitting" /\ i[1] <= head /\ i[1] > cursor
    BY <1>1 DEF StartupInv, WalkInv
  <2>2. i[1] \in Jobs
    BY StartupFacts
  <2>3. ledger[i[1]].rev = i[2] => i[1] \in Candidates(cursor, head)
    BY <2>1, <2>2 DEF Candidates
  <2> QED BY <1>1, <2>1, <2>3, PageKeeps
<1> QED BY <1>1, <1>2 DEF StartupInv, RemoveInv, FencedInv, OrphanInv, SweepInv, DownInv

\* A statement that applies outdates every verdict on the wire about its job.
LEMMA OrphansKept ==
    ASSUME TypeOK, FenceInv, OrphanInv, Next, late' \subseteq late,
           phase \in {"recover", "recover_remove", "maintain"}, interrupted' = interrupted
    PROVE  OrphanInv'
<1> SUFFICES ASSUME NEW s \in late, ledger'[s.job].rev = s.row.rev - 1,
                    s.row.st \notin {"accepted", "submitting"}
             PROVE  <<s.job, ledger'[s.job].rev>> \in interrupted
  BY DEF OrphanInv
<1>1. s.job \in Jobs /\ s.row.rev \in Int /\ ledger[s.job].rev \in Int
  BY StartupFacts
<1>2. s.row.rev <= ledger[s.job].rev + 1
  BY <1>1 DEF FenceInv, LateSafe, Lawful
<1>3. ledger'[s.job] = ledger[s.job] \/ ledger'[s.job].rev = ledger[s.job].rev + 1
  BY <1>1, RowsMove DEF RowMoves
<1>4. ledger'[s.job] = ledger[s.job]
  BY <1>1, <1>2, <1>3
<1> QED BY <1>4 DEF OrphanInv

\* Two next snapshots of a page are of one job.
LEMMA NextIsOne ==
    ASSUME TypeOK, NEW s \in page, NEW t \in page, IsNext(s), IsNext(t)
    PROVE  s.job = t.job
BY StartupFacts DEF IsNext

\* A row of the page: a submitting row as it stands is swapped, and then its
\* audio goes; whatever else leaves the page needed no swap.
LEMMA SRecoverRow == ASSUME TypeOK, FenceInv, StartupInv, RecoverRow PROVE StartupInv'
<1>0. Next
  BY DEF Next, StartupStep
<1>1. PICK s \in page :
        /\ IsNext(s)
        /\ IF s.row.st = "submitting" THEN Commit(RecoveryOf(s)) ELSE UNCHANGED ledger
        /\ IF s.row.st = "submitting" /\ Applies(RecoveryOf(s))
           THEN phase' = "recover_remove" /\ UNCHANGED page
           ELSE page' = page \ {s} /\ UNCHANGED phase
  BY DEF RecoverRow
<1>2. /\ phase = "recover" /\ phase' \in {"recover", "recover_remove"}
      /\ UNCHANGED <<late, head, cursor, more, interrupted>>
  BY <1>1 DEF RecoverRow
<1>3. s.job \in Jobs /\ s.row \in Row /\ s.row.rev \in Int /\ ledger[s.job].rev \in Int
  BY StartupFacts
<1>4. s.row.st = "submitting" =>
        /\ RecoveryOf(s).job = s.job /\ RecoveryOf(s).row.rev = s.row.rev + 1
        /\ RecoveryOf(s).row.req = s.row.req /\ RecoveryOf(s).row.st = "outcome_unknown"
  BY <1>3 DEF RecoveryOf, CompareAndSwap, recover_interrupted_submission, Row
<1>5. OrphanInv'
  BY <1>0, <1>2, OrphansKept DEF StartupInv
<1>6. CASE s.row.st = "submitting" /\ Applies(RecoveryOf(s))
  <2>1. /\ phase' = "recover_remove" /\ page' = page /\ Commit(RecoveryOf(s))
    BY <1>1, <1>6
  <2>2. RecoveryOf(s) \in Statement /\ Lawful(RecoveryOf(s))
    BY <1>6, SentLawful
  <2>3. /\ RowMoves(s.job)
        /\ ledger'[s.job].st = "outcome_unknown"
        /\ \A j \in Jobs : j # s.job => ledger'[j] = ledger[j]
    BY <1>4, <1>6, <2>1, <2>2, LawfulMoves
  <2>4. ledger'[s.job].rev = ledger[s.job].rev + 1
    BY <2>3 DEF RowMoves
  <2>5. WalkInv'
    <3> SUFFICES ASSUME NEW i \in interrupted
                 PROVE  /\ i[2] <= ledger'[i[1]].rev
                        /\ ledger'[i[1]].rev = i[2] =>
                             /\ ledger'[i[1]].st = "submitting"
                             /\ i[1] <= head
                             /\ \/ more /\ i[1] > cursor
                                \/ \E t \in page : t.job = i[1] /\ t.row = ledger'[i[1]]
      BY <1>2, <2>1 DEF WalkInv
    <3>1. i[1] \in Jobs /\ i[2] \in Int /\ ledger[i[1]].rev \in Int
      BY StartupFacts
    <3>2. /\ i[2] <= ledger[i[1]].rev
          /\ ledger[i[1]].rev = i[2] =>
               /\ ledger[i[1]].st = "submitting"
               /\ i[1] <= head
               /\ \/ more /\ i[1] > cursor
                  \/ \E t \in page : t.job = i[1] /\ t.row = ledger[i[1]]
      BY <1>2 DEF StartupInv, WalkInv
    <3>3. CASE i[1] = s.job
      BY <2>4, <3>1, <3>2, <3>3
    <3>4. CASE i[1] # s.job
      BY <2>3, <3>1, <3>2, <3>4
    <3> QED BY <3>3, <3>4
  <2>6. RemoveInv'
    <3> SUFFICES ASSUME NEW t \in page, IsNext(t)
                 PROVE  is_terminal(ledger'[t.job].st) /\ t.row.rev < ledger'[t.job].rev
      BY <2>1 DEF RemoveInv, IsNext
    <3>1. t.job = s.job
      BY <1>1, NextIsOne
    <3>2. t.row.rev <= ledger[t.job].rev /\ t.row.rev \in Int
      BY StartupFacts DEF FenceInv, Known
    <3> QED BY <1>3, <2>3, <2>4, <3>1, <3>2 DEF is_terminal
  <2> QED BY <1>5, <2>1, <2>5, <2>6 DEF StartupInv, FencedInv, SweepInv, DownInv
<1>7. CASE ~(s.row.st = "submitting" /\ Applies(RecoveryOf(s)))
  <2>1. ledger' = ledger /\ page' = page \ {s} /\ phase' = "recover"
    BY <1>1, <1>2, <1>7 DEF Commit
  <2>2. ASSUME s.row = ledger[s.job], s.row.st = "submitting"
        PROVE  FALSE
    BY <1>3, <1>4, <1>7, <2>2 DEF Applies
  <2>3. WalkInv'
    <3> SUFFICES ASSUME NEW i \in interrupted
                 PROVE  /\ i[2] <= ledger[i[1]].rev
                        /\ ledger[i[1]].rev = i[2] =>
                             /\ ledger[i[1]].st = "submitting"
                             /\ i[1] <= head
                             /\ \/ more /\ i[1] > cursor
                                \/ \E t \in page \ {s} : t.job = i[1] /\ t.row = ledger[i[1]]
      BY <1>2, <2>1 DEF WalkInv
    <3>1. /\ i[2] <= ledger[i[1]].rev
          /\ ledger[i[1]].rev = i[2] =>
               /\ ledger[i[1]].st = "submitting"
               /\ i[1] <= head
               /\ \/ more /\ i[1] > cursor
                  \/ \E t \in page : t.job = i[1] /\ t.row = ledger[i[1]]
      BY <1>2 DEF StartupInv, WalkInv
    <3> QED BY <2>2, <3>1
  <2> QED BY <1>5, <2>1, <2>3 DEF StartupInv, RemoveInv, FencedInv, SweepInv, DownInv
<1> QED BY <1>6, <1>7

\* The audio of a swapped row goes: the row is behind the walk now.
LEMMA SRecoverRemove == ASSUME TypeOK, FenceInv, StartupInv, RecoverRemove PROVE StartupInv'
<1>1. PICK s \in page : IsNext(s) /\ page' = page \ {s}
  BY DEF RecoverRemove
<1>2. /\ phase = "recover_remove" /\ phase' = "recover"
      /\ UNCHANGED <<ledger, late, head, cursor, more, interrupted>>
  BY DEF RecoverRemove, ledgerVars
<1>3. s.job \in Jobs /\ s.row.rev \in Int /\ ledger[s.job].rev \in Int
  BY StartupFacts
<1>4. s.row.rev < ledger[s.job].rev
  BY <1>1, <1>2 DEF StartupInv, RemoveInv
<1>5. s.row # ledger[s.job]
  BY <1>3, <1>4
<1>6. WalkInv'
  <2> SUFFICES ASSUME NEW i \in interrupted
               PROVE  /\ i[2] <= ledger[i[1]].rev
                      /\ ledger[i[1]].rev = i[2] =>
                           /\ ledger[i[1]].st = "submitting"
                           /\ i[1] <= head
                           /\ \/ more /\ i[1] > cursor
                              \/ \E t \in page \ {s} : t.job = i[1] /\ t.row = ledger[i[1]]
    BY <1>1, <1>2 DEF WalkInv
  <2>1. /\ i[2] <= ledger[i[1]].rev
        /\ ledger[i[1]].rev = i[2] =>
             /\ ledger[i[1]].st = "submitting"
             /\ i[1] <= head
             /\ \/ more /\ i[1] > cursor
                \/ \E t \in page : t.job = i[1] /\ t.row = ledger[i[1]]
    BY <1>2 DEF StartupInv, WalkInv
  <2> QED BY <1>5, <2>1
<1> QED BY <1>2, <1>6 DEF StartupInv, RemoveInv, FencedInv, OrphanInv, SweepInv, DownInv

\* The walk has ended: nobody is ahead of it any more.
LEMMA SRecoverDone == ASSUME TypeOK, FenceInv, StartupInv, RecoverDone PROVE StartupInv'
<1>1. /\ phase = "recover" /\ phase' = "maintain" /\ page = {} /\ ~more
      /\ files \subseteq entries'
      /\ UNCHANGED <<ledger, late, files, interrupted>>
  BY DEF RecoverDone, ledgerVars, spoolVars
<1>2. \A i \in interrupted : i[2] < ledger[i[1]].rev
  <2> SUFFICES ASSUME NEW i \in interrupted PROVE i[2] < ledger[i[1]].rev
    OBVIOUS
  <2>1. i[2] \in Int /\ ledger[i[1]].rev \in Int
    BY StartupFacts
  <2>2. i[2] <= ledger[i[1]].rev /\ ledger[i[1]].rev # i[2]
    BY <1>1 DEF StartupInv, WalkInv
  <2> QED BY <2>1, <2>2
<1> QED BY <1>1, <1>2 DEF StartupInv, WalkInv, RemoveInv, FencedInv, OrphanInv, SweepInv, DownInv

\* An entry: audio that stays is of a job that is not finished.
LEMMA SMaintainEntry == ASSUME TypeOK, FenceInv, StartupInv, MaintainEntry PROVE StartupInv'
<1>1. PICK e \in entries : /\ MaintainClaim(e) \/ MaintainFile(e)
                           /\ entries' = entries \ {e}
  BY DEF MaintainEntry
<1>2. /\ phase = "maintain" /\ phase' = "maintain"
      /\ UNCHANGED <<ledger, late, interrupted>>
  BY DEF MaintainEntry, ledgerVars
<1>3. files' \subseteq files
  BY <1>1 DEF MaintainClaim, MaintainFile, Remove, spoolVars
<1>4. e \in files' => ~is_terminal(ledger[e[1]].st)
  <2>1. CASE MaintainClaim(e)
    BY <1>3, <2>1, StartupFacts DEF MaintainClaim
  <2>2. CASE MaintainFile(e)
    <3>1. e = <<e[1], e[2]>>
      BY DEF TypeOK
    <3> QED BY <2>2, <3>1 DEF MaintainFile, Remove, Preserved, is_terminal, Status
  <2> QED BY <1>1, <2>1, <2>2
<1>5. SweepInv'
  BY <1>1, <1>2, <1>3, <1>4 DEF StartupInv, SweepInv
<1> QED BY <1>2, <1>5 DEF StartupInv, WalkInv, RemoveInv, FencedInv, OrphanInv, DownInv

\* A statement run late: it moves one row forward, and during maintenance it
\* finishes no job, since every submission a verdict on the wire was about
\* has been fenced.
LEMMA SLateStatement == ASSUME TypeOK, FenceInv, StartupInv, LateStatement PROVE StartupInv'
<1>0. Next
  BY DEF Next
<1>1. PICK s \in late : Commit(s) /\ late' = late \ {s}
  BY DEF LateStatement, RunLate
<1>2. UNCHANGED <<phase, head, cursor, more, page, entries, interrupted, files>>
  BY DEF LateStatement, bootVars, spoolVars
<1>3. \A j \in Jobs : /\ ledger[j].rev \in Int
                      /\ ledger'[j] = ledger[j] \/ RowMoves(j)
  BY <1>0, RowsMove, StartupFacts
<1>4. \A j \in Jobs : ledger'[j] = ledger[j] \/ ledger'[j].rev = ledger[j].rev + 1
  BY <1>3 DEF RowMoves
<1>5. WalkInv'
  <2> SUFFICES ASSUME phase \in {"recover", "recover_remove"}, NEW i \in interrupted
               PROVE  /\ i[2] <= ledger'[i[1]].rev
                      /\ ledger'[i[1]].rev = i[2] =>
                           /\ ledger'[i[1]].st = "submitting"
                           /\ i[1] <= head
                           /\ \/ more /\ i[1] > cursor
                              \/ \E t \in page : t.job = i[1] /\ t.row = ledger'[i[1]]
    BY <1>2 DEF WalkInv
  <2>1. i[1] \in Jobs /\ i[2] \in Int
    BY StartupFacts
  <2>2. /\ i[2] <= ledger[i[1]].rev
        /\ ledger[i[1]].rev = i[2] =>
             /\ ledger[i[1]].st = "submitting"
             /\ i[1] <= head
             /\ \/ more /\ i[1] > cursor
                \/ \E t \in page : t.job = i[1] /\ t.row = ledger[i[1]]
    BY DEF StartupInv, WalkInv
  <2>3. CASE ledger'[i[1]] = ledger[i[1]]
    BY <2>2, <2>3
  <2>4. CASE ledger'[i[1]].rev = ledger[i[1]].rev + 1
    BY <1>3, <2>1, <2>2, <2>4
  <2> QED BY <1>4, <2>1, <2>3, <2>4
<1>6. RemoveInv'
  <2> SUFFICES ASSUME phase = "recover_remove", NEW t \in page, IsNext(t)
               PROVE  is_terminal(ledger'[t.job].st) /\ t.row.rev < ledger'[t.job].rev
    BY <1>2 DEF RemoveInv, IsNext
  <2>1. t.job \in Jobs /\ is_terminal(ledger[t.job].st) /\ t.row.rev < ledger[t.job].rev
    BY StartupFacts DEF StartupInv, RemoveInv
  <2>2. ~RowMoves(t.job)
    BY <2>1 DEF RowMoves, is_terminal, Actionable
  <2> QED BY <1>3, <2>1, <2>2
<1>7. FencedInv'
  <2> SUFFICES ASSUME phase \in {"maintain", "serving"}, NEW i \in interrupted
               PROVE  i[2] < ledger'[i[1]].rev
    BY <1>2 DEF FencedInv
  <2>1. i[1] \in Jobs /\ i[2] \in Int /\ i[2] < ledger[i[1]].rev
    BY StartupFacts DEF StartupInv, FencedInv
  <2> QED BY <1>3, <1>4, <2>1
<1>8. OrphanInv'
  BY <1>0, <1>1, <1>2, OrphansKept DEF StartupInv, OrphanInv
<1>9. SweepInv'
  <2> SUFFICES ASSUME phase = "maintain", NEW f \in files, is_terminal(ledger'[f[1]].st)
               PROVE  f \in entries
    BY <1>2 DEF SweepInv
  <2>1. f[1] \in Jobs
    BY StartupFacts
  <2>2. CASE ledger'[f[1]] = ledger[f[1]]
    BY <2>2 DEF StartupInv, SweepInv
  <2>3. CASE ledger'[f[1]] # ledger[f[1]]
    <3>1. Applies(s) /\ f[1] = s.job
      BY <1>1, <2>1, <2>3 DEF Commit, TypeOK
    <3>2. ledger[s.job].rev = s.row.rev - 1 /\ ledger'[s.job] = s.row
      BY <1>1, <2>1, <3>1 DEF Applies, Commit, TypeOK
    <3>3. s.row.st \notin {"accepted", "submitting"}
      BY <3>1, <3>2 DEF is_terminal
    <3>4. <<s.job, ledger[s.job].rev>> \in interrupted
      BY <3>2, <3>3 DEF StartupInv, OrphanInv
    <3>5. ledger[s.job].rev < ledger[s.job].rev
      BY <3>4 DEF StartupInv, FencedInv
    <3> QED BY <1>3, <2>1, <3>1, <3>5
  <2> QED BY <2>2, <2>3
<1> QED BY <1>2, <1>5, <1>6, <1>7, <1>8, <1>9 DEF StartupInv, DownInv

LEMMA StartupStepInv == ASSUME TypeOK, FenceInv, StartupInv, [Next]_vars PROVE StartupInv'
<1>1. CASE UNCHANGED vars
  BY <1>1 DEF vars, ledgerVars, spoolVars, bootVars, StartupInv, WalkInv, RemoveInv, FencedInv,
              OrphanInv, SweepInv, DownInv, IsNext
<1>2. CASE Next
  <2>1. CASE \/ \E p \in Slots : \/ \E j \in Jobs, q \in Requests : Post(p, j, q)
                                 \/ AdmitStep(p) \/ Disconnect(p)
             \/ \E p \in Tasks : ExecuteStep(p) \/ ReadFails(p)
             \/ DrainStep
    <3>1. phase = "serving" /\ UNCHANGED <<phase, interrupted>>
      BY <2>1, TasksServe
    <3> QED BY <1>2, <3>1, SServing
  <2>2. CASE Serve
    BY <1>2, <2>2, SServing DEF Serve
  <2>3. CASE \/ RecoverRefuses \/ MaintainRefuses \/ StartupLedgerFails \/ StartupSpoolFails
             \/ Crash
    BY <2>3, SStop DEF RecoverRefuses, MaintainRefuses, StartupLedgerFails, StartupSpoolFails,
                       Crash
  <2> QED
    BY <1>2, <2>1, <2>2, <2>3, SBoot, SRecoverPage, SRecoverRow, SRecoverRemove, SRecoverDone,
       SMaintainEntry, SLateStatement DEF Next, StartupStep
<1> QED BY <1>1, <1>2

\* The startup invariant holds of the pipeline.
LEMMA StartupInvariance == Spec => []StartupInv
<1>1. Init => StartupInv
  BY DEF Init, StartupInv, WalkInv, RemoveInv, FencedInv, OrphanInv, SweepInv, DownInv
<1> QED BY <1>1, StartupStepInv, TypeCorrect, FenceCorrect, PTL DEF Spec

\* Startup reconciliation misses no interrupted submission: for every ledger,
\* page limit, crash and late statement, once it is over nothing that was in
\* flight when the head was read is still submitting (reconcile_startup).
THEOREM InterruptedAreFenced == Spec => []InterruptedFenced
<1>1. TypeOK /\ StartupInv => InterruptedFenced
  BY StartupFacts DEF StartupInv, FencedInv, InterruptedFenced
<1> QED BY <1>1, TypeCorrect, StartupInvariance, PTL

\* When the process begins to serve, no audio of a finished job is left in the
\* spool, whatever was left behind by the processes before it
\* (DurableFileSpool::reconcile and the removals of reconcile_candidates).
THEOREM TerminalAudioIsReclaimed == Spec => []TerminalAudioReclaimed
<1>1. StartupInv => TerminalAudioReclaimed
  BY DEF StartupInv, SweepInv, TerminalAudioReclaimed
<1> QED BY <1>1, StartupInvariance, PTL

(***************************************************************************)
(* The audio of live rows                                                  *)
(***************************************************************************)

\* The audio is in the spool, under its own identity claim.
Kept(j, a) == <<j, a>> \in files /\ claims[j] = a

\* It is, or it was an old file and expired from under an insert.
KeptOrSwept(j, a) == Kept(j, a) \/ <<j, a>> \in swept

\* Every row that is not finished has its audio: the rows there are, the one
\* a request is about to insert, and the one a statement may still insert.
RowAudio ==
    \A j \in Jobs : ledger[j].st \in {"accepted", "retryable", "submitting"} =>
        KeptOrSwept(j, AudioOf[ledger[j].req])

InsertAudio ==
    \A p \in Tasks : (At(p, "insert") /\ ledger[task[p].job].st = "absent") =>
        Kept(task[p].job, Audio(p))

LateAudio ==
    \A s \in late : ledger[s.job].st = "absent" => KeptOrSwept(s.job, AudioOf[s.row.req])

\* A request removes only audio that the row of its job does not name, and an
\* execution only that of a finished job.  While statements do not fail no
\* request has to verify its insert.
DiscardInv ==
    \A p \in Tasks :
        /\ task[p].pc \in {"existing", "discard"} => ledger[task[p].job].st # "absent"
        /\ At(p, "discard") => AudioOf[ledger[task[p].job].req] # Audio(p)
        /\ At(p, "cleanup") => is_terminal(ledger[task[p].job].st)
        /\ ~At(p, "verify")

AudioInv == RowAudio /\ InsertAudio /\ LateAudio /\ DiscardInv

\* A task that has moved holds what AudioInv says of its new place.
Settled(p) ==
    LET t == task'[p]
    IN  \/ t.pc \notin {"insert", "existing", "discard", "cleanup", "verify"}
        \/ /\ t.pc = "insert"
           /\ <<t.job, AudioOf[t.req]>> \in files' /\ claims'[t.job] = AudioOf[t.req]
        \/ t.pc = "existing" /\ ledger'[t.job].st # "absent"
        \/ /\ t.pc = "discard" /\ ledger'[t.job].st # "absent"
           /\ AudioOf[ledger'[t.job].req] # AudioOf[t.req]
        \/ t.pc = "cleanup" /\ is_terminal(ledger'[t.job].st)

\* Audio may go when its row is finished or names other audio, or when there
\* is no row, no request is about to insert one, and a statement that may
\* still insert one has its loss noted.
MayGo(j, a) ==
    \/ is_terminal(ledger[j].st)
    \/ ledger[j].st # "absent" /\ AudioOf[ledger[j].req] # a
    \/ /\ ledger[j].st = "absent" /\ ledger'[j] = ledger[j]
       /\ \A p \in Tasks : task'[p].pc # "insert"
       /\ \A s \in late' : (s.job = j /\ AudioOf[s.row.req] = a) => <<j, a>> \in swept'

\* The shape of every step: audio goes only when it may, its loss stays noted
\* until it is stored again, a new row has its audio, every task that moved is settled and every new statement is about a
\* row that is there or audio that is kept.
LEMMA AudioMoves ==
    ASSUME TypeOK, TypeOK', FenceInv, AudioInv, Next,
           \A j \in Jobs, a \in Audios : Kept(j, a) => Kept(j, a)' \/ MayGo(j, a),
           \A j \in Jobs, a \in Audios : <<j, a>> \in swept => KeptOrSwept(j, a)',
           \A j \in Jobs : ledger[j].st = "absent" /\ ledger'[j].st # "absent" =>
                KeptOrSwept(j, AudioOf[ledger[j].req])',
           \A p \in Tasks : task'[p] = task[p] \/ Settled(p),
           \A s \in late' : s \in late \/ ledger'[s.job].st # "absent"
                                \/ KeptOrSwept(s.job, AudioOf[s.row.req])'
    PROVE  AudioInv'
<1>0. \A j \in Jobs : \A a : <<j, a>> \in swept => a \in Audios
  BY DEF TypeOK
<1>1. \A j \in Jobs : \A a : Kept(j, a) => a \in Audios
  BY DEF Kept, TypeOK
<1>2. \A j \in Jobs : ledger'[j] = ledger[j] \/ RowMoves(j)
  BY RowsMove
<1>3. \A j \in Jobs : ledger'[j].st = "absent" => ledger[j].st = "absent"
  BY <1>2 DEF RowMoves
<1>4. \A j \in Jobs : ledger[j].st # "absent" =>
        /\ ledger'[j].req = ledger[j].req
        /\ is_terminal(ledger[j].st) => ledger'[j] = ledger[j]
  BY <1>2 DEF RowMoves, is_terminal, Actionable
<1>5. RowAudio'
  <2> SUFFICES ASSUME NEW j \in Jobs, ledger'[j].st \in {"accepted", "retryable", "submitting"}
               PROVE  KeptOrSwept(j, AudioOf[ledger[j].req])'
    BY DEF RowAudio
  <2>1. CASE ledger[j].st = "absent"
    BY <2>1
  <2>2. CASE ledger[j].st # "absent"
    <3>1. /\ ledger[j].st \in {"accepted", "retryable", "submitting"}
          /\ ledger'[j].req = ledger[j].req
      BY <1>2, <1>4, <2>2 DEF RowMoves, Actionable
    <3>2. KeptOrSwept(j, AudioOf[ledger[j].req]) /\ ~MayGo(j, AudioOf[ledger[j].req])
      BY <3>1 DEF AudioInv, RowAudio, MayGo, is_terminal
    <3>3. \A a \in Audios : /\ Kept(j, a) => Kept(j, a)' \/ MayGo(j, a)
                            /\ <<j, a>> \in swept => KeptOrSwept(j, a)'
      OBVIOUS
    <3>4. \/ <<j, AudioOf[ledger[j].req]>> \in files' /\ claims'[j] = AudioOf[ledger[j].req]
          \/ <<j, AudioOf[ledger[j].req]>> \in swept'
      BY <1>0, <1>1, <3>2, <3>3 DEF Kept, KeptOrSwept
    <3> QED BY <3>1, <3>4 DEF Kept, KeptOrSwept
  <2> QED BY <2>1, <2>2
<1>6. InsertAudio'
  <2> SUFFICES ASSUME NEW p \in Tasks, task'[p].pc = "insert", ledger'[task'[p].job].st = "absent"
               PROVE  Kept(task[p].job, Audio(p))'
    BY DEF InsertAudio, At
  <2>1. CASE task'[p] = task[p]
    <3>1. task[p].job \in Jobs
      BY <2>1 DEF TypeOK, GoodTask
    <3>2. ledger[task[p].job].st = "absent"
      BY <1>3, <2>1, <3>1
    <3>3. Kept(task[p].job, Audio(p))
      BY <2>1, <3>2 DEF AudioInv, InsertAudio, At
    <3>4. ~MayGo(task[p].job, Audio(p))
      BY <3>2 DEF MayGo, is_terminal
    <3>5. /\ <<task[p].job, Audio(p)>> \in files' /\ claims'[task[p].job] = Audio(p)
      BY <1>1, <3>1, <3>3, <3>4 DEF Kept
    <3> QED BY <2>1, <3>5 DEF Kept, Audio
  <2>2. CASE Settled(p)
    BY <2>2 DEF Settled, Kept, Audio
  <2> QED BY <2>1, <2>2
<1>7. LateAudio'
  <2> SUFFICES ASSUME NEW s \in late', ledger'[s.job].st = "absent"
               PROVE  KeptOrSwept(s.job, AudioOf[s.row.req])'
    BY DEF LateAudio
  <2>1. CASE s \in late
    <3> DEFINE a == AudioOf[s.row.req]
    <3>1. s.job \in Jobs
      BY <2>1, StartupFacts
    <3>2. ledger[s.job].st = "absent" /\ KeptOrSwept(s.job, a)
      BY <1>3, <2>1, <3>1 DEF AudioInv, LateAudio
    <3>3. MayGo(s.job, a) => <<s.job, a>> \in swept'
      BY <3>2 DEF MayGo, is_terminal
    <3>4. a \in Audios
      BY <1>0, <1>1, <3>1, <3>2 DEF KeptOrSwept
    <3>5. KeptOrSwept(s.job, a)'
      BY <3>1, <3>2, <3>3, <3>4 DEF KeptOrSwept
    <3> QED BY <3>5
  <2> QED BY <2>1
<1>8. DiscardInv'
  <2> SUFFICES ASSUME NEW p \in Tasks
               PROVE  /\ task'[p].pc \in {"existing", "discard"} =>
                                ledger'[task'[p].job].st # "absent"
                      /\ task'[p].pc = "discard" =>
                                AudioOf[ledger'[task'[p].job].req] # AudioOf[task'[p].req]
                      /\ task'[p].pc = "cleanup" => is_terminal(ledger'[task'[p].job].st)
                      /\ task'[p].pc # "verify"
    BY DEF DiscardInv, At, Audio
  <2>1. CASE task'[p] = task[p]
    <3>1. task[p].pc # "idle" => task[p].job \in Jobs
      BY DEF TypeOK, GoodTask
    <3>2. /\ task[p].pc \in {"existing", "discard"} => ledger[task[p].job].st # "absent"
          /\ task[p].pc = "discard" => AudioOf[ledger[task[p].job].req] # AudioOf[task[p].req]
          /\ task[p].pc = "cleanup" => is_terminal(ledger[task[p].job].st)
          /\ task[p].pc # "verify"
      BY DEF AudioInv, DiscardInv, At, Audio
    <3>3. is_terminal(ledger[task[p].job].st) => ledger[task[p].job].st # "absent"
      BY DEF is_terminal
    <3> QED BY <1>3, <1>4, <2>1, <3>1, <3>2, <3>3
  <2>2. CASE Settled(p)
    BY <2>2 DEF Settled
  <2> QED BY <2>1, <2>2
<1> QED BY <1>5, <1>6, <1>7, <1>8 DEF AudioInv

\* The same of a step that neither stores audio nor expires any.
LEMMA AudioStep ==
    ASSUME TypeOK, TypeOK', FenceInv, AudioInv, Next, swept' = swept,
           \A j \in Jobs, a \in Audios : Kept(j, a) => Kept(j, a)' \/ MayGo(j, a),
           \A j \in Jobs : ledger[j].st = "absent" /\ ledger'[j].st # "absent" =>
                KeptOrSwept(j, AudioOf[ledger[j].req])',
           \A p \in Tasks : task'[p] = task[p] \/ Settled(p),
           \A s \in late' : s \in late \/ ledger'[s.job].st # "absent"
                                \/ KeptOrSwept(s.job, AudioOf[s.row.req])'
    PROVE  AudioInv'
<1>1. \A j \in Jobs, a \in Audios : <<j, a>> \in swept => KeptOrSwept(j, a)'
  BY DEF KeptOrSwept
<1> QED BY <1>1, AudioMoves

\* A removal takes the audio it names and no other.
LEMMA RemoveKeeps ==
    ASSUME TypeOK, NEW j \in Jobs, NEW a, Remove(j, a) \/ RemoveFails(j, a),
           NEW k \in Jobs, NEW b \in Audios, Kept(k, b)
    PROVE  Kept(k, b)' \/ (k = j /\ b = a)
BY RequestAssumption DEF TypeOK, Kept, Remove, RemoveFails, spoolVars

\* Storing, whether it succeeds or not, takes no kept audio.
LEMMA StoreKeeps ==
    ASSUME TypeOK, NEW j \in Jobs, NEW a \in Audios,
           \/ \E owns, aged \in BOOLEAN : Store(j, a, owns, aged)
           \/ StoreRefused(j, a) \/ StoreConflict(j, a) \/ StoreFails(j, a),
           NEW k \in Jobs, NEW b \in Audios, Kept(k, b)
    PROVE  Kept(k, b)'
BY RequestAssumption DEF TypeOK, Kept, Store, StoreRefused, StoreConflict, StoreFails, spoolVars

\* A step that leaves ledger and spool alone and sends nothing away.
LEMMA AudioQuiet ==
    ASSUME TypeOK, TypeOK', FenceInv, AudioInv, Next, ledger' = ledger, late' = late,
           UNCHANGED <<spoolVars, swept>>, \A p \in Tasks : task'[p] = task[p] \/ Settled(p)
    PROVE  AudioInv'
<1>1. \A j \in Jobs, a \in Audios : Kept(j, a) => Kept(j, a)'
  BY DEF Kept, spoolVars
<1> QED BY <1>1, AudioStep

\* The statement of a request that inserts, when it applies, has its audio.
LEMMA InsertedKept ==
    ASSUME TypeOK, FenceInv, NEW s \in Statement, Lawful(s), Commit(s),
           UNCHANGED <<spoolVars, swept>>,
           ledger[s.job].st = "absent" => KeptOrSwept(s.job, AudioOf[s.row.req]),
           NEW j \in Jobs, ledger[j].st = "absent", ledger'[j].st # "absent"
    PROVE  KeptOrSwept(j, AudioOf[ledger[j].req])'
<1>1. Applies(s)
  BY DEF Commit
<1>2. j = s.job /\ ledger'[j] = s.row
  BY <1>1, LawfulMoves
<1>3. KeptOrSwept(j, AudioOf[s.row.req])
  BY <1>2
<1> QED BY <1>2, <1>3 DEF Kept, KeptOrSwept, spoolVars

\* Only an insert creates a row.
LEMMA OthersInsertNothing ==
    ASSUME TypeOK, FenceInv, NEW s \in Statement, Lawful(s), Commit(s), s.row.st # "accepted",
           NEW j \in Jobs, ledger[j].st = "absent"
    PROVE  ledger'[j] = ledger[j]
<1>1. CASE ~Applies(s)
  BY <1>1 DEF Commit
<1>2. CASE Applies(s)
  BY <1>2, LawfulMoves DEF RowMoves, Actionable
<1> QED BY <1>1, <1>2

\* A step that admits keeps the audio, when statements do not fail.
LEMMA AudioAdmit ==
    ASSUME TypeOK, TypeOK', FenceInv, AudioInv, Next, "ledger" \notin Faults, NEW p \in Slots,
           \/ \E j \in Jobs, q \in Requests : Post(p, j, q)
           \/ AdmitStep(p) \/ Disconnect(p)
    PROVE  AudioInv'
<1>0. p \in Tasks
  BY DEF Tasks
<1>1. ASSUME task[p].pc \in AdmissionPc
      PROVE  task[p].job \in Jobs /\ task[p].req \in Requests /\ Audio(p) \in Audios
  BY <1>0, <1>1, RequestAssumption DEF TypeOK, GoodTask, Audio, AdmissionPc
<1>2. ASSUME Finish(p) \/ StartExecution(p, task[p].job)
                \/ (\E pc \in {"store", "inserted"} : Goto(p, pc))
      PROVE  \A t \in Tasks : task'[t] = task[t] \/ Settled(t)
  <2>1. task'[p].pc \in {"idle", "exec", "store", "inserted"}
    BY <1>0, <1>2, TaskEffects
  <2>2. \A t \in Tasks \ {p} : task'[t] = task[t]
    BY <1>0, <1>2, TaskEffects
  <2>3. Settled(p)
    BY <2>1 DEF Settled
  <2> QED BY <2>2, <2>3
<1>3. ASSUME NEW row, Settle(p, row)
      PROVE  \A t \in Tasks : task'[t] = task[t] \/ Settled(t)
  BY <1>2, <1>3 DEF Settle
<1>4. ASSUME NEW j \in Jobs, NEW q \in Requests, Post(p, j, q)
      PROVE  AudioInv'
  <2>1. task'[p].pc = "load" /\ \A t \in Tasks \ {p} : task'[t] = task[t]
    BY <1>0, <1>4 DEF Post, TypeOK, IdleTask
  <2>2. Settled(p)
    BY <2>1 DEF Settled
  <2> QED BY <1>4, <2>1, <2>2, AudioQuiet DEF Post, ledgerVars
<1>5. CASE AdmitLoad(p) \/ AdmitInserted(p)
  <2>1. \A t \in Tasks : task'[t] = task[t] \/ Settled(t)
    BY <1>2, <1>3, <1>5 DEF AdmitLoad, AdmitInserted
  <2> QED BY <1>5, <2>1, AudioQuiet DEF AdmitLoad, AdmitInserted, ledgerVars
<1>6. CASE AdmitStore(p)
  <2>1. PICK owns, aged \in BOOLEAN :
            /\ Store(task[p].job, Audio(p), owns, aged)
            /\ task' = [task EXCEPT ![p].pc = "insert", ![p].owns = owns]
    BY <1>6 DEF AdmitStore
  <2>2. task[p].job \in Jobs /\ Audio(p) \in Audios
    BY <1>1, <1>6 DEF AdmitStore, At, AdmissionPc
  <2>3. \A j \in Jobs, a \in Audios : Kept(j, a) => Kept(j, a)'
    BY <2>1, <2>2, StoreKeeps
  <2>4. /\ task'[p].pc = "insert" /\ task'[p].job = task[p].job /\ task'[p].req = task[p].req
        /\ \A t \in Tasks \ {p} : task'[t] = task[t]
    BY <1>0, <2>1 DEF TypeOK, GoodTask, Task
  <2>5. <<task[p].job, Audio(p)>> \in files' /\ claims'[task[p].job] = Audio(p)
    BY <2>1, <2>2 DEF Store, TypeOK
  <2>6. Settled(p)
    BY <2>4, <2>5 DEF Settled, Audio
  <2>7. \A j \in Jobs, a \in Audios : <<j, a>> \in swept => KeptOrSwept(j, a)'
    BY <1>6, <2>5 DEF AdmitStore, Kept, KeptOrSwept
  <2> QED BY <1>6, <2>3, <2>4, <2>6, <2>7, AudioMoves DEF AdmitStore, ledgerVars
<1>7. CASE AdmitStoreRejected(p)
  <2>1. task[p].job \in Jobs /\ Audio(p) \in Audios
    BY <1>1, <1>7 DEF AdmitStoreRejected, At, AdmissionPc
  <2>2. \A j \in Jobs, a \in Audios : Kept(j, a) => Kept(j, a)'
    BY <1>7, <2>1, StoreKeeps DEF AdmitStoreRejected
  <2>3. \A t \in Tasks : task'[t] = task[t] \/ Settled(t)
    BY <1>2, <1>7 DEF AdmitStoreRejected
  <2> QED BY <1>7, <2>2, <2>3, AudioStep DEF AdmitStoreRejected, ledgerVars
<1>8. CASE AdmitInsert(p)
  <2> DEFINE s == InsertOf(p)
  <2>1. /\ s \in Statement /\ Lawful(s) /\ Commit(s) /\ late' = late
        /\ UNCHANGED <<spoolVars, swept>>
        /\ s.job = task[p].job /\ s.row.req = task[p].req /\ s.row.rev = 0
        /\ task[p].job \in Jobs /\ At(p, "insert")
    BY <1>0, <1>1, <1>8, SentLawful DEF AdmitInsert, At, AdmissionPc, InsertOf, Insert, accept
  <2>2. ledger[s.job].st = "absent" => KeptOrSwept(s.job, AudioOf[s.row.req])
    BY <1>0, <2>1 DEF AudioInv, InsertAudio, Audio, KeptOrSwept
  <2>3. Goto(p, IF Applies(s) THEN "inserted" ELSE "existing")
    BY <1>8 DEF AdmitInsert
  <2> HIDE DEF s
  <2>4. \A j \in Jobs : ledger[j].st = "absent" /\ ledger'[j].st # "absent" =>
                KeptOrSwept(j, AudioOf[ledger[j].req])'
    BY <2>1, <2>2, InsertedKept
  <2>5. \A t \in Tasks : task'[t] = task[t] \/ Settled(t)
    <3>1. CASE Applies(s)
      BY <1>2, <2>3, <3>1
    <3>2. CASE ~Applies(s)
      <4>1. ledger' = ledger /\ ledger[s.job].rev # -1
        BY <2>1, <3>2 DEF Commit, Applies
      <4>2. ledger'[s.job].st # "absent"
        BY <2>1, <4>1 DEF FenceInv, RowTruth
      <4>3. /\ task'[p] = [task[p] EXCEPT !.pc = "existing"] /\ task'[p].pc = "existing"
            /\ \A t \in Tasks \ {p} : task'[t] = task[t]
        BY <1>0, <2>3, <3>2, TaskEffects
      <4>4. task'[p].job = task[p].job
        BY <1>0, <4>3 DEF TypeOK, GoodTask, Task
      <4>5. Settled(p)
        BY <2>1, <4>2, <4>3, <4>4 DEF Settled
      <4> QED BY <4>3, <4>5
    <3> QED BY <3>1, <3>2
  <2>6. \A j \in Jobs, a \in Audios : Kept(j, a) => Kept(j, a)'
    BY <2>1 DEF Kept, spoolVars
  <2> QED BY <2>1, <2>4, <2>5, <2>6, AudioStep
<1>9. CASE AdmitExisting(p)
  <2> DEFINE row == ledger[task[p].job]
  <2>1. ResolveRace(p, row) /\ At(p, "existing")
    BY <1>9 DEF AdmitExisting
  <2>2. row.st # "absent"
    BY <1>0, <2>1 DEF AudioInv, DiscardInv, At
  <2>3. ledger' = ledger /\ late' = late /\ UNCHANGED <<spoolVars, swept>>
    BY <1>9 DEF AdmitExisting, ledgerVars
  <2> HIDE DEF row
  <2>4. CASE Settle(p, row)
    BY <1>3, <2>3, <2>4, AudioQuiet
  <2>5. CASE /\ task' = [task EXCEPT ![p].pc = "discard", ![p].snap = row]
             /\ Audio(p) # AudioOf[row.req]
    <3>1. /\ task'[p].pc = "discard" /\ task'[p].job = task[p].job /\ task'[p].req = task[p].req
          /\ \A t \in Tasks \ {p} : task'[t] = task[t]
      BY <1>0, <2>5 DEF TypeOK, GoodTask, Task
    <3>2. Settled(p)
      BY <2>2, <2>3, <2>5, <3>1 DEF Settled, Audio, row
    <3> QED BY <2>3, <3>1, <3>2, AudioQuiet
  <2> QED BY <2>1, <2>4, <2>5 DEF ResolveRace
<1>10. CASE AdmitVerify(p)
  BY <1>0, <1>10 DEF AdmitVerify, AudioInv, DiscardInv
<1>11. CASE AdmitDiscard(p) \/ AdmitDiscardFails(p)
  <2>1. /\ At(p, "discard") /\ ledger' = ledger /\ late' = late /\ swept' = swept
        /\ Remove(task[p].job, Audio(p)) \/ RemoveFails(task[p].job, Audio(p))
    BY <1>11 DEF AdmitDiscard, AdmitDiscardFails, ledgerVars
  <2>2. task[p].job \in Jobs
    BY <1>1, <2>1 DEF At, AdmissionPc
  <2>3. MayGo(task[p].job, Audio(p))
    BY <1>0, <2>1 DEF AudioInv, DiscardInv, At, MayGo
  <2>4. \A j \in Jobs, a \in Audios : Kept(j, a) => Kept(j, a)' \/ MayGo(j, a)
    BY <2>1, <2>2, <2>3, RemoveKeeps
  <2>5. \A t \in Tasks : task'[t] = task[t] \/ Settled(t)
    BY <1>2, <1>3, <1>11 DEF AdmitDiscard, AdmitDiscardFails
  <2> QED BY <2>1, <2>4, <2>5, AudioStep
<1>12. CASE Disconnect(p)
  <2>1. /\ ledger' = ledger /\ UNCHANGED <<spoolVars, swept>>
        /\ \A s \in late' : s \in late \/ (At(p, "insert") /\ s = InsertOf(p))
    BY <1>12 DEF Disconnect, Abandon
  <2>2. \A t \in Tasks : task'[t] = task[t] \/ Settled(t)
    BY <1>2, <1>12 DEF Disconnect
  <2>3. \A j \in Jobs, a \in Audios : Kept(j, a) => Kept(j, a)'
    BY <2>1 DEF Kept, spoolVars
  <2>4. InsertOf(p).job = task[p].job /\ InsertOf(p).row.req = task[p].req
    BY DEF InsertOf, Insert, accept
  <2>5. At(p, "insert") /\ ledger[task[p].job].st = "absent" =>
            Kept(InsertOf(p).job, AudioOf[InsertOf(p).row.req])
    BY <1>0, <2>4 DEF AudioInv, InsertAudio, Audio
  <2>6. \A s \in late' : s \in late \/ ledger'[s.job].st # "absent"
                             \/ KeptOrSwept(s.job, AudioOf[s.row.req])'
    <3> SUFFICES ASSUME NEW s \in late', s \notin late, ledger[s.job].st = "absent"
                 PROVE  KeptOrSwept(s.job, AudioOf[s.row.req])'
      BY <2>1
    <3>1. Kept(s.job, AudioOf[s.row.req])
      BY <2>1, <2>4, <2>5
    <3> QED BY <2>1, <3>1 DEF Kept, KeptOrSwept, spoolVars
  <2> QED BY <2>1, <2>2, <2>3, <2>6, AudioStep
<1>13. CASE AdmitInsertFails(p)
  BY <1>13 DEF AdmitInsertFails
<1> QED BY <1>4, <1>5, <1>6, <1>7, <1>8, <1>9, <1>10, <1>11, <1>12, <1>13 DEF AdmitStep

\* A step of an execution keeps the audio, when statements do not fail.
LEMMA AudioExecute ==
    ASSUME TypeOK, TypeOK', FenceInv, AudioInv, Next, "ledger" \notin Faults, NEW p \in Tasks,
           ExecuteStep(p) \/ ReadFails(p)
    PROVE  AudioInv'
<1>1. task[p] \in Task /\ (task[p].pc # "idle" => task[p].job \in Jobs)
  BY DEF TypeOK, GoodTask
<1>2. ASSUME \A t \in Tasks \ {p} : task'[t] = task[t],
             task'[p].pc \notin {"insert", "existing", "discard", "cleanup", "verify"}
      PROVE  \A t \in Tasks : task'[t] = task[t] \/ Settled(t)
  BY <1>2 DEF Settled
<1>3. Finish(p) => \A t \in Tasks : task'[t] = task[t] \/ Settled(t)
  BY <1>2, TaskEffects
<1>4. UNCHANGED spoolVars => \A j \in Jobs, a \in Audios : Kept(j, a) => Kept(j, a)'
  BY DEF Kept, spoolVars
<1>5. CASE ExecuteLoad(p) \/ ExecuteRead(p) \/ ExecuteReadFails(p) \/ Recognize(p)
  <2>1. \/ Finish(p) \/ Goto(p, "claim")
        \/ task' = [task EXCEPT ![p].pc = "read", ![p].snap = ledger[task[p].job]]
        \/ \E out \in Outcomes : task' = [task EXCEPT ![p].pc = "persist", ![p].out = out]
    BY <1>5 DEF ExecuteLoad, ExecuteRead, ExecuteReadFails, Recognize
  <2>2. \A t \in Tasks : task'[t] = task[t] \/ Settled(t)
    <3>1. CASE Finish(p)
      BY <1>3, <3>1
    <3>2. CASE Goto(p, "claim")
      <4>1. task'[p].pc = "claim" /\ \A t \in Tasks \ {p} : task'[t] = task[t]
        BY <3>2, TaskEffects
      <4> QED BY <1>2, <4>1
    <3>3. CASE task' = [task EXCEPT ![p].pc = "read", ![p].snap = ledger[task[p].job]]
      <4>1. task'[p].pc = "read" /\ \A t \in Tasks \ {p} : task'[t] = task[t]
        BY <1>1, <3>3 DEF TypeOK, Task
      <4> QED BY <1>2, <4>1
    <3>4. ASSUME NEW out \in Outcomes, task' = [task EXCEPT ![p].pc = "persist", ![p].out = out]
          PROVE  \A t \in Tasks : task'[t] = task[t] \/ Settled(t)
      <4>1. task'[p].pc = "persist" /\ \A t \in Tasks \ {p} : task'[t] = task[t]
        BY <1>1, <3>4 DEF TypeOK, Task
      <4> QED BY <1>2, <4>1
    <3> QED BY <2>1, <3>1, <3>2, <3>3, <3>4
  <2>3. ledger' = ledger /\ late' = late /\ UNCHANGED <<spoolVars, swept>>
    BY <1>5 DEF ExecuteLoad, ExecuteRead, ExecuteReadFails, Recognize, ledgerVars
  <2> QED BY <2>2, <2>3, AudioQuiet
<1>6. CASE ExecuteClaim(p)
  <2> DEFINE s == ClaimOf(p)
  <2>1. /\ s \in Statement /\ Lawful(s) /\ Commit(s) /\ late' = late
        /\ UNCHANGED <<spoolVars, swept>>
        /\ Finish(p) \/ task' = [task EXCEPT ![p].pc = "egress", ![p].snap = s.row]
    BY <1>6, SentLawful DEF ExecuteClaim
  <2>2. s.row.st = "submitting"
    <3>1. task[p].snap \in Row
      BY <1>1 DEF Task
    <3> QED BY <3>1 DEF ClaimOf, CompareAndSwap, begin_submission, Row
  <2> HIDE DEF s
  <2>3. \A j \in Jobs : ledger[j].st = "absent" => ledger'[j] = ledger[j]
    BY <2>1, <2>2, OthersInsertNothing
  <2>4. \A t \in Tasks : task'[t] = task[t] \/ Settled(t)
    <3>1. CASE task' = [task EXCEPT ![p].pc = "egress", ![p].snap = s.row]
      <4>1. task'[p].pc = "egress" /\ \A t \in Tasks \ {p} : task'[t] = task[t]
        BY <1>1, <3>1 DEF TypeOK, Task
      <4> QED BY <1>2, <4>1
    <3> QED BY <1>3, <2>1, <3>1
  <2> QED BY <1>4, <2>1, <2>3, <2>4, AudioStep
<1>7. CASE ExecutePersist(p)
  <2> DEFINE s == PersistOf(p)
  <2>1. /\ s \in Statement /\ Lawful(s) /\ Commit(s) /\ late' = late
        /\ UNCHANGED <<spoolVars, swept>>
        /\ \/ Finish(p)
           \/ /\ Applies(s) /\ is_terminal(s.row.st)
              /\ task' = [task EXCEPT ![p].pc = "cleanup", ![p].snap = s.row, ![p].out = "none"]
        /\ s.job = task[p].job /\ task[p].pc = "persist"
    BY <1>7, SentLawful DEF ExecutePersist, At, PersistOf, CompareAndSwap
  <2>2. s.row.st # "accepted"
    <3>1. task[p].snap \in Row /\ task[p].out \in Outcomes
      BY <1>1, <2>1 DEF Task, TypeOK, GoodTask
    <3> QED BY <3>1 DEF PersistOf, CompareAndSwap, apply_recognition_outcome, Row
  <2> HIDE DEF s
  <2>3. \A j \in Jobs : ledger[j].st = "absent" => ledger'[j] = ledger[j]
    BY <2>1, <2>2, OthersInsertNothing
  <2>4. \A t \in Tasks : task'[t] = task[t] \/ Settled(t)
    <3>1. CASE /\ Applies(s) /\ is_terminal(s.row.st)
               /\ task' = [task EXCEPT ![p].pc = "cleanup", ![p].snap = s.row, ![p].out = "none"]
      <4>1. /\ task'[p].pc = "cleanup" /\ task'[p].job = task[p].job
            /\ \A t \in Tasks \ {p} : task'[t] = task[t]
        BY <1>1, <3>1 DEF TypeOK, Task
      <4>2. ledger'[s.job] = s.row
        BY <2>1, <3>1, LawfulMoves
      <4>3. Settled(p)
        BY <2>1, <3>1, <4>1, <4>2 DEF Settled
      <4> QED BY <4>1, <4>3
    <3> QED BY <1>3, <2>1, <3>1
  <2> QED BY <1>4, <2>1, <2>3, <2>4, AudioStep
<1>8. CASE ExecuteCleanup(p)
  <2> DEFINE a == AudioOf[task[p].snap.req]
  <2>1. /\ At(p, "cleanup") /\ ledger' = ledger /\ late' = late /\ swept' = swept
        /\ Finish(p)
        /\ Remove(task[p].job, a) \/ RemoveFails(task[p].job, a)
    BY <1>8 DEF ExecuteCleanup, ledgerVars
  <2>2. task[p].job \in Jobs
    BY <1>1, <2>1 DEF At
  <2>3. is_terminal(ledger[task[p].job].st)
    BY <2>1 DEF AudioInv, DiscardInv
  <2> HIDE DEF a
  <2>4. \A j \in Jobs, b \in Audios : Kept(j, b) => Kept(j, b)' \/ MayGo(j, b)
    BY <2>1, <2>2, <2>3, RemoveKeeps DEF MayGo
  <2> QED BY <1>3, <2>1, <2>4, AudioStep
<1>9. CASE ExecuteClaimFails(p) \/ ExecutePersistFails(p) \/ ReadFails(p)
  BY <1>9 DEF ExecuteClaimFails, ExecutePersistFails, ReadFails
<1> QED BY <1>5, <1>6, <1>7, <1>8, <1>9 DEF ExecuteStep

\* Startup, maintenance, the drain worker, a crash and a statement run late
\* keep the audio, when statements do not fail.
LEMMA AudioStartup ==
    ASSUME TypeOK, TypeOK', FenceInv, StartupInv, AudioInv, Next, "ledger" \notin Faults,
           Boot \/ StartupStep \/ DrainStep \/ Crash \/ LateStatement
    PROVE  AudioInv'
<1>1. UNCHANGED spoolVars => \A j \in Jobs, a \in Audios : Kept(j, a) => Kept(j, a)'
  BY DEF Kept, spoolVars
<1>2. phase # "serving" => \A p \in Tasks : task[p].pc = "idle"
  BY DEF FenceInv, At
<1>3. CASE \/ Boot \/ RecoverRefuses \/ RecoverPage \/ RecoverDone \/ MaintainRefuses \/ Serve \/ DrainPage
  BY <1>3, AudioQuiet DEF Boot, RecoverRefuses, RecoverPage, RecoverDone, MaintainRefuses, Serve, DrainPage,
                          ledgerVars
<1>4. CASE DrainNext
  <2>1. task' = task \/ \E s \in page : StartExecution(Drainer, s.job)
    BY <1>4 DEF DrainNext
  <2>2. Drainer \in Tasks
    BY DEF Tasks
  <2>3. \/ task' = task
        \/ task'[Drainer].pc = "exec" /\ \A t \in Tasks \ {Drainer} : task'[t] = task[t]
    BY <2>1, <2>2, TaskEffects
  <2>4. \A t \in Tasks : task'[t] = task[t] \/ Settled(t)
    BY <2>3 DEF Settled
  <2> QED BY <1>4, <2>4, AudioQuiet DEF DrainNext, ledgerVars
<1>5. CASE RecoverRow
  <2>1. PICK s \in page :
            IF s.row.st = "submitting" THEN Commit(RecoveryOf(s)) ELSE UNCHANGED ledger
    BY <1>5 DEF RecoverRow
  <2>2. late' = late /\ task' = task /\ UNCHANGED <<spoolVars, swept>>
    BY <1>5 DEF RecoverRow
  <2>3. \A j \in Jobs : ledger[j].st = "absent" => ledger'[j] = ledger[j]
    <3>1. CASE s.row.st = "submitting"
      <4>1. RecoveryOf(s) \in Statement /\ Lawful(RecoveryOf(s))
        BY <3>1, SentLawful
      <4>2. RecoveryOf(s).row.st = "outcome_unknown"
        <5>1. s.row \in Row
          BY StartupFacts
        <5> QED BY <3>1, <5>1 DEF RecoveryOf, CompareAndSwap, recover_interrupted_submission, Row
      <4> QED BY <2>1, <3>1, <4>1, <4>2, OthersInsertNothing
    <3> QED BY <2>1, <3>1
  <2> QED BY <1>1, <2>2, <2>3, AudioStep
<1>6. CASE RecoverRemove \/ (StartupSpoolFails /\ phase = "recover_remove")
  <2>1. PICK s \in page : /\ IsNext(s)
                          /\ \/ Remove(s.job, AudioOf[s.row.req])
                             \/ RemoveFails(s.job, AudioOf[s.row.req])
    BY <1>6 DEF RecoverRemove, StartupSpoolFails
  <2>2. /\ ledger' = ledger /\ late' = late /\ task' = task /\ swept' = swept
        /\ phase = "recover_remove"
    BY <1>6 DEF RecoverRemove, StartupSpoolFails, ledgerVars
  <2>3. s.job \in Jobs /\ is_terminal(ledger[s.job].st)
    BY <2>1, <2>2, StartupFacts DEF StartupInv, RemoveInv
  <2>4. \A j \in Jobs, b \in Audios : Kept(j, b) => Kept(j, b)' \/ MayGo(j, b)
    BY <2>1, <2>3, RemoveKeeps DEF MayGo
  <2> QED BY <2>2, <2>4, AudioStep
<1>7. ASSUME NEW e \in entries, phase = "maintain", e[2] # NoAudio, Removable(e),
             Remove(e[1], e[2]) \/ RemoveFails(e[1], e[2]),
             NoteSwept(e), ledger' = ledger, late' = late, task' = task
      PROVE  AudioInv'
  <2>1. e[1] \in Jobs /\ e = <<e[1], e[2]>>
    BY DEF TypeOK
  <2>2. \A t \in Tasks : task'[t].pc # "insert"
    BY <1>2, <1>7
  <2>3. MayGo(e[1], e[2])
    <3>1. CASE is_terminal(ledger[e[1]].st)
      BY <3>1 DEF MayGo
    <3>2. CASE ledger[e[1]].st = "absent" /\ ~Awaited(e[1], e[2])
      <4>1. \A s \in late' : ~(s.job = e[1] /\ AudioOf[s.row.req] = e[2])
        BY <1>7, <3>2 DEF Awaited
      <4> QED BY <1>7, <2>2, <3>2, <4>1 DEF MayGo
    <3>3. CASE ledger[e[1]].st = "absent" /\ e \in stale /\ Awaited(e[1], e[2])
      <4>1. <<e[1], e[2]>> \in swept'
        BY <1>7, <2>1, <3>3 DEF NoteSwept
      <4> QED BY <1>7, <2>2, <3>3, <4>1 DEF MayGo
    <3> QED BY <1>7, <3>1, <3>2, <3>3 DEF Removable, MayBeExpired
  <2>4. \A j \in Jobs, b \in Audios : Kept(j, b) => Kept(j, b)' \/ MayGo(j, b)
    BY <1>7, <2>1, <2>3, RemoveKeeps
  <2>5. \A j \in Jobs, a \in Audios : <<j, a>> \in swept => KeptOrSwept(j, a)'
    BY <1>7 DEF NoteSwept, KeptOrSwept
  <2> QED BY <1>7, <2>4, <2>5, AudioMoves
<1>8. CASE MaintainEntry
  <2>1. PICK e \in entries : MaintainClaim(e) \/ MaintainFile(e)
    BY <1>8 DEF MaintainEntry
  <2>2. phase = "maintain" /\ ledger' = ledger /\ late' = late /\ task' = task
    BY <1>8 DEF MaintainEntry, ledgerVars
  <2>3. CASE MaintainClaim(e)
    <3>1. \A j \in Jobs, b \in Audios : Kept(j, b) => Kept(j, b)'
      BY <2>3 DEF MaintainClaim, Kept, TypeOK
    <3> QED BY <2>2, <2>3, <3>1, AudioStep DEF MaintainClaim
  <2>4. CASE MaintainFile(e)
    <3>1. CASE UNCHANGED <<spoolVars, swept>>
      BY <2>2, <3>1, AudioQuiet
    <3>2. CASE e[2] # NoAudio /\ Removable(e) /\ Remove(e[1], e[2]) /\ NoteSwept(e)
      BY <1>7, <2>2, <3>2
    <3> QED BY <2>4, <3>1, <3>2 DEF MaintainFile
  <2> QED BY <2>1, <2>3, <2>4
<1>9. CASE StartupSpoolFails /\ phase # "recover_remove"
  <2>1. phase = "maintain" /\ ledger' = ledger /\ late' = late /\ task' = task
    BY <1>9 DEF StartupSpoolFails, ledgerVars
  <2>2. CASE UNCHANGED <<spoolVars, swept>>
    BY <2>1, <2>2, AudioQuiet
  <2>3. CASE \E e \in entries : /\ e[2] # NoAudio /\ Removable(e)
                               /\ RemoveFails(e[1], e[2]) /\ NoteSwept(e)
    BY <1>7, <2>1, <2>3
  <2> QED BY <1>9, <2>2, <2>3 DEF StartupSpoolFails
<1>10. CASE StartupLedgerFails
  BY <1>10 DEF StartupLedgerFails
<1>11. CASE Crash
  <2>1. /\ ledger' = ledger /\ UNCHANGED <<spoolVars, swept>>
        /\ task' = [p \in Tasks |-> IdleTask]
        /\ \A s \in late' :
             \/ s \in late
             \/ \E p \in Tasks : At(p, "insert") /\ s = InsertOf(p)
             \/ \E p \in Tasks : At(p, "claim") /\ s = ClaimOf(p)
             \/ \E p \in Tasks : At(p, "persist") /\ s = PersistOf(p)
             \/ \E x \in page : x.row.st = "submitting" /\ s = RecoveryOf(x)
    BY <1>11 DEF Crash, Abandon
  <2>2. \A t \in Tasks : Settled(t)
    BY <2>1 DEF Settled, IdleTask
  <2>3. ASSUME NEW s \in late', s \notin late, ledger[s.job].st = "absent"
        PROVE  Kept(s.job, AudioOf[s.row.req])
    <3>1. s \in Statement /\ Lawful(s)
      BY <2>1, <2>3, SentLawful
    <3>2. CASE \E p \in Tasks : At(p, "insert") /\ s = InsertOf(p)
      <4>1. PICK p \in Tasks : At(p, "insert") /\ s = InsertOf(p)
        BY <3>2
      <4>2. s.job = task[p].job /\ s.row.req = task[p].req
        BY <4>1 DEF InsertOf, Insert, accept
      <4> QED BY <2>3, <4>1, <4>2 DEF AudioInv, InsertAudio, Audio
    <3>3. ASSUME NEW row \in Row, s.job \in Jobs, Known(s.job, row), row.st # "absent"
          PROVE  FALSE
      <4>1. ledger[s.job].rev = -1 /\ row.rev \in Nat \cup {-1}
        BY <2>3, <3>3 DEF FenceInv, RowTruth, Row
      <4> QED BY <2>3, <3>3, <4>1 DEF Known
    <3>4. ASSUME NEW p \in Tasks, At(p, "claim"), s = ClaimOf(p)
          PROVE  FALSE
      <4>1. task[p].snap \in Row /\ s.job = task[p].job /\ s.job \in Jobs
        BY <3>4 DEF TypeOK, GoodTask, Task, ClaimOf, CompareAndSwap, At
      <4>2. Actionable(task[p].snap.st) /\ Known(s.job, task[p].snap)
        BY <3>4, <4>1 DEF FenceInv, At, SnapshotPc
      <4> QED BY <3>3, <4>1, <4>2 DEF Actionable
    <3>5. ASSUME NEW p \in Tasks, At(p, "persist"), s = PersistOf(p)
          PROVE  FALSE
      <4>1. s.job = task[p].job
        BY <3>5 DEF PersistOf, CompareAndSwap
      <4>2. ledger[s.job].st = "submitting"
        BY <3>5, <4>1 DEF FenceInv, InFlightOwnsRow, At, InFlightPc
      <4> QED BY <2>3, <4>2
    <3>6. ASSUME NEW x \in page, x.row.st = "submitting", s = RecoveryOf(x)
          PROVE  FALSE
      <4>1. x.row \in Row /\ s.job = x.job /\ s.job \in Jobs
        BY <3>6, StartupFacts DEF RecoveryOf, CompareAndSwap
      <4>2. Known(s.job, x.row)
        BY <4>1 DEF FenceInv
      <4> QED BY <3>3, <3>6, <4>1, <4>2
    <3> QED BY <2>1, <2>3, <3>2, <3>4, <3>5, <3>6
  <2>4. \A s \in late' : s \in late \/ ledger'[s.job].st # "absent"
                             \/ KeptOrSwept(s.job, AudioOf[s.row.req])'
    BY <2>1, <2>3 DEF Kept, KeptOrSwept, spoolVars
  <2> QED BY <1>1, <2>1, <2>2, <2>4, AudioStep
<1>12. CASE LateStatement
  <2>1. PICK s \in late : Commit(s) /\ late' = late \ {s}
    BY <1>12 DEF LateStatement, RunLate
  <2>2. task' = task /\ UNCHANGED <<spoolVars, swept>>
    BY <1>12 DEF LateStatement
  <2>3. s \in Statement /\ Lawful(s)
    BY DEF FenceInv, LateSafe, TypeOK
  <2>4. ledger[s.job].st = "absent" => KeptOrSwept(s.job, AudioOf[s.row.req])
    BY DEF AudioInv, LateAudio
  <2>5. \A j \in Jobs : ledger[j].st = "absent" /\ ledger'[j].st # "absent" =>
                KeptOrSwept(j, AudioOf[ledger[j].req])'
    BY <2>1, <2>2, <2>3, <2>4, InsertedKept
  <2> QED BY <1>1, <2>1, <2>2, <2>5, AudioStep
<1> QED
  BY <1>3, <1>4, <1>5, <1>6, <1>8, <1>9, <1>10, <1>11, <1>12 DEF StartupStep, DrainStep

\* The audio invariant holds of the pipeline when statements do not fail.
LEMMA AudioInvariance == ASSUME "ledger" \notin Faults PROVE Spec => []AudioInv
<1>1. Init => AudioInv
  BY DEF Init, LedgerInit, SpoolInit, NoRow, IdleTask, At, AudioInv, RowAudio, InsertAudio,
         LateAudio, DiscardInv
<1>2. TypeOK /\ TypeOK' /\ FenceInv /\ StartupInv /\ AudioInv /\ [Next]_vars => AudioInv'
  <2>1. ASSUME TypeOK, TypeOK', FenceInv, StartupInv, AudioInv, Next PROVE AudioInv'
    BY <2>1, AudioAdmit, AudioExecute, AudioStartup DEF Next
  <2>2. ASSUME AudioInv, UNCHANGED vars PROVE AudioInv'
    BY <2>2 DEF vars, ledgerVars, spoolVars, AudioInv, RowAudio, InsertAudio, LateAudio,
                DiscardInv, Kept, KeptOrSwept, At, Audio
  <2> QED BY <2>1, <2>2
<1> QED BY <1>1, <1>2, TypeCorrect, FenceCorrect, StartupInvariance, PTL DEF Spec

\* A job that may still be submitted has its audio in the spool, under its own
\* claim, through crashes, disconnects and file errors, as long as the ledger
\* answers its statements: with an unanswered insert the compensation of admit
\* may remove the audio of a row that appears later (MCAudioLost).  The one
\* exception is noted where it arises: maintenance expires an old file that an
\* upload had found again, and the insert of that upload runs after it.
THEOREM AudioIsKept == ASSUME "ledger" \notin Faults PROVE Spec => []AcceptedAudioKept
<1>1. AudioInv => AcceptedAudioKept
  BY DEF AudioInv, RowAudio, Kept, KeptOrSwept, AcceptedAudioKept, Actionable
<1> QED BY <1>1, AudioInvariance, PTL

(***************************************************************************)
(* What the gateway reports of its executions                              *)
(***************************************************************************)

\* The executions between their claim and their report, and the revision of
\* the claim each will report.
BusyPc == {"egress", "persist", "cleanup"}
Busy == {p \in Tasks : task[p].pc \in BusyPc}
ClaimRev(p) == IF At(p, "cleanup") THEN task[p].snap.rev - 1 ELSE task[p].snap.rev

ObsTypes ==
    /\ capture \in [Tasks -> [rev : Int, digest : BOOLEAN]]
    /\ metrics \in [effects : Nat, persisted : Nat, unknown : Nat]
    /\ effects \subseteq Jobs \X Int
    /\ \A r \in records : r.job \in Jobs /\ r.rev \in Int

\* An execution under way has called the provider, has no record yet, and
\* knows what it will report; one that cleans up is alone with its finished
\* row.
BusyInv ==
    \A p \in Busy :
        /\ <<task[p].job, ClaimRev(p)>> \in effects
        /\ \A r \in records : r.job = task[p].job => r.rev # ClaimRev(p)
        /\ ~At(p, "egress") => capture[p].rev = ClaimRev(p)
        /\ (At(p, "persist") /\ task[p].out = "ok") => capture[p].digest
        /\ At(p, "cleanup") =>
            /\ ledger[task[p].job] = task[p].snap
            /\ is_terminal(task[p].snap.st)
            /\ task[p].snap.st = "completed" => capture[p].digest
            /\ \A t \in Busy : task[t].job = task[p].job => t = p

\* No effect is of a claim the ledger has not seen.
EffectInv == \A e \in effects : e[2] <= ledger[e[1]].rev

ReportInv == ObsTypes /\ BusyInv /\ EffectInv /\ RecordsHonest

\* An observed step is a step of the pipeline.
LEMMA ObservedMoves == ObsNext => Next
<1>1. ASSUME NEW p \in Tasks, \/ ObservedClaim(p) \/ ObservedRecognize(p) \/ ObservedPersist(p)
                              \/ ObservedPersistFails(p) \/ ObservedCleanup(p)
      PROVE  Next
  BY <1>1 DEF ObservedClaim, ObservedRecognize, ObservedPersist, ObservedPersistFails,
              ObservedCleanup, Next, ExecuteStep
<1>2. ObservedStop => Next
  BY DEF ObservedStop, Next, StartupStep
<1>3. Unobserved => Next
  <2>1. ASSUME NEW p \in Slots, AdmissionElsewhere(p) PROVE Next
    BY <2>1 DEF AdmissionElsewhere, Next, AdmitStep
  <2>2. ASSUME NEW p \in Tasks, ExecutionElsewhere(p) PROVE Next
    BY <2>2 DEF ExecutionElsewhere, Next, ExecuteStep
  <2> QED BY <2>1, <2>2 DEF Unobserved, Next, StartupStep
<1> QED BY <1>1, <1>2, <1>3 DEF ObsNext

\* The same with stuttering, and for whole behaviours.
LEMMA ObservedSteps == [ObsNext]_<<vars, obsVars>> => [Next]_vars
BY ObservedMoves

LEMMA ObservedPipeline == ObsSpec => Spec
<1>1. ObsInit => Init
  BY DEF ObsInit
<1> QED BY <1>1, ObservedSteps, PTL DEF ObsSpec, Spec

\* What the lemmas below need of a busy task.
LEMMA BusyFacts ==
    ASSUME TypeOK, FenceInv, NEW p \in Busy
    PROVE  /\ p \in Tasks /\ task[p] \in Task /\ task[p].job \in Jobs
           /\ task[p].snap \in Row /\ task[p].snap.rev \in Int /\ ClaimRev(p) \in Int
           /\ ~At(p, "cleanup") =>
                /\ task[p].pc \in InFlightPc /\ ledger[task[p].job] = task[p].snap
                /\ task[p].snap.st = "submitting"
<1>1. p \in Tasks /\ task[p] \in Task /\ task[p].job \in Jobs /\ task[p].pc \in BusyPc
  BY DEF Busy, BusyPc, TypeOK, GoodTask
<1>2. task[p].snap \in Row /\ task[p].snap.rev \in Int
  BY <1>1 DEF Task, Row
<1>3. ~At(p, "cleanup") => task[p].pc \in InFlightPc
  BY <1>1 DEF At, BusyPc, InFlightPc
<1>4. ClaimRev(p) \in Int
  BY <1>2 DEF ClaimRev
<1> QED BY <1>1, <1>2, <1>3, <1>4 DEF FenceInv, InFlightOwnsRow

\* A busy execution has its job to itself.
LEMMA BusyAlone ==
    ASSUME TypeOK, FenceInv, BusyInv, NEW p \in Busy, NEW t \in Busy, task[t].job = task[p].job
    PROVE  t = p
<1>1. CASE At(p, "cleanup")
  BY <1>1 DEF BusyInv
<1>2. CASE At(t, "cleanup")
  BY <1>2 DEF BusyInv
<1>3. CASE ~At(p, "cleanup") /\ ~At(t, "cleanup")
  BY <1>3, BusyFacts DEF FenceInv, InFlightOwnsRow
<1> QED BY <1>1, <1>2, <1>3

\* Rows only move forward, and a finished row not at all.
LEMMA RowsForward ==
    ASSUME TypeOK, FenceInv, Next, NEW j \in Jobs
    PROVE  /\ ledger[j].rev \in Int /\ ledger'[j].rev \in Int
           /\ ledger[j].rev <= ledger'[j].rev
           /\ is_terminal(ledger[j].st) => ledger'[j] = ledger[j]
<1>1. ledger[j].rev \in Int
  BY StartupFacts
<1>2. ledger'[j] = ledger[j] \/ RowMoves(j)
  BY RowsMove
<1>3. RowMoves(j) => ~is_terminal(ledger[j].st) /\ ledger'[j].rev = ledger[j].rev + 1
  BY DEF RowMoves, is_terminal, Actionable
<1> QED BY <1>1, <1>2, <1>3

\* Rows that move forward keep what the records and the effects say.
LEMMA RecordsKept ==
    ASSUME TypeOK, FenceInv, ObsTypes, Next, EstablishedIsStored, EffectInv, records' = records
    PROVE  /\ EstablishedIsStored'
           /\ effects' = effects => EffectInv'
<1>1. ASSUME NEW r \in records, r.durable
      PROVE  /\ ledger'[r.job].rev > r.rev
             /\ is_terminal(r.status) => ledger'[r.job].st = r.status
  <2>1. r.job \in Jobs /\ r.rev \in Int
    BY DEF ObsTypes
  <2>2. ledger[r.job].rev > r.rev /\ (is_terminal(r.status) => ledger[r.job].st = r.status)
    BY <1>1 DEF EstablishedIsStored
  <2> QED BY <2>1, <2>2, RowsForward
<1>2. EstablishedIsStored'
  BY <1>1 DEF EstablishedIsStored
<1>3. ASSUME NEW e \in effects PROVE e[2] <= ledger'[e[1]].rev
  <2>1. e[1] \in Jobs /\ e[2] \in Int
    BY DEF ObsTypes
  <2>2. e[2] <= ledger[e[1]].rev
    BY DEF EffectInv
  <2> QED BY <2>1, <2>2, RowsForward
<1> QED BY <1>2, <1>3 DEF EffectInv

\* A step that changes no observation and no busy task.
LEMMA ReportQuiet ==
    ASSUME TypeOK, FenceInv, ReportInv, Next, UNCHANGED obsVars,
           \A p \in Tasks : \/ task'[p] = task[p]
                            \/ task[p].pc \notin BusyPc /\ task'[p].pc \notin BusyPc
    PROVE  ReportInv'
<1>1. /\ capture' = capture /\ metrics' = metrics /\ records' = records /\ effects' = effects
  BY DEF obsVars
<1>2. Busy' = Busy /\ \A p \in Busy : task'[p] = task[p]
  BY DEF Busy
<1>3. EstablishedIsStored' /\ EffectInv'
  BY <1>1, RecordsKept DEF ReportInv, RecordsHonest
<1>4. BusyInv'
  <2> SUFFICES ASSUME NEW p \in Busy
               PROVE  /\ <<task'[p].job, ClaimRev(p)'>> \in effects
                      /\ \A r \in records : r.job = task'[p].job => r.rev # ClaimRev(p)'
                      /\ ~At(p, "egress")' => capture[p].rev = ClaimRev(p)'
                      /\ (At(p, "persist")' /\ task'[p].out = "ok") => capture[p].digest
                      /\ At(p, "cleanup")' =>
                            /\ ledger'[task'[p].job] = task'[p].snap
                            /\ is_terminal(task'[p].snap.st)
                            /\ task'[p].snap.st = "completed" => capture[p].digest
                            /\ \A t \in Busy : task'[t].job = task'[p].job => t = p
    BY <1>1, <1>2 DEF BusyInv
  <2>1. task'[p] = task[p] /\ (ClaimRev(p))' = ClaimRev(p)
    BY <1>2 DEF ClaimRev, At
  <2>2. /\ <<task[p].job, ClaimRev(p)>> \in effects
        /\ \A r \in records : r.job = task[p].job => r.rev # ClaimRev(p)
        /\ ~At(p, "egress") => capture[p].rev = ClaimRev(p)
        /\ (At(p, "persist") /\ task[p].out = "ok") => capture[p].digest
        /\ At(p, "cleanup") =>
              /\ ledger[task[p].job] = task[p].snap
              /\ is_terminal(task[p].snap.st)
              /\ task[p].snap.st = "completed" => capture[p].digest
              /\ \A t \in Busy : task[t].job = task[p].job => t = p
    BY DEF ReportInv, BusyInv
  <2>3. At(p, "cleanup") => ledger'[task[p].job] = ledger[task[p].job]
    BY <2>2, BusyFacts, RowsForward
  <2> QED BY <1>2, <2>1, <2>2, <2>3 DEF At
<1>5. EffectsAccounted'
  <2>1. {p \in Tasks : task[p].pc \in {"egress", "persist", "cleanup"}}' =
            {p \in Tasks : task[p].pc \in {"egress", "persist", "cleanup"}}
    BY <1>2 DEF Busy, BusyPc
  <2> QED BY <1>1, <2>1 DEF ReportInv, RecordsHonest, EffectsAccounted
<1>6. OneRecordPerEffect' /\ CompletedIsDigested' /\ ObsTypes'
  BY <1>1 DEF ReportInv, RecordsHonest, OneRecordPerEffect, CompletedIsDigested, ObsTypes
<1> QED BY <1>3, <1>4, <1>5, <1>6 DEF ReportInv, RecordsHonest

\* The unobserved steps touch no busy task.
LEMMA UnobservedQuiet ==
    ASSUME TypeOK, FenceInv, Unobserved
    PROVE  \A p \in Tasks : \/ task'[p] = task[p]
                            \/ task[p].pc \notin BusyPc /\ task'[p].pc \notin BusyPc
<1> DEFINE Fine == \A p \in Tasks : \/ task'[p] = task[p]
                                    \/ task[p].pc \notin BusyPc /\ task'[p].pc \notin BusyPc
<1>0. ASSUME NEW p \in Tasks, task[p].pc \notin BusyPc, task'[p].pc \notin BusyPc,
             \A t \in Tasks \ {p} : task'[t] = task[t]
      PROVE  Fine
  BY <1>0
<1> SUFFICES Fine
  OBVIOUS
<1> HIDE DEF Fine
<1>1. ASSUME NEW p \in Tasks, task[p].pc \notin BusyPc,
             \/ Finish(p)
             \/ \E j : StartExecution(p, j)
             \/ \E pc \in AdmissionPc \cup {"claim"} : Goto(p, pc)
      PROVE  Fine
  <2>1. /\ task'[p].pc \in {"idle", "exec", "claim"} \cup AdmissionPc
        /\ \A t \in Tasks \ {p} : task'[t] = task[t]
    BY <1>1, TaskEffects
  <2>2. task'[p].pc \notin BusyPc
    BY <2>1 DEF BusyPc, AdmissionPc
  <2> QED BY <1>0, <1>1, <2>1, <2>2
<1>2. ASSUME NEW p \in Slots, AdmissionElsewhere(p)
      PROVE  Fine
  <2>1. p \in Tasks
    BY DEF Tasks
  <2>2. task[p].pc \notin BusyPc
    BY <1>2 DEF AdmissionElsewhere, Post, AdmitLoad, AdmitStore, AdmitStoreRejected, AdmitInsert,
                AdmitInserted, AdmitInsertFails, AdmitExisting, AdmitVerify, AdmitDiscard,
                AdmitDiscardFails, Disconnect, At, AdmissionPc, BusyPc
  <2>3. ASSUME NEW j \in Jobs, NEW q \in Requests, Post(p, j, q)
        PROVE  Fine
    <3>1. task'[p].pc = "load" /\ \A t \in Tasks \ {p} : task'[t] = task[t]
      BY <2>1, <2>3 DEF Post, TypeOK, IdleTask
    <3> QED BY <1>0, <2>1, <2>2, <3>1 DEF BusyPc
  <2>4. CASE AdmitStore(p)
    <3>1. task'[p].pc = "insert" /\ \A t \in Tasks \ {p} : task'[t] = task[t]
      BY <2>1, <2>4 DEF AdmitStore, TypeOK, GoodTask, Task
    <3> QED BY <1>0, <2>1, <2>2, <3>1 DEF BusyPc
  <2>5. ASSUME NEW row, task' = [task EXCEPT ![p].pc = "discard", ![p].snap = row]
        PROVE  Fine
    <3>1. task'[p].pc = "discard" /\ \A t \in Tasks \ {p} : task'[t] = task[t]
      BY <2>1, <2>5 DEF TypeOK, GoodTask, Task
    <3> QED BY <1>0, <2>1, <2>2, <3>1 DEF BusyPc
  <2>6. ASSUME NEW row, Settle(p, row) \/ ResolveRace(p, row)
        PROVE  Fine
    BY <1>1, <2>1, <2>2, <2>5, <2>6 DEF Settle, ResolveRace
  <2>7. CASE AdmitLoad(p) \/ AdmitStoreRejected(p) \/ AdmitInserted(p) \/ Disconnect(p)
    BY <1>1, <2>1, <2>2, <2>6, <2>7 DEF AdmitLoad, AdmitStoreRejected, AdmitInserted, Disconnect,
                                        AdmissionPc
  <2>8. CASE AdmitInsert(p) \/ AdmitInsertFails(p)
    BY <1>1, <2>1, <2>2, <2>8 DEF AdmitInsert, AdmitInsertFails, AdmissionPc
  <2>9. CASE AdmitExisting(p) \/ AdmitVerify(p) \/ AdmitDiscard(p) \/ AdmitDiscardFails(p)
    BY <1>1, <2>1, <2>2, <2>6, <2>9 DEF AdmitExisting, AdmitVerify, AdmitDiscard,
                                        AdmitDiscardFails, AdmissionPc
  <2> QED BY <1>2, <2>3, <2>4, <2>7, <2>8, <2>9 DEF AdmissionElsewhere
<1>3. ASSUME NEW p \in Tasks, ExecutionElsewhere(p)
      PROVE  Fine
  <2>1. task[p].pc \notin BusyPc
    BY <1>3 DEF ExecutionElsewhere, ExecuteLoad, ExecuteRead, ExecuteReadFails, ExecuteClaimFails,
                ReadFails, At, BusyPc
  <2>2. CASE task' = [task EXCEPT ![p].pc = "read", ![p].snap = ledger[task[p].job]]
    <3>1. task'[p].pc = "read" /\ \A t \in Tasks \ {p} : task'[t] = task[t]
      BY <2>2 DEF TypeOK, GoodTask, Task
    <3> QED BY <1>0, <2>1, <3>1 DEF BusyPc
  <2>3. CASE Finish(p) \/ Goto(p, "claim") \/ Goto(p, "verify")
    BY <1>1, <2>1, <2>3 DEF AdmissionPc
  <2> QED BY <1>3, <2>2, <2>3 DEF ExecutionElsewhere, ExecuteLoad, ExecuteRead, ExecuteReadFails,
                                  ExecuteClaimFails, ReadFails
<1>4. CASE task' = task
  BY <1>4 DEF Fine
<1>5. CASE DrainNext
  <2>1. Drainer \in Tasks /\ task[Drainer].pc \notin BusyPc
    BY <1>5 DEF Tasks, DrainNext, At, BusyPc
  <2>2. task' = task \/ \E j : StartExecution(Drainer, j)
    BY <1>5 DEF DrainNext
  <2> QED BY <1>1, <1>4, <2>1, <2>2
<1>6. CASE \/ Boot \/ RecoverPage \/ RecoverRow \/ RecoverRemove \/ RecoverDone \/ MaintainEntry
           \/ Serve \/ DrainPage \/ LateStatement
  <2>1. task' = task
    BY <1>6 DEF Boot, RecoverPage, RecoverRow, RecoverRemove, RecoverDone, MaintainEntry, Serve,
                DrainPage, LateStatement
  <2> QED BY <1>4, <2>1
<1> QED BY <1>2, <1>3, <1>5, <1>6 DEF Unobserved, DrainStep

\* What another busy execution knows stays true: its job is not the one the
\* step is about, and the step changes no capture and no effect of it.
LEMMA OthersKeep ==
    ASSUME TypeOK, FenceInv, BusyInv, Next, NEW p \in Tasks, NEW t \in Busy, t # p,
           task'[t] = task[t], capture'[t] = capture[t], effects \subseteq effects',
           \A r \in records' : r \in records \/ r.job # task[t].job
    PROVE  /\ <<task'[t].job, ClaimRev(t)'>> \in effects'
           /\ \A r \in records' : r.job = task'[t].job => r.rev # ClaimRev(t)'
           /\ ~At(t, "egress")' => capture'[t].rev = ClaimRev(t)'
           /\ (At(t, "persist")' /\ task'[t].out = "ok") => capture'[t].digest
           /\ At(t, "cleanup")' =>
                 /\ ledger'[task'[t].job] = task'[t].snap
                 /\ is_terminal(task'[t].snap.st)
                 /\ task'[t].snap.st = "completed" => capture'[t].digest
<1>1. (ClaimRev(t))' = ClaimRev(t)
  BY DEF ClaimRev, At
<1>2. /\ <<task[t].job, ClaimRev(t)>> \in effects
      /\ \A r \in records : r.job = task[t].job => r.rev # ClaimRev(t)
      /\ ~At(t, "egress") => capture[t].rev = ClaimRev(t)
      /\ (At(t, "persist") /\ task[t].out = "ok") => capture[t].digest
      /\ At(t, "cleanup") =>
            /\ ledger[task[t].job] = task[t].snap
            /\ is_terminal(task[t].snap.st)
            /\ task[t].snap.st = "completed" => capture[t].digest
  BY DEF BusyInv
<1>3. At(t, "cleanup") => ledger'[task[t].job] = ledger[task[t].job]
  BY <1>2, BusyFacts, RowsForward
<1> QED BY <1>1, <1>2, <1>3 DEF At

\* How the number of busy executions changes.
LEMMA BusyCount ==
    ASSUME IsFiniteSet(Slots), NEW p \in Tasks, \A t \in Tasks \ {p} : task'[t] = task[t]
    PROVE  /\ Cardinality(Busy) \in Nat
           /\ (p \in Busy /\ p \in Busy') => Busy' = Busy
           /\ (p \notin Busy /\ p \in Busy') => Cardinality(Busy') = Cardinality(Busy) + 1
           /\ (p \in Busy /\ p \notin Busy') => Cardinality(Busy') = Cardinality(Busy) - 1
<1>1. IsFiniteSet(Tasks)
  BY FS_AddElement DEF Tasks
<1>2. Busy \in SUBSET Tasks /\ Busy' \in SUBSET Tasks
  BY DEF Busy
<1>3. \A t \in Tasks \ {p} : t \in Busy' <=> t \in Busy
  BY DEF Busy
<1>4. IsFiniteSet(Busy) /\ Cardinality(Busy) \in Nat
  BY <1>1, <1>2, FS_Subset, FS_CardinalityType
<1>5. (p \in Busy /\ p \in Busy') => Busy' = Busy
  BY <1>2, <1>3
<1>6. (p \notin Busy /\ p \in Busy') => Busy' = Busy \cup {p}
  BY <1>2, <1>3
<1>7. (p \in Busy /\ p \notin Busy') => Busy' = Busy \ {p}
  BY <1>2, <1>3
<1> QED BY <1>4, <1>5, <1>6, <1>7, FS_AddElement, FS_RemoveElement

\* A claim that applies begins one effect: the revision is new, so no record
\* and no other effect has its key, and no other execution of the job is busy.
LEMMA ReportClaim ==
    ASSUME IsFiniteSet(Slots), TypeOK, FenceInv, ReportInv, Next, NEW p \in Tasks, ObservedClaim(p)
    PROVE  ReportInv'
<1> DEFINE s == ClaimOf(p)
<1>1. /\ s \in Statement /\ Lawful(s) /\ Commit(s) /\ At(p, "claim")
      /\ capture' = capture /\ records' = records
  BY SentLawful DEF ObservedClaim, ExecuteClaim
<1>2. task[p] \in Task /\ s.job = task[p].job /\ task[p].job \in Jobs /\ s.row.st = "submitting"
  <2>1. task[p] \in Task /\ task[p].job \in Jobs /\ task[p].snap \in Row
    BY <1>1 DEF At, TypeOK, GoodTask, Task
  <2> QED BY <2>1 DEF ClaimOf, CompareAndSwap, begin_submission, Row
<1>3. p \notin Busy
  BY <1>1 DEF Busy, BusyPc, At
<1>4. CASE ~Applies(s)
  <2>1. Finish(p) /\ metrics' = metrics /\ effects' = effects
    BY <1>4 DEF ObservedClaim, ExecuteClaim
  <2>2. \A t \in Tasks : \/ task'[t] = task[t]
                         \/ task[t].pc \notin BusyPc /\ task'[t].pc \notin BusyPc
    <3>1. task'[p].pc = "idle" /\ \A t \in Tasks \ {p} : task'[t] = task[t]
      BY <2>1, TaskEffects
    <3> QED BY <1>3, <3>1 DEF Busy, BusyPc
  <2> QED BY <1>1, <2>1, <2>2, ReportQuiet DEF obsVars
<1>5. CASE Applies(s)
  <2>1. /\ task' = [task EXCEPT ![p].pc = "egress", ![p].snap = s.row]
        /\ metrics' = [metrics EXCEPT !.effects = @ + 1]
        /\ effects' = effects \cup {<<task[p].job, s.row.rev>>}
    BY <1>5 DEF ObservedClaim, ExecuteClaim
  <2>2. /\ task'[p].pc = "egress" /\ task'[p].snap = s.row /\ task'[p].job = task[p].job
        /\ \A t \in Tasks \ {p} : task'[t] = task[t]
    BY <1>2, <2>1 DEF TypeOK, Task
  <2> HIDE DEF s
  <2>3. /\ ledger'[s.job] = s.row /\ ledger'[s.job].rev = ledger[s.job].rev + 1
        /\ Actionable(ledger[s.job].st) /\ s.row.rev \in Int /\ ledger[s.job].rev \in Int
    BY <1>1, <1>2, <1>5, LawfulMoves, StartupFacts DEF RowMoves, Actionable, Statement, Row
  <2>4. p \in Busy' /\ Busy' = Busy \cup {p}
    <3>1. \A t \in Tasks : t \in Busy' <=> (t \in Busy \/ t = p)
      BY <2>2 DEF Busy, BusyPc
    <3> QED BY <3>1 DEF Busy
  <2>5. \A t \in Busy : task[t].job # s.job
    <3> SUFFICES ASSUME NEW t \in Busy, task[t].job = s.job PROVE FALSE
      OBVIOUS
    <3>1. ~At(t, "cleanup") => ledger[s.job].st = "submitting"
      BY BusyFacts
    <3>2. At(t, "cleanup") => is_terminal(ledger[s.job].st)
      BY DEF ReportInv, BusyInv
    <3> QED BY <2>3, <3>1, <3>2 DEF is_terminal, Actionable
  <2>6. \A e \in effects : e[1] = s.job => e[2] < s.row.rev
    <3> SUFFICES ASSUME NEW e \in effects, e[1] = s.job PROVE e[2] < s.row.rev
      OBVIOUS
    <3>1. e[2] \in Int /\ e[2] <= ledger[s.job].rev
      BY DEF ReportInv, ObsTypes, EffectInv
    <3> QED BY <2>3, <3>1
  <2>7. BusyInv'
    <3>1. ASSUME NEW t \in Busy
          PROVE  /\ <<task'[t].job, ClaimRev(t)'>> \in effects'
                 /\ \A r \in records' : r.job = task'[t].job => r.rev # ClaimRev(t)'
                 /\ ~At(t, "egress")' => capture'[t].rev = ClaimRev(t)'
                 /\ (At(t, "persist")' /\ task'[t].out = "ok") => capture'[t].digest
                 /\ At(t, "cleanup")' =>
                       /\ ledger'[task'[t].job] = task'[t].snap
                       /\ is_terminal(task'[t].snap.st)
                       /\ task'[t].snap.st = "completed" => capture'[t].digest
                       /\ \A x \in Busy' : task'[x].job = task'[t].job => x = t
      <4>1. t \in Tasks /\ t # p /\ task'[t] = task[t]
        BY <1>3, <2>2 DEF Busy
      <4>2. capture'[t] = capture[t] /\ effects \subseteq effects' /\ records' = records
        BY <1>1, <2>1
      <4>3. \A x \in Busy' : task'[x].job = task'[t].job => x = t
        <5> SUFFICES ASSUME NEW x \in Busy', task'[x].job = task'[t].job PROVE x = t
          OBVIOUS
        <5>1. x # p
          BY <1>2, <2>2, <2>5, <4>1
        <5>2. x \in Busy /\ task'[x] = task[x]
          BY <2>2, <2>4, <5>1 DEF Busy
        <5> QED BY <4>1, <5>2, BusyAlone DEF ReportInv
      <4> QED BY <4>1, <4>2, <4>3, OthersKeep DEF ReportInv
    <3>2. /\ <<task'[p].job, ClaimRev(p)'>> \in effects'
          /\ \A r \in records' : r.job = task'[p].job => r.rev # ClaimRev(p)'
          /\ At(p, "egress")' /\ ~At(p, "cleanup")' /\ ~At(p, "persist")'
      <4>1. ClaimRev(p)' = s.row.rev /\ task'[p].job = s.job
        BY <1>2, <2>2 DEF ClaimRev, At
      <4>2. \A r \in records : r.job = s.job => r.rev < s.row.rev
        <5>1. \A r \in records : <<r.job, r.rev>> \in effects
          BY DEF ReportInv, RecordsHonest, OneRecordPerEffect
        <5> QED BY <2>6, <5>1
      <4>3. \A r \in records : r.job = s.job => r.rev # s.row.rev
        BY <2>3, <4>2 DEF ReportInv, ObsTypes
      <4>4. At(p, "egress")' /\ ~At(p, "cleanup")' /\ ~At(p, "persist")'
        BY <2>2 DEF At
      <4>5. <<task'[p].job, ClaimRev(p)'>> \in effects'
        BY <1>2, <2>1, <4>1
      <4>6. \A r \in records' : r.job = task'[p].job => r.rev # ClaimRev(p)'
        BY <1>1, <4>1, <4>3
      <4> QED BY <4>4, <4>5, <4>6
    <3> QED BY <2>4, <3>1, <3>2 DEF BusyInv
  <2>8. EffectInv'
    <3>1. \A e \in effects : e[2] <= ledger'[e[1]].rev
      <4> SUFFICES ASSUME NEW e \in effects PROVE e[2] <= ledger'[e[1]].rev
        OBVIOUS
      <4>1. e[1] \in Jobs /\ e[2] \in Int /\ e[2] <= ledger[e[1]].rev
        BY DEF ReportInv, ObsTypes, EffectInv
      <4> QED BY <4>1, RowsForward
    <3> QED BY <1>2, <2>1, <2>3, <3>1 DEF EffectInv
  <2>9. EstablishedIsStored'
    BY <1>1, RecordsKept DEF ReportInv, RecordsHonest
  <2>10. OneRecordPerEffect' /\ CompletedIsDigested'
    BY <1>1, <2>1 DEF ReportInv, RecordsHonest, OneRecordPerEffect, CompletedIsDigested
  <2>11. ObsTypes' /\ metrics'.effects = metrics.effects + 1
            /\ metrics'.persisted = metrics.persisted /\ metrics'.unknown = metrics.unknown
    <3>1. metrics \in [effects : Nat, persisted : Nat, unknown : Nat]
      BY DEF ReportInv, ObsTypes
    <3>2. effects' \subseteq Jobs \X Int
      BY <1>2, <2>1, <2>3 DEF ReportInv, ObsTypes
    <3> QED BY <1>1, <2>1, <3>1, <3>2 DEF ReportInv, ObsTypes
  <2>12. EffectsAccounted'
    <3>1. Cardinality(Busy') = Cardinality(Busy) + 1 /\ Cardinality(Busy) \in Nat
      BY <1>3, <2>2, <2>4, BusyCount
    <3>2. metrics.effects = metrics.persisted + metrics.unknown + Cardinality(Busy)
      BY DEF ReportInv, RecordsHonest, EffectsAccounted, Busy, BusyPc
    <3>3. metrics.effects \in Nat /\ metrics.persisted \in Nat /\ metrics.unknown \in Nat
      BY DEF ReportInv, ObsTypes
    <3>4. metrics'.effects = metrics'.persisted + metrics'.unknown + Cardinality(Busy')
      BY <2>11, <3>1, <3>2, <3>3
    <3> QED BY <3>4 DEF EffectsAccounted, Busy, BusyPc
  <2> QED BY <2>7, <2>8, <2>9, <2>10, <2>11, <2>12 DEF ReportInv, RecordsHonest
<1> QED BY <1>4, <1>5

\* A step of one busy execution p, after which the busy executions are those
\* before, perhaps without p: the others keep what they know.
LEMMA OthersBusy ==
    ASSUME TypeOK, FenceInv, BusyInv, Next, NEW p \in Busy,
           \A t \in Tasks \ {p} : task'[t] = task[t] /\ capture'[t] = capture[t],
           p \in Busy' => task'[p].job = task[p].job,
           effects' = effects,
           \A r \in records' : r \in records \/ r.job = task[p].job,
           p \in Busy' =>
                /\ <<task'[p].job, ClaimRev(p)'>> \in effects'
                /\ \A r \in records' : r.job = task'[p].job => r.rev # ClaimRev(p)'
                /\ ~At(p, "egress")' => capture'[p].rev = ClaimRev(p)'
                /\ (At(p, "persist")' /\ task'[p].out = "ok") => capture'[p].digest
                /\ At(p, "cleanup")' =>
                      /\ ledger'[task'[p].job] = task'[p].snap
                      /\ is_terminal(task'[p].snap.st)
                      /\ task'[p].snap.st = "completed" => capture'[p].digest
    PROVE  BusyInv'
<1>1. \A t \in Busy' : t \in Busy /\ task'[t].job = task[t].job
  BY DEF Busy
<1>2. \A t, x \in Busy' : task'[x].job = task'[t].job => x = t
  BY <1>1, BusyAlone
<1>3. ASSUME NEW t \in Busy', t # p
      PROVE  /\ <<task'[t].job, ClaimRev(t)'>> \in effects'
             /\ \A r \in records' : r.job = task'[t].job => r.rev # ClaimRev(t)'
             /\ ~At(t, "egress")' => capture'[t].rev = ClaimRev(t)'
             /\ (At(t, "persist")' /\ task'[t].out = "ok") => capture'[t].digest
             /\ At(t, "cleanup")' =>
                   /\ ledger'[task'[t].job] = task'[t].snap
                   /\ is_terminal(task'[t].snap.st)
                   /\ task'[t].snap.st = "completed" => capture'[t].digest
  <2>1. t \in Busy /\ t \in Tasks /\ task'[t] = task[t] /\ capture'[t] = capture[t]
    BY <1>1, <1>3 DEF Busy
  <2>2. task[t].job # task[p].job
    BY <1>3, <2>1, BusyAlone
  <2>3. \A r \in records' : r \in records \/ r.job # task[t].job
    BY <2>2
  <2>4. p \in Tasks
    BY DEF Busy
  <2> QED BY <1>3, <2>1, <2>3, <2>4, OthersKeep
<1>4. \A t \in Busy' :
        /\ <<task'[t].job, ClaimRev(t)'>> \in effects'
        /\ \A r \in records' : r.job = task'[t].job => r.rev # ClaimRev(t)'
        /\ ~At(t, "egress")' => capture'[t].rev = ClaimRev(t)'
        /\ (At(t, "persist")' /\ task'[t].out = "ok") => capture'[t].digest
        /\ At(t, "cleanup")' =>
              /\ ledger'[task'[t].job] = task'[t].snap
              /\ is_terminal(task'[t].snap.st)
              /\ task'[t].snap.st = "completed" => capture'[t].digest
              /\ \A x \in Busy' : task'[x].job = task'[t].job => x = t
  <2> SUFFICES ASSUME NEW t \in Busy'
               PROVE  /\ <<task'[t].job, ClaimRev(t)'>> \in effects'
                      /\ \A r \in records' : r.job = task'[t].job => r.rev # ClaimRev(t)'
                      /\ ~At(t, "egress")' => capture'[t].rev = ClaimRev(t)'
                      /\ (At(t, "persist")' /\ task'[t].out = "ok") => capture'[t].digest
                      /\ At(t, "cleanup")' =>
                                 /\ ledger'[task'[t].job] = task'[t].snap
                                 /\ is_terminal(task'[t].snap.st)
                                 /\ task'[t].snap.st = "completed" => capture'[t].digest
                                 /\ \A x \in Busy' : task'[x].job = task'[t].job => x = t
    OBVIOUS
  <2>1. CASE t = p
    BY <1>2, <2>1
  <2>2. CASE t # p
    BY <1>2, <1>3, <2>2
  <2> QED BY <2>1, <2>2
<1> QED BY <1>4 DEF BusyInv

\* The call returned: what it returned is captured.
LEMMA ReportRecognize ==
    ASSUME IsFiniteSet(Slots), TypeOK, FenceInv, ReportInv, Next, NEW p \in Tasks,
           ObservedRecognize(p)
    PROVE  ReportInv'
<1>1. PICK out \in Outcomes : task' = [task EXCEPT ![p].pc = "persist", ![p].out = out]
  BY DEF ObservedRecognize, Recognize
<1>2. /\ At(p, "egress") /\ ledger' = ledger
      /\ metrics' = metrics /\ records' = records /\ effects' = effects
      /\ capture' = [capture EXCEPT ![p] =
             [rev |-> task[p].snap.rev, digest |-> task'[p].out \in {"ok", "invalid"}]]
  BY DEF ObservedRecognize, Recognize, ledgerVars
<1>3. p \in Busy
  BY <1>2 DEF Busy, BusyPc, At
<1>4. /\ task'[p].pc = "persist" /\ task'[p].out = out
      /\ task'[p].job = task[p].job /\ task'[p].snap = task[p].snap
      /\ \A t \in Tasks \ {p} : task'[t] = task[t]
  BY <1>1 DEF TypeOK, GoodTask, Task
<1>5. capture \in [Tasks -> [rev : Int, digest : BOOLEAN]]
  BY DEF ReportInv, ObsTypes
<1>6. /\ capture' \in [Tasks -> [rev : Int, digest : BOOLEAN]]
      /\ capture'[p].rev = task[p].snap.rev /\ (out = "ok" => capture'[p].digest)
      /\ \A t \in Tasks \ {p} : capture'[t] = capture[t]
  <2> DEFINE c == [rev |-> task[p].snap.rev, digest |-> task'[p].out \in {"ok", "invalid"}]
  <2>1. task[p].snap.rev \in Int
    BY <1>3, BusyFacts
  <2>2. c \in [rev : Int, digest : BOOLEAN] /\ c.rev = task[p].snap.rev
    BY <2>1
  <2>3. out = "ok" => c.digest
    BY <1>4, Zenon
  <2>4. capture' = [capture EXCEPT ![p] = c]
    BY <1>2
  <2> HIDE DEF c
  <2>5. capture'[p] = c
    BY <1>5, <2>4
  <2> QED BY <1>5, <2>2, <2>3, <2>4, <2>5
<1>7. ClaimRev(p)' = task[p].snap.rev /\ ClaimRev(p) = task[p].snap.rev
  BY <1>2, <1>4 DEF ClaimRev, At
<1>8. BusyInv'
  <2>1. /\ <<task[p].job, ClaimRev(p)>> \in effects
        /\ \A r \in records : r.job = task[p].job => r.rev # ClaimRev(p)
    BY <1>3 DEF ReportInv, BusyInv
  <2>2. /\ <<task'[p].job, ClaimRev(p)'>> \in effects'
        /\ \A r \in records' : r.job = task'[p].job => r.rev # ClaimRev(p)'
        /\ capture'[p].rev = ClaimRev(p)'
        /\ task'[p].out = "ok" => capture'[p].digest
        /\ ~At(p, "cleanup")'
    BY <1>2, <1>4, <1>6, <1>7, <2>1 DEF At
  <2> QED BY <1>2, <1>3, <1>4, <1>6, <2>2, OthersBusy DEF ReportInv
<1>9. EstablishedIsStored' /\ EffectInv'
  BY <1>2, RecordsKept DEF ReportInv, RecordsHonest
<1>10. OneRecordPerEffect' /\ CompletedIsDigested' /\ ObsTypes'
  BY <1>2, <1>6 DEF ReportInv, RecordsHonest, OneRecordPerEffect, CompletedIsDigested, ObsTypes
<1>11. EffectsAccounted'
  <2>1. p \in Busy'
    BY <1>4 DEF Busy, BusyPc
  <2>2. Busy' = Busy
    BY <1>3, <1>4, <2>1, BusyCount
  <2> QED BY <1>2, <2>2 DEF ReportInv, RecordsHonest, EffectsAccounted, Busy, BusyPc
<1> QED BY <1>8, <1>9, <1>10, <1>11 DEF ReportInv, RecordsHonest

\* A busy execution reports and is done: what it says is so.
LEMMA ReportStep ==
    ASSUME IsFiniteSet(Slots), TypeOK, FenceInv, ReportInv, Next, NEW p \in Busy,
           ~At(p, "egress"), Finish(p), NEW verdict \in {"persisted", "failed"}, NEW st,
           Report(p, verdict, st), effects' = effects,
           verdict = "persisted" =>
                /\ ledger'[task[p].job].rev > ClaimRev(p)
                /\ is_terminal(st) => ledger'[task[p].job].st = st
                /\ st = "completed" => capture[p].digest
    PROVE  ReportInv'
<1> DEFINE new == Record(task[p].job, capture[p].rev, capture[p].digest, verdict, st)
<1>1. /\ records' \in {records, records \cup {new}}
      /\ capture' = [capture EXCEPT ![p] = NoCapture]
      /\ observe_outcome(verdict)
  BY DEF Report, RecordEffect
<1>2. /\ p \in Tasks /\ task[p].job \in Jobs /\ ClaimRev(p) \in Int
      /\ capture[p].rev = ClaimRev(p)
      /\ <<task[p].job, ClaimRev(p)>> \in effects
      /\ \A r \in records : r.job = task[p].job => r.rev # ClaimRev(p)
  BY BusyFacts DEF ReportInv, BusyInv
<1>3. /\ new.job = task[p].job /\ new.rev = ClaimRev(p) /\ new.digest = capture[p].digest
      /\ verdict = "persisted" => new.status = st /\ new.durable = TRUE
      /\ verdict = "failed" => new.status = "persistence_failed" /\ new.durable = FALSE
  BY <1>2 DEF Record, classify_outcome
<1> HIDE DEF new
<1>4. task'[p].pc = "idle" /\ \A t \in Tasks \ {p} : task'[t] = task[t]
  BY <1>2, TaskEffects
<1>5. p \notin Busy'
  BY <1>4 DEF Busy, BusyPc
<1>6. capture \in [Tasks -> [rev : Int, digest : BOOLEAN]]
  BY DEF ReportInv, ObsTypes
<1>7. /\ capture' \in [Tasks -> [rev : Int, digest : BOOLEAN]]
      /\ \A t \in Tasks \ {p} : capture'[t] = capture[t]
  <2>1. NoCapture \in [rev : Int, digest : BOOLEAN]
    BY DEF NoCapture
  <2> QED BY <1>1, <1>6, <2>1
<1>8. \A r \in records' : r \in records \/ r = new
  BY <1>1
<1>9. BusyInv'
  BY <1>3, <1>4, <1>5, <1>7, <1>8, OthersBusy DEF ReportInv
<1>10. EffectInv'
  <2> SUFFICES ASSUME NEW e \in effects PROVE e[2] <= ledger'[e[1]].rev
    BY DEF EffectInv
  <2>1. e[1] \in Jobs /\ e[2] \in Int /\ e[2] <= ledger[e[1]].rev
    BY DEF ReportInv, ObsTypes, EffectInv
  <2> QED BY <2>1, RowsForward
<1>11. EstablishedIsStored'
  <2> SUFFICES ASSUME NEW r \in records', r.durable
               PROVE  /\ ledger'[r.job].rev > r.rev
                      /\ is_terminal(r.status) => ledger'[r.job].st = r.status
    BY DEF EstablishedIsStored
  <2>1. CASE r \in records
    <3>1. r.job \in Jobs /\ r.rev \in Int
      BY <2>1 DEF ReportInv, ObsTypes
    <3>2. ledger[r.job].rev > r.rev /\ (is_terminal(r.status) => ledger[r.job].st = r.status)
      BY <2>1 DEF ReportInv, RecordsHonest, EstablishedIsStored
    <3> QED BY <3>1, <3>2, RowsForward
  <2>2. CASE r = new
    <3>1. verdict = "persisted"
      BY <1>3, <2>2
    <3> QED BY <1>3, <2>2, <3>1
  <2> QED BY <1>8, <2>1, <2>2
<1>12. OneRecordPerEffect'
  <2>1. \A r \in records' : <<r.job, r.rev>> \in effects'
    <3>1. \A r \in records : <<r.job, r.rev>> \in effects
      BY DEF ReportInv, RecordsHonest, OneRecordPerEffect
    <3> QED BY <1>2, <1>3, <1>8, <3>1
  <2>2. ASSUME NEW r \in records', NEW s \in records', <<r.job, r.rev>> = <<s.job, s.rev>>
        PROVE  r = s
    <3>1. r.job = s.job /\ r.rev = s.rev
      BY <2>2
    <3>2. CASE r \in records /\ s \in records
      BY <2>2, <3>2 DEF ReportInv, RecordsHonest, OneRecordPerEffect
    <3>3. CASE r = new /\ s \in records
      BY <1>2, <1>3, <3>1, <3>3
    <3>4. CASE r \in records /\ s = new
      BY <1>2, <1>3, <3>1, <3>4
    <3> QED BY <1>8, <3>2, <3>3, <3>4
  <2> QED BY <2>1, <2>2 DEF OneRecordPerEffect
<1>13. CompletedIsDigested'
  <2> SUFFICES ASSUME NEW r \in records', r.status = "completed" PROVE r.digest
    BY DEF CompletedIsDigested
  <2>1. CASE r \in records
    BY <2>1 DEF ReportInv, RecordsHonest, CompletedIsDigested
  <2>2. CASE r = new
    <3>1. verdict = "persisted" /\ st = "completed"
      BY <1>3, <2>2
    <3> QED BY <1>3, <2>2, <3>1
  <2> QED BY <1>8, <2>1, <2>2
<1>14. /\ metrics \in [effects : Nat, persisted : Nat, unknown : Nat]
       /\ metrics' \in [effects : Nat, persisted : Nat, unknown : Nat]
       /\ metrics'.effects = metrics.effects
       /\ metrics'.persisted + metrics'.unknown = metrics.persisted + metrics.unknown + 1
  <2>1. metrics \in [effects : Nat, persisted : Nat, unknown : Nat]
    BY DEF ReportInv, ObsTypes
  <2>2. metrics.effects \in Nat /\ metrics.persisted \in Nat /\ metrics.unknown \in Nat
    BY <2>1
  <2>3. PICK m, n \in Nat : /\ m + n = 1
                             /\ metrics' = [metrics EXCEPT !.persisted = @ + m, !.unknown = @ + n]
    <3>1. CASE verdict = "persisted"
      <4>1. metrics' = [metrics EXCEPT !.persisted = @ + 1, !.unknown = @ + 0]
        BY <1>1, <3>1 DEF observe_outcome
      <4>2. 1 \in Nat /\ 0 \in Nat /\ 1 + 0 = 1
        OBVIOUS
      <4> QED BY <4>1, <4>2
    <3>2. CASE verdict = "failed"
      <4>1. metrics' = [metrics EXCEPT !.persisted = @ + 0, !.unknown = @ + 1]
        BY <1>1, <3>2 DEF observe_outcome
      <4>2. 1 \in Nat /\ 0 \in Nat /\ 0 + 1 = 1
        OBVIOUS
      <4> QED BY <4>1, <4>2
    <3> QED BY <3>1, <3>2
  <2>4. /\ metrics'.effects = metrics.effects
        /\ metrics'.persisted = metrics.persisted + m
        /\ metrics'.unknown = metrics.unknown + n
    BY <2>1, <2>3
  <2>5. metrics.persisted + m \in Nat /\ metrics.unknown + n \in Nat
    BY <2>2
  <2>6. metrics' \in [effects : Nat, persisted : Nat, unknown : Nat]
    BY <2>1, <2>3, <2>5
  <2>7. metrics'.persisted + metrics'.unknown = metrics.persisted + metrics.unknown + 1
    BY <2>2, <2>3, <2>4
  <2> QED BY <2>1, <2>4, <2>6, <2>7
<1>15. EffectsAccounted'
  <2>1. Cardinality(Busy') = Cardinality(Busy) - 1 /\ Cardinality(Busy) \in Nat
    BY <1>2, <1>4, <1>5, BusyCount
  <2>2. metrics.effects = metrics.persisted + metrics.unknown + Cardinality(Busy)
    BY DEF ReportInv, RecordsHonest, EffectsAccounted, Busy, BusyPc
  <2>3. /\ metrics.effects \in Nat /\ metrics.persisted \in Nat /\ metrics.unknown \in Nat
        /\ metrics'.persisted \in Nat /\ metrics'.unknown \in Nat
    BY <1>14
  <2>4. metrics'.effects = metrics'.persisted + metrics'.unknown + Cardinality(Busy')
    BY <1>14, <2>1, <2>2, <2>3
  <2> QED BY <2>4 DEF EffectsAccounted, Busy, BusyPc
<1>16. ObsTypes'
  <2>1. \A r \in records' : r.job \in Jobs /\ r.rev \in Int
    BY <1>2, <1>3, <1>8 DEF ReportInv, ObsTypes
  <2> QED BY <1>7, <1>14, <2>1 DEF ReportInv, ObsTypes
<1> QED BY <1>9, <1>10, <1>11, <1>12, <1>13, <1>15, <1>16 DEF ReportInv, RecordsHonest

\* The outcome is stored: the row is still the claimed one, so the statement
\* applies; a retryable outcome is reported at once, a terminal one after its
\* clean-up.
LEMMA ReportPersist ==
    ASSUME IsFiniteSet(Slots), TypeOK, FenceInv, ReportInv, Next, NEW p \in Tasks,
           ObservedPersist(p)
    PROVE  ReportInv'
<1> DEFINE s == PersistOf(p)
<1>1. /\ At(p, "persist") /\ s \in Statement /\ Lawful(s) /\ Commit(s) /\ effects' = effects
  BY SentLawful DEF ObservedPersist, ExecutePersist
<1>2. p \in Busy /\ ~At(p, "egress") /\ ~At(p, "cleanup")
  BY <1>1 DEF Busy, BusyPc, At
<1>3. /\ task[p] \in Task /\ task[p].job \in Jobs /\ task[p].snap \in Row
      /\ task[p].snap.rev \in Int /\ ledger[task[p].job] = task[p].snap
      /\ ClaimRev(p) = task[p].snap.rev
  BY <1>2, BusyFacts DEF ClaimRev
<1>4. /\ s.job = task[p].job /\ s.row.rev = task[p].snap.rev + 1
      /\ s.row.req = task[p].snap.req
      /\ s.row.st = "completed" => task[p].out = "ok"
  <2>1. /\ s.row.st = "completed" => task[p].out = "ok"
    BY <1>3 DEF PersistOf, CompareAndSwap, apply_recognition_outcome, Row
  <2> QED BY <1>3, <2>1 DEF PersistOf, CompareAndSwap, apply_recognition_outcome, Row
<1>5. Applies(s)
  BY <1>3, <1>4 DEF Applies
<1>6. /\ <<task[p].job, ClaimRev(p)>> \in effects
      /\ \A r \in records : r.job = task[p].job => r.rev # ClaimRev(p)
      /\ capture[p].rev = ClaimRev(p)
      /\ task[p].out = "ok" => capture[p].digest
  BY <1>1, <1>2 DEF ReportInv, BusyInv
<1>7. IF is_terminal(s.row.st)
      THEN /\ task' = [task EXCEPT ![p].pc = "cleanup", ![p].snap = s.row, ![p].out = "none"]
           /\ UNCHANGED <<capture, metrics, records>>
      ELSE Finish(p) /\ Report(p, "persisted", s.row.st)
  BY <1>5 DEF ObservedPersist, ExecutePersist
<1> HIDE DEF s
<1>8. ledger'[task[p].job] = s.row
  BY <1>1, <1>4, <1>5, LawfulMoves
<1>9. CASE ~is_terminal(s.row.st)
  <2>1. Finish(p) /\ Report(p, "persisted", s.row.st)
    BY <1>7, <1>9
  <2>2. ledger'[task[p].job].rev > ClaimRev(p)
    BY <1>3, <1>4, <1>8
  <2>3. s.row.st # "completed"
    BY <1>9 DEF is_terminal
  <2>4. "persisted" \in {"persisted", "failed"}
    OBVIOUS
  <2> QED BY <1>1, <1>2, <1>9, <2>1, <2>2, <2>3, <2>4, ReportStep
<1>10. CASE is_terminal(s.row.st)
  <2>1. /\ task' = [task EXCEPT ![p].pc = "cleanup", ![p].snap = s.row, ![p].out = "none"]
        /\ capture' = capture /\ metrics' = metrics /\ records' = records
    BY <1>7, <1>10
  <2>2. /\ task'[p].pc = "cleanup" /\ task'[p].snap = s.row /\ task'[p].job = task[p].job
        /\ \A t \in Tasks \ {p} : task'[t] = task[t]
    BY <1>3, <2>1 DEF TypeOK, Task
  <2>3. At(p, "cleanup")' /\ ~At(p, "egress")' /\ ~At(p, "persist")' /\ p \in Busy'
    BY <2>2 DEF At, Busy, BusyPc
  <2>4. ClaimRev(p)' = task[p].snap.rev
    <3>1. ClaimRev(p)' = s.row.rev - 1
      BY <2>2, <2>3 DEF ClaimRev
    <3> QED BY <1>3, <1>4, <3>1
  <2>5. BusyInv'
    <3>1. /\ <<task'[p].job, ClaimRev(p)'>> \in effects'
          /\ \A r \in records' : r.job = task'[p].job => r.rev # ClaimRev(p)'
          /\ capture'[p].rev = ClaimRev(p)'
      <4>1. ClaimRev(p)' = ClaimRev(p) /\ task'[p].job = task[p].job
        BY <1>3, <2>2, <2>4
      <4> HIDE DEF s
      <4>2. <<task'[p].job, ClaimRev(p)'>> = <<task[p].job, ClaimRev(p)>>
        BY <4>1
      <4>3. <<task'[p].job, ClaimRev(p)'>> \in effects'
        BY <1>1, <1>6, <4>2
      <4>4. \A r \in records' : r.job = task'[p].job => r.rev # ClaimRev(p)'
        BY <1>6, <2>1, <4>1
      <4>5. capture'[p].rev = ClaimRev(p)'
        BY <1>6, <2>1, <4>1
      <4> QED BY <4>3, <4>4, <4>5
    <3>2. /\ ledger'[task'[p].job] = task'[p].snap
          /\ is_terminal(task'[p].snap.st)
          /\ task'[p].snap.st = "completed" => capture'[p].digest
      BY <1>4, <1>6, <1>8, <1>10, <2>1, <2>2
    <3>3. \A t \in Tasks \ {p} : task'[t] = task[t] /\ capture'[t] = capture[t]
      BY <2>1, <2>2
    <3>4. \A r \in records' : r \in records
      BY <2>1
    <3> QED BY <1>1, <1>2, <2>2, <2>3, <3>1, <3>2, <3>3, <3>4, OthersBusy DEF ReportInv
  <2>6. EstablishedIsStored' /\ EffectInv'
    BY <1>1, <2>1, RecordsKept DEF ReportInv, RecordsHonest
  <2>7. OneRecordPerEffect' /\ CompletedIsDigested' /\ ObsTypes'
    BY <1>1, <2>1 DEF ReportInv, RecordsHonest, OneRecordPerEffect, CompletedIsDigested, ObsTypes
  <2>8. EffectsAccounted'
    <3>1. Busy' = Busy
      BY <1>2, <2>2, <2>3, BusyCount
    <3> QED BY <2>1, <3>1 DEF ReportInv, RecordsHonest, EffectsAccounted, Busy, BusyPc
  <2> QED BY <2>5, <2>6, <2>7, <2>8 DEF ReportInv, RecordsHonest
<1> QED BY <1>9, <1>10

\* The store failed: the execution reports that.
LEMMA ReportFails ==
    ASSUME IsFiniteSet(Slots), TypeOK, FenceInv, ReportInv, Next, NEW p \in Tasks,
           ObservedPersistFails(p)
    PROVE  ReportInv'
<1>1. /\ At(p, "persist") /\ Finish(p) /\ Report(p, "failed", "none") /\ effects' = effects
  BY DEF ObservedPersistFails, ExecutePersistFails
<1>2. p \in Busy /\ ~At(p, "egress")
  BY <1>1 DEF Busy, BusyPc, At
<1>3. "failed" \in {"persisted", "failed"} /\ "failed" # "persisted"
  OBVIOUS
<1> QED BY <1>1, <1>2, <1>3, ReportStep

\* The clean-up is over: the stored outcome is reported.
LEMMA ReportCleanup ==
    ASSUME IsFiniteSet(Slots), TypeOK, FenceInv, ReportInv, Next, NEW p \in Tasks,
           ObservedCleanup(p)
    PROVE  ReportInv'
<1>1. /\ At(p, "cleanup") /\ Finish(p) /\ Report(p, "persisted", task[p].snap.st)
      /\ effects' = effects /\ ledger' = ledger
  BY DEF ObservedCleanup, ExecuteCleanup, ledgerVars
<1>2. p \in Busy /\ ~At(p, "egress")
  BY <1>1 DEF Busy, BusyPc, At
<1>3. /\ ledger[task[p].job] = task[p].snap
      /\ task[p].snap.st = "completed" => capture[p].digest
  BY <1>1, <1>2 DEF ReportInv, BusyInv
<1>4. ClaimRev(p) = task[p].snap.rev - 1 /\ task[p].snap.rev \in Int
  BY <1>1, <1>2, BusyFacts DEF ClaimRev
<1>5. ledger'[task[p].job].rev > ClaimRev(p)
  BY <1>1, <1>3, <1>4
<1>6. "persisted" \in {"persisted", "failed"}
  OBVIOUS
<1> QED BY <1>1, <1>2, <1>3, <1>5, <1>6, ReportStep

\* The process ends with its counters; what it has written stays.
LEMMA ReportStop ==
    ASSUME TypeOK, FenceInv, ReportInv, Next, ObservedStop
    PROVE  ReportInv'
<1>1. /\ capture' = [p \in Tasks |-> NoCapture] /\ metrics' = NoMetrics
      /\ records' = records /\ effects' = effects
  BY DEF ObservedStop
<1>2. \A p \in Tasks : task'[p].pc = "idle"
  <2>1. CASE Crash
    BY <2>1 DEF Crash, IdleTask
  <2>2. CASE RecoverRefuses \/ MaintainRefuses \/ StartupLedgerFails \/ StartupSpoolFails
    <3>1. phase # "serving" /\ task' = task
      BY <2>2 DEF RecoverRefuses, MaintainRefuses, StartupLedgerFails, StartupSpoolFails
    <3> QED BY <3>1 DEF FenceInv, At
  <2> QED BY <2>1, <2>2 DEF ObservedStop
<1>3. Busy' = {}
  BY <1>2 DEF Busy, BusyPc
<1>4. BusyInv'
  BY <1>3 DEF BusyInv
<1>5. EstablishedIsStored' /\ EffectInv'
  BY <1>1, RecordsKept DEF ReportInv, RecordsHonest
<1>6. OneRecordPerEffect' /\ CompletedIsDigested'
  BY <1>1 DEF ReportInv, RecordsHonest, OneRecordPerEffect, CompletedIsDigested
<1>7. ObsTypes'
  <2>1. NoCapture \in [rev : Int, digest : BOOLEAN]
    BY DEF NoCapture
  <2>2. metrics' \in [effects : Nat, persisted : Nat, unknown : Nat]
    BY <1>1 DEF NoMetrics
  <2>3. capture' \in [Tasks -> [rev : Int, digest : BOOLEAN]]
    BY <1>1, <2>1
  <2> QED BY <1>1, <2>2, <2>3 DEF ReportInv, ObsTypes
<1>8. EffectsAccounted'
  <2>1. Cardinality(Busy') = 0
    BY <1>3, FS_EmptySet
  <2>2. metrics'.effects = 0 /\ metrics'.persisted = 0 /\ metrics'.unknown = 0
    BY <1>1 DEF NoMetrics
  <2>3. metrics'.effects = metrics'.persisted + metrics'.unknown + Cardinality(Busy')
    BY <2>1, <2>2
  <2> QED BY <2>3 DEF EffectsAccounted, Busy, BusyPc
<1> QED BY <1>4, <1>5, <1>6, <1>7, <1>8 DEF ReportInv, RecordsHonest

\* The first process starts with nothing reported.
LEMMA ReportStart == ObsInit => ReportInv
<1> SUFFICES ASSUME ObsInit PROVE ReportInv
  OBVIOUS
<1>1. /\ capture = [p \in Tasks |-> NoCapture] /\ metrics = NoMetrics
      /\ records = {} /\ effects = {} /\ task = [p \in Tasks |-> IdleTask]
  BY DEF ObsInit, Init
<1>2. Busy = {}
  BY <1>1 DEF Busy, BusyPc, IdleTask
<1>3. BusyInv /\ EffectInv
  BY <1>1, <1>2 DEF BusyInv, EffectInv
<1>4. EstablishedIsStored /\ OneRecordPerEffect /\ CompletedIsDigested
  BY <1>1 DEF EstablishedIsStored, OneRecordPerEffect, CompletedIsDigested
<1>5. ObsTypes
  <2>1. NoCapture \in [rev : Int, digest : BOOLEAN]
    BY DEF NoCapture
  <2>2. metrics \in [effects : Nat, persisted : Nat, unknown : Nat]
    BY <1>1 DEF NoMetrics
  <2> QED BY <1>1, <2>1, <2>2 DEF ObsTypes
<1>6. EffectsAccounted
  <2>1. Cardinality(Busy) = 0
    BY <1>2, FS_EmptySet
  <2>2. metrics.effects = 0 /\ metrics.persisted = 0 /\ metrics.unknown = 0
    BY <1>1 DEF NoMetrics
  <2>3. metrics.effects = metrics.persisted + metrics.unknown + Cardinality(Busy)
    BY <2>1, <2>2
  <2> QED BY <2>3 DEF EffectsAccounted, Busy, BusyPc
<1> QED BY <1>3, <1>4, <1>5, <1>6 DEF ReportInv, RecordsHonest

\* Every observed step keeps the inductive invariant.
LEMMA ReportNext ==
    ASSUME IsFiniteSet(Slots), TypeOK, FenceInv, ReportInv, [ObsNext]_<<vars, obsVars>>
    PROVE  ReportInv'
<1>1. CASE UNCHANGED <<vars, obsVars>>
  <2>1. /\ task' = task /\ ledger' = ledger /\ capture' = capture /\ metrics' = metrics
        /\ records' = records /\ effects' = effects
    BY <1>1 DEF vars, obsVars, ledgerVars
  <2>2. BusyInv'
    BY <2>1 DEF ReportInv, BusyInv, Busy, ClaimRev, At
  <2>3. ObsTypes' /\ EffectInv'
    BY <2>1 DEF ReportInv, ObsTypes, EffectInv
  <2>4. RecordsHonest'
    BY <2>1 DEF ReportInv, RecordsHonest, EstablishedIsStored, OneRecordPerEffect,
                CompletedIsDigested, EffectsAccounted
  <2> QED BY <2>2, <2>3, <2>4 DEF ReportInv
<1>2. CASE ObsNext
  <2>1. Next
    BY <1>2, ObservedMoves
  <2>2. CASE Unobserved
    <3>1. UNCHANGED obsVars
      BY <2>2 DEF Unobserved
    <3> QED BY <2>1, <2>2, <3>1, UnobservedQuiet, ReportQuiet
  <2>3. CASE ObservedStop
    BY <2>1, <2>3, ReportStop
  <2>4. ASSUME NEW p \in Tasks,
               \/ ObservedClaim(p) \/ ObservedRecognize(p) \/ ObservedPersist(p)
               \/ ObservedPersistFails(p) \/ ObservedCleanup(p)
        PROVE  ReportInv'
    BY <2>1, <2>4, ReportClaim, ReportRecognize, ReportPersist, ReportFails, ReportCleanup
  <2> QED BY <1>2, <2>2, <2>3, <2>4 DEF ObsNext
<1> QED BY <1>1, <1>2

\* What the gateway reports of its executions is true and complete, whatever
\* the jobs, requests and slots, and whatever crashes and lost replies: the
\* records are backed by the ledger and by one provider call each, and the
\* counters agree with the executions (effects.rs, GatewayMetrics).
THEOREM ReportsAreHonest == ASSUME IsFiniteSet(Slots) PROVE ObsSpec => []RecordsHonest
<1>1. ObsInit => ReportInv
  BY ReportStart
<1>2. TypeOK /\ FenceInv /\ ReportInv /\ [ObsNext]_<<vars, obsVars>> => ReportInv'
  BY ReportNext
<1>3. ReportInv => RecordsHonest
  BY DEF ReportInv
<1> QED BY <1>1, <1>2, <1>3, ObservedPipeline, TypeCorrect, FenceCorrect, PTL DEF ObsSpec
=============================================================================
