# A TLA+ model of the VoiceText gateway

The VoiceText gateway accepts speech for transcription in two ways: *batch*
jobs (an Ogg/Opus upload under an idempotency key, executed once against a paid
provider and polled by the client) and *live* sessions (a WebSocket that streams
Opus to a provider's streaming API and relays its transcript).  It runs as a
single replica (docs/decisions/0002-postgres-and-spool.md) over one PostgreSQL
ledger and one durable directory.

This directory holds TLA+ modules translated from the Rust source, the TLC
configurations that check them on small instances, and TLAPS proofs of the
properties that matter most.  `PROJECT.json` maps every definition to the lines
it models.

## 1. Inventory

| Component (source) | State | Operations | What is hard |
|---|---|---|---|
| Batch job (`voicetext-speech/src/domain/batch.rs`, `application/batch_models.rs`) | lifecycle state, attempt | accept, begin_submission, complete, fail, record_*, recover | the last attempt; an outcome that says nothing about money |
| Batch coordinator (`application/batch.rs`, `batch_recovery.rs`) | none of its own; locals across awaits | admit, execute, recover | every await is an interleaving point; snapshots are stale when used |
| Job ledger (`voicetext-gateway/src/storage/postgres.rs`, `records.rs`) | one row per job with a revision | insert, compare-and-swap, load, recovery page, recovery head | a statement whose reply was lost may still run |
| Audio spool (`storage/spool.rs`, `spool_maintenance.rs`) | audio files, identity claims, a byte quota | store, read, remove, reconcile | concurrent admissions share a file; crashes leave artifacts |
| Process lifecycle (`main.rs`, `server/recovery.rs`) | head, cursor, startup flag | reconcile, maintain, serve, drain backlog, shut down | paging over a ledger that changes; crash at any point |
| Gateway state (`server/state.rs`) | permit pools, task registry, two flags | acquire, register, shut down | registration racing shutdown; quiescence against a waiting worker |
| Batch HTTP (`server/batch.rs`) | permits of a request | POST, GET | client disconnects in the middle of an admission |
| Effect observation (`server/effects.rs`, `server/metrics.rs`) | captured effect, counters | observe | what may be said of an outcome whose reply was lost |
| Qualification record (`server/qualification_observation.rs`, `.../file_sink.rs`) | a tracker beside a session; a directory of record files | note, finish, publish, accept | a caller that gives up while its worker publishes; power loss |
| Live domain and coordinator (`domain/live.rs`, `application/live.rs`) | phase, sequence numbers, pending acknowledgements | ready, audio, ack, result, finalize, close | order of acknowledgements, results and terminal events |
| Live timeline (`application/live_timeline.rs`) | stable horizon | normalise, advance | overlap and lead at the boundary |
| Live transport (`server/live.rs`) | socket, provider session, permits | upgrade, stream, finalize, close | two sides that close, fail and time out in any order |
| Live adapters (`deepgram/live*.rs`, `elevenlabs/live*.rs`) | connection, pending events, a clock | open, send, finalize, next event | one message with text and marker; cancelled reads; rounding |
| Batch adapters (`*/batch.rs`, `*/dto.rs`, `deepgram/timeline.rs`) | one HTTP exchange | submit, normalise | what an error says about acceptance; rounding, merging and splitting |
| Audio validation (`voicetext-audio`) | parser position | Ogg/Opus pages, Opus packets | boundaries |
| Contracts, identity, capabilities, auth (`contracts/*`, `identity.rs`, `*_capabilities.rs`, `auth.rs`) | none | parse, serialise, compare | several copies of one check, in bytes, UTF-16 units and scalar values |
| Config, secrets, inherited descriptors, profiles, health | configuration | read once | pure |
| `xtask`, scripts, deploy, fixtures | - | build checks | not part of the running system |

Interactions: a POST handler calls the coordinator, which calls the ledger and
the spool (ports); an actionable snapshot makes the handler spawn an execution,
which owns the permits of the request; at startup the process reconciles the
ledger, then the spool, then opens the listener and starts the drain worker,
which calls the same execution; a live handler owns a domain session, a
coordinator and a provider session, and drives them from two streams.

Properties that make each component correct:

- *Batch*: a job is paid for at most once; an in-flight execution owns its row;
  interrupted submissions are fenced before the process serves; an accepted job
  keeps its audio; the audio of a finished job is reclaimed; a job found
  accepted at startup is executed.
- *Shutdown*: permits are conserved; no execution escapes the drain; an
  admitted request is refused only when the deadline has passed; shutdown ends.
- *Live*: audio is acknowledged only once the provider has it; finalize follows
  every acknowledgement; the verdict is truthful; timestamps stay within the
  audio heard; finals never overlap; the session ends.
- *Live adapters*: the synthesized clock is one the coordinator accepts; the
  finalize marker means what the domain takes it to mean; the text that came
  with it is delivered first; a chatty provider cannot hold the session.
- *Batch adapters*: an outcome never says more about acceptance than is known;
  the normalised result keeps what was said and passes every later check.
- *Boundary*: a replay is the same request; what passes the boundary passes
  every later copy of the check; the duration is backed by audio.
- *Records*: a row is read back as it was written; a qualification record says
  nothing that did not happen and survives once it was accepted.

## 2. Plan

Written, in this order, most important behaviour first:

1. Batch core: `BatchJob`, `JobLedger`, `AudioSpool`, composed by
   `BatchPipeline`; abstract specification `BatchPromise`; proofs in
   `BatchPipelineProofs`.
2. Live session: `LiveSession`, `LiveTimeline`, composed by `LiveGateway`;
   abstract specification `LivePromise`; proofs in `LiveGatewayProofs`.
3. ElevenLabs live adapter `ElevenLabsLive`, composed with the session by
   `LiveElevenLabs`; Deepgram live adapter `DeepgramLive`, composed with the
   session by `LiveDeepgram`.
4. Process shutdown `BatchShutdown`; live slots and handshake `LiveHandshake`
   over the protocol `LiveWire`.
5. Batch adapters: the exchange `ProviderExchange`, and what a body becomes,
   `DeepgramBatch` and `ElevenLabsBatch`.
6. Results and rows: `RecognitionResult`, `JobRecords`.
7. The upload: `UnicodeText`, `RequestIdentity`, `BatchUpload`, `OggOpus`.
8. Observation: `ObservationSink`, `LiveObserved` over `LiveGateway`,
   `BatchObserved` over `BatchPipeline`.

The components without an abstract specification are proved about directly:
`LiveElevenLabsProofs`, `LiveExtensionsProofs` (over `LiveObserved` and
`LiveDeepgram`), `AdmissionProofs` (over `BatchShutdown`, `ObservationSink` and
`LiveHandshake`), `BatchRequestProofs` (over `ProviderExchange`, `OggOpus` and
`BatchUpload`) and `BatchResultsProofs` (over `JobRecords` and
`ElevenLabsBatch`), with what they need about sums, sequences and texts in
`DataLemmas` (section 6).

Left without a proof: `ResultFaithful`, of whose parts Deepgram's merging
(`NothingSaidIsLost`, `ReadableIsEvidence`) would be the next to try.

## 3. Modules and the code they model

| Module | Code | State and actions |
|---|---|---|
| `BatchJob` | `domain/batch.rs`, outcome mapping of `batch_models.rs` | rows `[st, attempt, rev, req]` and one operator per transition, named as in the code |
| `JobLedger` | `storage/postgres.rs`, ports | `ledger`: one row per job.  Insert and compare-and-swap are statements; a statement whose sender stopped waiting stays in `late` and may run at any later time |
| `AudioSpool` | `storage/spool.rs` | `files`, `claims`, a quota; store (created, existing, refused, conflict, failed), remove |
| `BatchPipeline` | `application/batch.rs`, `batch_recovery.rs`, `server/batch.rs`, `server/effects.rs`, `server/recovery.rs`, `spool_maintenance.rs`, `main.rs` | one action per await of `admit`, `execute_with_cleanup_report`, `reconcile_startup`, the spool maintenance and `drain_backlog`; `Crash`, `Disconnect`, ledger and spool failures at each await |
| `BatchObserved` | `server/effects.rs`, `server/metrics.rs` | every step of `BatchPipeline` with what it counts and records: effect counters of the process, record files that outlive it |
| `BatchPromise` | - | what the service promises about one job |
| `BatchShutdown` | `server/state.rs`, permits of `server/batch.rs` and `server/recovery.rs`, `serve_until_shutdown` | the three semaphores, the registry, the flags; one action per step of a POST, of the worker and of `shutdown_batch_tasks` |
| `BatchUpload` | `server/batch.rs` (`post`, `parse_multipart` and the mapping of errors), `server/error.rs` | one action per multipart part and per check up to the admission under one key; the deadline, a disconnect, spool and ledger faults |
| `RequestIdentity` | `identity.rs`, `batch_capabilities.rs`, key terms of `records.rs` and `elevenlabs/batch_keyterms.rs` | canonical key terms, preimage of the fingerprint, each layer's bounds, as operators |
| `UnicodeText` | string lengths and white space | a seven-character alphabet in which bytes, UTF-16 units and scalars differ |
| `OggOpus` | `voicetext-audio/src/ogg_opus.rs` | one action per page of `scan_container` and per packet of `AudioTiming`; any granule position, any packet |
| `ProviderExchange` | `deepgram/batch.rs`, `elevenlabs/batch.rs` | the exchange of one submission and the retries of its job; a provider that accepts, refuses, breaks off or answers late |
| `DeepgramBatch` | `deepgram/dto.rs`, `deepgram/timeline.rs` | utterances and sentences of a body, one at a time, then `normalize` |
| `ElevenLabsBatch` | `elevenlabs/dto.rs` | one action per token of the body, then the last segment |
| `RecognitionResult` | `valid_result` (`batch_models.rs`), `result_validation.rs`, `batch_outbound.rs`, `batch_projection.rs`, `contracts/batch.rs` | the four validations of a result and the response made of it, as operators |
| `JobRecords` | `storage/records.rs`, responses of `server/batch.rs` | one row under every outcome, written and read by this version and by the one before `result_text`; deployments in between |
| `LiveSession` | `domain/live.rs` | phase, sequence numbers, pending and written frames, finalize evidence; one operator per method with its `Can...` guard |
| `LiveTimeline` | `application/live_timeline.rs` | samples, horizon, last final; checks and updates with `u64` and PCM bounds |
| `LiveGateway` | `server/live.rs`, `application/live.rs` | one action per await of `run`, `stream`, `write_audio_or_cancel`, `finalize` and the closes; `wire` and `upstream` record what client and provider have received |
| `LiveObserved` | tracker and record of `qualification_observation.rs` | every step of `LiveGateway` with what it notes, and the one record before the provider is closed |
| `LivePromise` | - | what a session promises its client |
| `LiveWire` | `contracts/live.rs`, `live_outbound.rs`, `live_capabilities.rs` | parsing and serialising of every message, as records of its fields |
| `LiveHandshake` | `upgrade` and `prepare_session` of `server/live.rs`, `auth.rs`, `live_request.rs`, `try_acquire_live_slot`, `open_inner` of both live adapters | clients on their way to a slot and to a provider, timeouts and refusals, and the messages of a stream |
| `ElevenLabsLive` | `elevenlabs/live_state.rs` | the adapter's state machine as operators |
| `LiveElevenLabs` | `elevenlabs/live.rs` | a session over the adapter: the provider actions of `LiveGateway` restricted to what the adapter delivers |
| `DeepgramLive` | `deepgram/live_dto.rs` | what a message becomes: text, marker, both, or nothing |
| `LiveDeepgram` | `deepgram/live.rs` | a session over the adapter, with the read loop that runs inside one poll of `select!`, its queue and its yield |
| `ObservationSink` | `qualification_observation/file_sink.rs` | callers, blocking workers, receipts, directory entries and inodes; one action per system call, timeouts, drops, a power loss |

The `...Proofs` modules hold the inductive invariants and the proofs about the
modules they extend, `DataLemmas` the facts about sums, sequences and texts
that several of them use.  The `MC...` modules give the instances.
`MCAdmission`, `MCBatchRequest` and `MCBatchResults` each hold several modules
that answer one question at different stations.  What is proved about is
extended, so that the runs and the theorems state the same definitions; the
rest (`DeepgramBatch`) are instances.  A variable `part`, chosen in the initial state and never
changed, says which of them a behaviour follows.  The stations share no state
(each takes any input that the one before may hand on), so following one at a
time loses no behaviour.  The one flag that the shutdown and the live slots
share in the code is a variable of each, cleared at any moment (`Signal`,
`BeginShutdown`).

Lists that the code sorts or filters (key terms, the scalars of a term) are
written with `InOrder` of `UnicodeText`, the sequence of a finite set of
positions in increasing order; lengths and totals with `SumFunction`.

Every `pc` names the await a task is about to perform, so that everything the
code does between two awaits is one step and everything else may run in between.
An operator whose name has a suffix (`Removable_AtOnce`) is a plausible mistake
in the operator before the underscore; it is not used by any specification and
serves to show that the properties notice it.

Abstractions of data: requests, audio and texts are model values, short
sequences or their lengths in the units the code measures; SHA-256 is an
injection of its preimage; in `BatchPipeline` the provider's answer to a
submission is one of the outcome classes of `BatchJob`, which `ProviderExchange`
derives from the exchange; the age of a spool file is its time of modification,
nondeterministic except that 24 hours outlive an upload and its statement on the
wire (`JustUploaded`, `MayBeExpired`): a file created for a statement that may
still run is young, while one that its upload found in place may be of any age
(`stale`); the profiles a process has recognizers for are chosen at each start
(`Configurations`); a text of Deepgram is its words and the white space beyond
what separates them; times of a provider are ticks finer than a millisecond where rounding matters.
Temporary files of the spool, JSON syntax, URLs and logging are left out.  One
provider pool stands for the two of `server/state.rs`: they are independent
semaphores of the same size, and one request uses only one of them.

Messages: a send to the client that fails or times out may still arrive, because
the socket keeps a buffered message for its next flush; a provider operation
that is cut may or may not have reached the provider; a request a batch adapter
has given up on may be accepted later; a ledger statement may run after the
process that sent it has died.

## 4. Runs

| Run | Specification | Checks | Distinct states |
|---|---|---|---|
| `batch_safety` | `BatchObserved` | `TypeOK`, `PaidAtMostOnce`, `InFlightOwnsRow`, `FenceInv`, `RecordsHonest`, `KeepsPromise`: two identical requests, two attempts, every fault, one unanswered statement | 1,002,125 |
| `batch_retention` | `BatchPipeline` | `AcceptedAudioKept` while the ledger answers: three conflicting uploads, a quota of two, files that grow old | 2,048,276 |
| `batch_recovery` | `BatchPipeline` | `InterruptedFenced`, `TerminalAudioReclaimed`: two jobs, pages of one, crashes, ledger and spool failures, an unanswered statement | 1,396,879 |
| `batch_backlog` | `BatchPipeline`, fair | `BacklogResumes`: two jobs, pages of one, crashes, processes with recognizers for both profiles, one or none | 129,624 |
| `batch_request` | `BatchUpload`, `OggOpus`, `ProviderExchange` | `ReplayMeansSame`, `AdmittedIsUsable`, `DurationIsHeard`, `AcceptanceKnown`, `RequestEnds` | 1,117,803 |
| `batch_results` | `DeepgramBatch`, `ElevenLabsBatch`, `JobRecords` | `ResultFaithful`, `SegmentsFaithful`, `RowKeepsOutcome` | 2,003,553 |
| `admission` | `BatchShutdown`, `LiveHandshake`, `ObservationSink` | `PermitsConserved`, `TasksAccountedFor`, `RefusedOnlyLate`, `QuietAborts`; `PaidHoldsSlot`, `HandshakeFaithful`; `AdmissionDrains`; `EvidenceInv`, `WorkersEnd` | 239,591 |
| `live_session` | `LiveObserved`, fair | `TypeOK`, `DomainAgrees`, `WithinHeardAudio`, `FinalsInOrder`, `KeepsLivePromise`, `RecordHonest`, `SessionEnds` | 423,004 |
| `live_deepgram` | `LiveDeepgram`, fair | `FlushIncludesText`, `HonestFinalsFit`, `DgSessionEnds` | 103,837 |
| `live_elevenlabs` | `LiveElevenLabs` | `ClockInv`, `TimelineAgrees`, `MarkerMeansFlush`, with the manual commits the adapter asks for and with a provider that also commits on its own | 2,036,218 |
| `audio_lost` | `BatchPipeline` | violates `AcceptedAudioKept` (section 7) | - |
| `refused_start` | `BatchPipeline` | violates `StartupNeverRefused` (section 7) | - |

What the composed properties say:

- `RecordsHonest` (`BatchObserved`): a record that calls persistence established
  is backed by a newer row with that outcome; every record belongs to one
  provider call and no call has two; a completed one has its digest; effects
  are persisted, of unknown persistence, or in flight, and nothing else.
- `RecordHonest` (`LiveObserved`): no frame, ACK or verdict in the record that
  the session did not reach; the verdict is the client's; every transcript the
  client received is in the digest, in order.
- `AcceptanceKnown` (`ProviderExchange`): one paid attempt at most; a job
  offered for retry has cost nothing and nothing of it is on its way; a
  completed job was paid for in its last attempt.
- `AdmittedIsUsable` (`BatchUpload`): canonical key terms are the ones the
  fingerprint asks for; a 503 means a fault, but for the one case of section 7;
  terms sent to ElevenLabs are within its limits.
- `DurationIsHeard` (`OggOpus`): the accepted duration is backed by decoded
  samples, rounded up to the fewest milliseconds, and both passes agree.
- `ResultFaithful`: results of both adapters pass the coordinator's validation
  and the projection; of Deepgram's, exactly those with a segment or a sentence
  without words are refused, and only an utterance or a sentence that came
  without words makes one (section 7).  Deepgram's merging loses no word, and its
  readable segments point at utterances as they were sent.
- `AcceptedAudioKept` (`BatchPipeline`): a job that may still be submitted has
  its file and its claim, or maintenance took the file from under the late
  insert of an upload that had found it in place, old (`swept`, section 7).
- `BacklogResumes` (`BatchPipeline`): an accepted job, with its audio, at or
  below the head of a start leaves the accepted state if the process has a
  recognizer for its profile, whatever stands before it, or the process stops.
- `SegmentsFaithful` (`ElevenLabsBatch`): the segments hold every word once and
  in order; no segment spans a pause or, with two words or more, more than the
  hard limit; rounding makes no overlap.
- `RowKeepsOutcome` (`JobRecords`): a row decodes to what was written, in either
  version; the response made of it is accepted by the client's parser; no
  outcome is refused by the table unless it holds U+0000.
- `HandshakeFaithful` (`LiveHandshake`): the gateway's and the adapter's checks
  agree; the provider is asked for what the client wanted and within its limits;
  every message is parsed back to what was meant; a transcript the adapter lets
  through can be sent.
- `EvidenceInv` (`ObservationSink`): a record told Ok is whole, synced and
  survives a power loss; a call that was not told Ok leaves no file when its
  worker has ended, unless a removal failed; the limit holds.
- `AdmissionDrains`: a shutdown of the batch tasks ends once it is signalled;
  every live slot comes back; after the signal slots and provider sessions drain
  and none is taken again.
- `MarkerMeansFlush` (`LiveElevenLabs`): the marker reaches the session only
  while it finalizes, and with manual commits only when the explicit commit was
  answered.

Bounds and why they are enough:

- *Jobs*: rows never refer to each other, so one job shows every safety property
  of a row; the page loops need two pages and a page that ends at the head (two
  jobs and pages of one).
- *Slots and requests*: the races of `admit` and `execute` are between two
  holders of a snapshot; two slots and the drain worker are three.  Three
  requests let a third upload meet the quota.
- *Attempts*: two, so that a retry happens and the last attempt is reached;
  three in the exchange, so that two requests may be on their way behind it.
- *Late statements* (`MaxLate`): one outlives its sender; two could only both
  apply if one left the other's revision in place, which the compare-and-swap
  excludes.  The proofs hold for any number.  None in `batch_backlog`, where
  liveness is costly: the worker reads the ledger afresh at each start, whoever
  wrote it, and the other three runs have one.
- *Configurations*: in `batch_backlog` each start serves the profiles of both
  requests, of one, or of none; elsewhere every process serves every profile, as
  no safety property depends on it (the proofs hold for any `Configurations`).
- *Symmetry*: `batch_retention` checks an invariant only and identifies states
  that differ by a permutation of the slots; slots are compared with nothing and
  `AcceptedAudioKept` does not mention them.
- *Frames*: two, of one or two sample frames, odd and oversized lengths
  included; at half a millisecond a sample the horizon is rounded, and the width
  (`MaxU64`) is one that the last sample does not fit.  The proofs hold for any number of frames.
- *Provider events* (`MaxEvents`): two in `live_session`, whose record keeps
  every event; `live_deepgram` has no such bound, so `DgSessionEnds` is about a
  provider that never stops.
- *Provider times* and *texts*: values on both sides of the horizon, the lead,
  the authoritative end and each limit, on a grid of half milliseconds; texts
  that differ and yet normalise to the same string.
- *Pages and packets*: six pages, so that two pages of audio follow the headers
  and one is continued; granule positions on both sides of every total.
- *Bodies*: two utterances and two sentences, or three utterances that merge
  twice, with empty and white texts among them; four tokens, so that a segment is split and goes on.
- *Admission*: capacity two and three requests, so that a permit is contended
  while the worker and the shutdown wait; two clients with two kinds of frame
  and one slot (`part` = "slots"); a third client with every kind of first frame
  and text for the data, because configurations do not interact (`part` = "data").
- *Sink*: two calls and a limit of one; calls meet only at the counter.

Deadlock is checked in every run.  `Done`, `Over` and `Stopped` are the states
in which a session, an exchange or a process has ended.

## 5. Fairness

- `BatchPipeline`: weak fairness of each task, of the startup sequence and of
  the drain loop.  The runtime polls every spawned task, and each await has a
  deadline of its own (statement, provider, file).  Nothing makes clients post
  or a supervisor restart the process; crashes may go on for ever, which is why
  `BacklogResumes` allows the process to stop again.
- `LiveGateway`, `LiveObserved`, `LiveDeepgram`: weak fairness of the awaits
  with a timeout of their own.  Strong fairness of the three absolute deadlines
  (session, provider write, finalize drain): once such a deadline has passed its
  branch of `tokio::select!` stays ready and the branches are polled in random
  order, so it cannot lose for ever; weak fairness would not do, because the
  loop leaves the `select!` to handle each message in between.  The idle
  deadline, which every message pushes out, gets no fairness.  In `LiveDeepgram`
  the deadlines are only polled when the adapter's read loop returns or yields;
  nothing makes the provider's socket run dry.
- `BatchShutdown`: weak fairness of the deadline, of the shutdown future, of
  aborted tasks and of dropped permits.  Nothing is assumed of requests and
  executions: a provider call may hang.
- `LiveHandshake`: weak fairness of the gateway's own steps and timers for each
  client; a stream ends by its own deadlines (`SessionEnds`).
- `BatchUpload`: the upload's deadline and the handler's own steps, nothing of
  the client.  `ProviderExchange`: a started submission is carried on and the
  HTTP client's total timeout ends every wait, nothing of the provider.
- `ObservationSink`: system calls end, the pool runs its tasks, and the caller's
  timer drops a call that was not answered.

## 6. Proofs

All proofs are checked by TLAPS and hold for every value of the constants that
satisfies the `ASSUME`s of the modules: disjoint model values, positive bounds
and rates, `Faults` any subset of the five kinds, at least one
set of profiles a process may serve (`ConfigurationAssumption`), a coordinator lead of at least
one millisecond (`LeadAssumption`; 250 in the code), events that are no
transcripts (`EventAssumption`), texts that are sequences of tokens
(`TextAssumption`, `TextsAssumption`), limits that are natural numbers
(`WireAssumption`, `SlotsAssumption`, `AudioAssumption`, `ResultAssumption`,
`RecordsAssumption`, `BoundsAssumption`, `TokensAssumption`), key terms that are texts of scalar
values and files that are sequences of bytes (`UploadAssumption`), a finite set
of calls (`SinkAssumption`), limits of one
station within those of the next (`LimitsAssumption`: 2 MiB of response in
32 MiB of record, half a minute of an adapter's delay in an hour) and results
with the fields the adapters make (`RecognizedAssumption`).  TLC evaluates the
same assumptions in its runs.  Two theorems state what they need themselves:
finite sets of slots (`ReportsAreHonest`) and a ledger that answers
(`AudioIsKept`).

TLC checked the strengthenings before they were proved, on the instances of
section 4: `StartupInv` on that of `batch_recovery`, `AudioInv` on that of
`batch_retention`, `BusyInv` and `EffectInv` on that of `batch_safety`;
`HandshakeInv`, `AudioInv` of the upload's audio, `UploadInv`, `RecordsInv` and
`TokensInv` on those of `admission`, `batch_request` and `batch_results`; `FenceInv` and `ClockInv` are
properties of their runs.

`BatchPipelineProofs`:

- `TypeCorrect`: `TypeOK`, which includes that a task carries what its next
  step needs.
- `FenceCorrect`: `FenceInv`, the inductive invariant.  `PaidAtMostOnce` is not
  inductive: a task about to submit holds a snapshot, and nothing in the
  property says that the snapshot is current.  `FenceInv` adds the missing
  facts: a snapshot, a page entry or an unanswered statement is outdated by its
  revision or still describes its row (`Known`, `Lawful`); a row that may be
  submitted again has cost nothing (`RowTruth`); a task between claim and
  persist owns its row and knows what the provider has accepted.  The argument
  splits the steps in two: those that leave ledger and payments alone
  (`QuietStep`), and those that apply one lawful statement (`WriteStep`), which
  raises the revision and so outdates everything else.
- `PaidOnce`, `InFlightOwnership`: consequences.
- `PipelineKeepsPromise`: the refinement.  Each step writes at most one row by a
  lawful statement (`StepShape`, `LawfulStep`), which is a step of
  `BatchPromise`; only `Recognize` pays (`RecognizeStep`).

- `InterruptedAreFenced`, `TerminalAudioIsReclaimed`: from `StartupInv`, which
  says of the walk over the pages what the properties leave out: an interrupted
  submission that has not moved is still ahead of the walk, on a page not read
  yet or on the current one as it stands (`WalkInv`; `FirstNFacts` and
  `PageKeeps` show that a full page leaves out only ids beyond its cursor);
  audio is removed behind a swapped row only (`RemoveInv`); a verdict on the
  wire during startup can only be about an interrupted submission (`OrphanInv`),
  so nothing becomes terminal behind the sweep of the directory (`SweepInv`).
- `AudioIsKept`, for `"ledger" \notin Faults`: from `AudioInv`.  The row of a
  job, the insert a request is about to send and the insert a dead process may
  have left on the wire each have their audio, unless that insert's upload found
  the file old and maintenance took it (`KeptOrSwept`): the exception the
  property names.  A request discards only audio that a row, already there, does
  not name.  Without the assumption a request
  whose insert failed discards on the strength of a load that is stale when the
  removal runs: the `audio_lost` run.
- `ReportsAreHonest`: from `ReportInv` over `FenceInv`.  Until an execution
  reports, its claim has an effect and no record, its capture is of that claim,
  and an execution that cleans up is alone with its finished row (`BusyInv`); no
  effect is of a claim the ledger has not seen (`EffectInv`), so a new claim has
  a key nothing else has.  `ObservedPipeline` shows that an observed behaviour is
  one of `BatchPipeline`, which brings in the invariants proved there.

`LiveGatewayProofs`: the inductive invariant is `LiveInv`, of five parts:
`TypeOK`; `PhaseInv` (what the domain session is at every await, including the
nested sends that return to a loop); `FrameInv` (how far frames, writes and
acknowledgements are apart); `ToldInv` (what the two sides have been told);
`TimeInv` (the horizon is within the audio written; a transcript being sent is
within the lead).  There is one lemma per action.  `LiveTypeCorrect`,
`LiveDomainAgrees` and `LiveWithinHeardAudio` follow from `LiveInv`;
`LiveFinalsInOrder` and `LiveKeepsPromise` also from `StepKinds`, which says
which steps can touch what client and provider see.  The division in the horizon
is confined to `DivFacts`, `MulMono` and `HorizonFacts`.

`LiveElevenLabsProofs`: `ElInv` adds to `LiveInv` that adapter and coordinator
count the same audio, up to saturation (`AudioInv`), `ClockInv`, and that a
marker exists only after the session began to finalize (`MarkerInv`).  Adapter
and coordinator round in different units, bytes and sample frames; the lemmas
on the two divisions show that the adapter's result is never the larger.
`AdapterClock`, `AdapterTranscriptsFit` and `MarkersMeanFlush` follow.

`LiveExtensionsProofs`: `RecordInv` (the tracker follows the session step by
step while it flows and lags behind once it has failed; each digested transcript
has been sent, but for one on its way) gives `SessionRecordHonest`; `DgInv` (the
marker waits in the queue behind the text it came with; the end of the
provider's last final, in ticks, against the horizon in milliseconds) gives
`FlushBehindText` and `HonestFinalsAccepted`.  `ToldIsDigested` is stated with
the set of digested transcripts: the n-th one told is the n-th digested.

`AdmissionProofs`, about the three modules that `MCAdmission` extends:

- `ShutdownInv`.  Conservation needs to know that the sets it counts are finite
  and who waits (`QueueInv`); `RefusedOnlyLate` needs that every permit
  gathered, or the deadline passed, comes before registration closes
  (`StageInv`, `LateInv`): then no handler is between its permit and its spawn.
  `QuietAborts` is an action property of the same invariant.
- `RecordsAreEvidence`, from `SinkInv`.  Caller, receipt and worker of a call
  agree on its outcome at each of the worker's system calls (`VerdictInv`,
  `WorkInv`); the counter is the number of calls that hold a place (`CounterInv`).
- `PaidSessionsHoldSlots`, from `SlotInv`: a client has a permit exactly at the
  places that hold one.
- `HandshakeIsFaithful`, from `HandshakeInv`, which says where each admitted
  configuration, each request to a provider and each message on the wire came
  from.  `AdmittedIsAccepted` and `MessagesAreUnderstood` compare one copy of a
  check with another.  The rest is about texts of any length: a key term in the
  one canonical form is left alone by the other (`NormalizedOnce`: no white
  space at the ends, one between words), its scalars are sent in their order
  (`ScalarsAreSent`), each distinct term is sent once and no other
  (`EachTermOnce`), a text within the bound in bytes is within the one in units
  (`BytesAreMost`), and the terms asked for are within the provider's limits
  (`TermsForAdmitted`).

`BatchRequestProofs`, about the three stations of a batch request:

- `AcceptanceIsKnown`, from `ExchangeInv`.  Only the last attempt can have left
  the gateway (`LastInv`), and a response tells what the provider did
  (`KnownInv`).
- `DurationIsOfTheAudio`, for files of any number of pages and packets, from
  `AudioInv`.  The two passes over a file never look at each other before the
  end.  The invariant ties them together on the way: the first is ahead by one
  page (`PageScanned`), the second is at the position where the page before
  ended plus the samples since (`Position`), and it has seen the end of the
  stream exactly when the page that carries it has been read (`EndSeen`).
  `MillisCeiling` is the rounding.
- `ReplaysMeanTheSame` and `AdmittedRequestsAreUsable`, from `UploadInv`.  The
  two properties look at the answer alone; `UploadInv` says of the steps before
  it that a form past a check has passed it (`FormInv`), that no earlier upload's
  answer is left (`ReplyInv`), and that the row under the key is the canonical
  form, and has the fingerprint, of the request it was made from (`JobInv`).
  What the steps rest on are facts about texts and lists of any length:
  - a strict total order of a finite set of texts arranges it in exactly one way
    (`Ranking`, `SortedUtf16`, `SortedStr`; the order by UTF-16 units is total
    because they can be read back in one way only), so that two lists have the
    same canonical form exactly when they have the same trimmed terms
    (`CanonicalMeans`), and that the canonical form passes the strict check
    (`CanonicalIsAccepted`);
  - parts with a length in front can be told apart when written one after the
    other (`FramedIsPrefixFree`, `PartsTell`), so under one contract equal
    fingerprints come from the same key terms and audio (`FingerprintTells`); the
    contract is compared for itself.  SHA-256 is taken as an injection;
    nothing else about it is used;
  - a term the boundary admits is one the record stores, and what is sent to
    ElevenLabs is within its scalars and words (`CanonicalIsStorable`,
    `SentIsWithin`).  The record's total is the one bound that the boundary does
    not imply; `AdmittedIsUsable` says so (section 7).

`BatchResultsProofs`, about two of the stations of a result:

- `OutcomesAreKept`, from `RecordsInv`.  A result passes three copies of the
  checks, in the adapter of the ledger, in the table and in the contract of the
  response.  `Good` is what the application may ask the ledger to keep: such a
  snapshot is encoded (`GoodRecord`), taken by the table (`GoodIsWritable`),
  decoded as it was by either version (`GoodIsRestored`) and served
  (`GoodIsServed`).  The row is always the encoding of a good snapshot by one of
  the versions (`RowInv`), and an execution holds what it has written
  (`HeldInv`), so a deployment in between changes nothing.  The totals that the
  checks compare are sums over lists of any length (`SumBounds`, `SumMonotone`).
- `SegmentsAreFaithful`, for bodies of any number of tokens, any times, any
  resolution and any limits, from `TokensInv`.  The property is about a finished
  body; the invariant says at every token that the segment under construction
  and the finished ones hold, between them, every word accepted so far
  (`Gathered`), that the former starts no earlier than the latter end, and that
  it starts no later than any of its words and ends with the last.  A word is compared with the limits
  before it is taken, so a segment that grows was short with it (`GoesOn`);
  `push_segment` rounds, and rounding is monotone (`Millis`), so segments in
  order stay in order (`NoOverlap`): the overlap check of `push_segment` rejects
  nothing.

`DataLemmas` has what replaces an induction over data.  The library's induction
theorems cannot be instantiated, but `SetInduction` can be proved from `WFMin`,
with a set for the property; `PartialObeys` shows from it that the library's
fold over a finite set obeys its recursion, and the bounds of a sum follow.  In
the same way members of a prefix-free set, written one after the other, are read
back in one way only.  The facts about texts (trimming, white space collapsed,
units and bytes) are shared by the upload and the handshake.

Only model-checked:

- every liveness property (`BacklogResumes`, `SessionEnds`, `DgSessionEnds`,
  `AdmissionDrains`, `RequestEnds`, `WorkersEnd`): fairness and `ENABLED` are out
  of the prover's reach;
- `ResultFaithful`, the one safety property without a theorem.  It is about what
  nested merging makes of a whole body, and it is not true of every limit: the
  run's bodies stay within the application's budget of text, and a larger one is
  refused (section 7);
- the two violations of section 7.

## 7. What the checks found

Two runs state a promise of the repository that the code does not keep:

- `audio_lost`: two identical requests; the first stores the audio, its insert
  fails and its verification load finds no row; then the second, which found the
  file already stored, inserts the row, and the first removes the file
  (`application/batch.rs:97`).  The job is accepted without audio, against
  "an accepted pre-egress job can resume after restart"
  (`docs/decisions/0002-postgres-and-spool.md:8`).
- `refused_start`: a crash between the store of a conflicting upload and its
  removal leaves a file whose digest differs from the row of its job, and
  maintenance (`spool_maintenance.rs:78`) refuses every later start, against
  its own "Crash-safe bounded maintenance".

Met while modelling, and allowed for by the properties where they bite:

- Deepgram's start and duration are rounded to milliseconds separately
  (`deepgram/live_dto.rs:99`): two contiguous finals can overlap by a
  millisecond, and the timing policy then ends the session.  `HonestFinalsFit`
  shows that this is the only way an honest final is refused, and that one
  millisecond is the most.
- A result with U+0000 passes every check and is refused by the `jsonb` column
  (`records.rs:464`): the paid result is lost.  `RowKeepsOutcome` shows that
  nothing else is.
- The ElevenLabs adapter bounds the text of a body at 4 MiB
  (`elevenlabs/dto.rs:196`), the Deepgram adapter only the body; the application
  bounds the transcript and its segments, which repeat it, at 4 MiB together
  (`batch_models.rs:161`).  A body with more than half of that in text is parsed,
  refused as an invalid result, and paid for.
- The boundary admits key terms one by one, the ledger's record bounds their
  total (`records.rs:303`, after the audio was spooled): such a request is
  answered 503 each time it is sent, although `docs/operations/self-hosting.md:55`
  names only the number of terms.  `AdmittedIsUsable` allows this case alone.
- Key terms are ordered by UTF-16 units (`identity.rs:181`); the comment at
  `identity.rs:116` says Rust string order, which differs for supplementary
  characters.
- The age of a spool file is its time of modification, and an upload that finds
  the file in place does not renew it (`spool.rs:277`).  A store that failed
  after the link leaves an orphan; a day later the same request finds it, its
  insert is on the wire when the process dies, the next start's maintenance
  removes the file as expired (`spool_maintenance.rs:84`, `112`), and the insert
  then runs: an accepted job without audio, with a ledger that answers.
  `AcceptedAudioKept` and `AudioIsKept` show that this is the only way.
- The drain worker passes over a job whose profile is unknown or has no
  recognizer in this process (`server/recovery.rs:166`): it stays accepted until
  a process that serves it starts.  Without any recognizer for batches a start
  with a backlog is refused (`NO_BATCH_PROFILE_CONFIGURED`, `recovery.rs:85`).
- Deepgram's adapter accepts an utterance without text (`deepgram/dto.rs:111`)
  and a sentence of white space (`dto.rs:169`).  The application refuses an empty
  segment (`batch_models.rs:176`), the projection any segment or sentence of
  white space (`contracts/batch_outbound.rs:398`, `422`), and with it the whole
  paid result.
  `ResultFaithful` shows that nothing else is refused within the bounds of the
  run, and `NothingSaidIsLost` is about utterances that have words.
- A sentence of Deepgram's optional projection that is shorter than a
  millisecond, or starts at the end, makes the whole result malformed
  (`timeline.rs:31`), although the projection is optional (`timeline.rs:41`).
- A transcript of white space only from ElevenLabs passes parsing and fails the
  v3 projection.
- A qualification record digests a provider event before the coordinator
  validates it, so the digest may hold one that was rejected.
- The spool gauge is raised by the handler, which is dropped with its connection
  (`server/batch.rs:119`), and lowered by the execution, which is not; an aborted
  execution leaves the in-flight gauge high.
- A ping during the finalize drain, or as the first message, ends the session;
  the streaming loop answers it.
- A job whose client disconnected between insert and spawn has no executor until
  the next POST of it or the next restart, while GET keeps answering "poll".
- A tuple of permits is dropped global permit first, so a request can be
  rejected for the batch permit that is about to come free; a backlog worker
  that queued behind the shutdown's request for all permits makes the shutdown
  wait until its deadline.
- The branch of `restore_result` in which the two result columns differ is
  unreachable in `JobRecords`: a result is written once, to both.

## 8. Not modelled

- `discord_opus.rs` and the decoding of live Opus frames hand packets to
  libopus; the session sees a decoded length or an error.
- Configuration, secrets and inherited descriptors are read once at startup;
  health answers and the rendering of metrics are stateless.  The two gauges of
  section 7 are not state of the model.
- `UsageUpdate` and `Resumed` of the live protocol, which the gateway never
  sends; JSON syntax; the building of URLs and multipart requests.
- HTTP and WebSocket libraries, the ogg crate, PostgreSQL and the providers
  themselves are external: they are modelled by what the gateway observes of
  them.  Tokio's cooperative budget, which could make an await on a free lock
  yield, is not modelled.
- `xtask`, scripts and deployment are not part of the running system.
