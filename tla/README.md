# A TLA+ verification of SentinelAML

SentinelAML (`src/sentinel-aml`) clears anti-money-laundering alerts: language-model agents
investigate an alert and recommend an action, code decides whether a human has to approve it,
and an executor carries it out. What must not go wrong is spread over several processes and
transactions: nobody may be reported or restricted without a money-laundering reporting officer
(MLRO), no alert may be closed, lost or decided twice because two requests met a worker in an
unlucky order, and every step must leave its audit record. This directory models that core in
TLA+, with the loading and scanning that raise the alerts, the knowledge base the agents cite,
the models that score them and the server around it all, checks it with TLC on small instances and
proves its properties with TLAPS.

## 1. Inventory of the system

| Component | Code (`backend/app/`) | State it keeps | Operations |
|---|---|---|---|
| Case workflow | `agents/orchestrator.py`, `worker.py`, `services/approvals.py`, `services/actions.py`, routes `alerts.py`, `recommendations.py` | alerts (with `lock_version`), workflow runs, recommendations, approvals, STR reports, restricted accounts, monitoring level | start (async, sync), claim, execute, fail closed, decide, execute action |
| Approval policy | `services/policy_engine.py`, `security/rbac.py` | none (tables of limits and roles) | `evaluate`, `APPROVAL_AUTHORITY` |
| Audit chain | `services/audit.py` | `audit_log`, per-tenant advisory lock | `record`, `verify_chain` |
| Database sessions | `database/session.py`, `database/models.py` | units of work, row locks, unique keys, version columns, the connection pool | check out, flush, commit, rollback, return |
| LLM gateway | `ai/gateway.py`, `ai/providers.py` | circuit breaker per model, one `LLMCall` row per call | `structured` (retries, schema repair, breaker) |
| Agents, tools, verifier | `agents/agents.py`, `tools.py`, `verifier.py`, `ai/simulators.py` | case scope: evidence seen, flags, steps | triage, investigate, map policy, decide, verify |
| Knowledge base | `rag/indexer.py`, `rag/documents.py`, `rag/retriever.py` | documents and chunks with status and clearance | chunk, index, approve, search |
| Models | `ml/registry.py`, `ml/scoring.py`, `ml/train.py` | model versions, artifacts, cached production model | register, promote, load, score |
| Ingestion and scan | `data/ingestion.py`, `features.py`, `rules.py`, `alerting.py` | batches, transactions, rejects, alerts | ingest, quarantine, scan |
| Access | `security/*`, `api/middleware.py`, `api/routes/auth.py` | failed logins, rate windows | log in, limit |
| The rest | `core/`, `observability/`, `frontend/`, `evaluation/`, `infrastructure/` | none of the domain's | configuration, metrics, dashboard |

How they interact. API requests run in threads, each with one SQLAlchemy session; workers are
processes that poll for queued runs. They share nothing but PostgreSQL: committed rows, row
locks (`FOR UPDATE`, `SKIP LOCKED`, the implicit lock of an UPDATE), the optimistic version of
alerts and unique constraints. `audit.record` is the exception: it appends on a connection of its
own and commits at once, so the audit trail is ahead of the business transaction and survives its
rollback. That second connection comes from the same pool as the first, which is one of the ways in
which requests of one server wait for each other; the event loop, which starts requests, closes their
sessions and runs uploads itself, is another. The orchestrator calls the agents, these the gateway
and the tools, then the verifier, the policy engine and, when no approval is needed, the executor;
otherwise a later request, `approvals.decide`, calls the executor. Scoring needs the model that the
registry has in production, and the decision its threshold.

What is hard here:

- *Interleaving.* Starts, executions (minutes long), scoring and decisions of the same alert
  overlap; each reads early and writes late.
- *Partial failure and crashes.* A flush can fail, a worker can die between the audit append and
  the commit, an exception handler can itself fail.
- *Protocol sequences.* An alert can be investigated again, so that recommendations of different
  runs meet on one alert.
- *Liveness.* An alert that is INVESTIGATING or PENDING_APPROVAL is moved on only by its run or
  by a decision; if that is gone, so is the alert.
- *Memory beside the database.* Circuit breakers, rate windows and the loaded model live in each
  process; files of models are written outside any transaction.
- *Boundaries.* The automatic closing of an alert depends on scores compared with limits, features on
  windows cut out of sorted columns, citations on chunks cut out of documents.

What makes each component correct, in short: the case workflow authorises, explains and audits
every outcome, executes each run once and loses no update; the policy stays within the tenants'
procedures; the audit chain never forks; the gateway ends every call and opens its breaker; the
verifier lets no invented evidence pass; the knowledge base serves only approved text to cleared
readers; the services serve the artifact that the registry describes; ingestion conserves rows; a
scan raises no duplicate; the limits limit; no request waits for ever.

`PROJECT.json` lists every component with its status, and every hazard at its line.

## 2. Modules

| Module | Models | Correspondence |
|---|---|---|
| `CaseWorkflow` | the life of an alert | see below |
| `CaseSafety` | the workflow's properties | |
| `CaseInvariant` | the two inductive invariants behind the proofs | |
| `MCCaseWorkflow` | users, cases and symmetry for TLC | |
| `PolicyEngine` | `policy_engine.evaluate`, the role matrix | pure operators; scores in per mille, `-1` for a missing score |
| `PolicySafety` | properties of the policy | a case is a state; adverse facts arrive as steps |
| `AuditLog` | what the audit trail promises | one append-only sequence per tenant |
| `AuditChain` | `audit.py` on PostgreSQL | one action per statement of `record` |
| `ConnectionPool` | `database/session.py` and what requests wait for | one action per acquisition, and the end of a request |
| `LlmGateway` | `ai/gateway.py`: retries, repair, circuit breaker | one action per answer of the provider; time in ticks since each circuit opened |
| `Execution` | what `Orchestrator.execute` promises | one step, to a human or to a ruling |
| `AgentPipeline` | `execute` with `agents.py`, `tools.py`, `verifier.py` | one action per agent step; the models' answers are arbitrary |
| `ReferenceAgents` | `ai/simulators.py` in that pipeline, with the verifier's arithmetic | each action of `AgentPipeline` with the answer the simulator computes |
| `KnowledgeBase` | `rag/indexer.py`, `api/routes/knowledge.py`, the queries of `rag/retriever.py` | one action per statement between which another session can commit |
| `Chunking` | `rag/documents.py`, `chunk_document` | one step per iteration of each loop; a word is a line and a place |
| `Rules` | `data/rules.py`, the features of `data/features.py` they read, as definitions over sets | pure operators; days and cents |
| `FeatureVectors` | `compute_features` by slices of sorted columns, the rules on the vector | the vector as an operator of the transactions loaded so far |
| `Ingestion` | `data/ingestion.py`, `data/validation.py`, `api/routes/ingestion.py` | one action per phase of a load, one `Insert` per row |
| `AlertScan` | `data/alerting.py` | one action per query, date and flush; composes `Ingestion` and `Rules` |
| `ModelRegistry` | `ml/registry.py`, the end of `ml/train.py`, `ml/scoring.py`, stages of `pipeline.py` | one action per file operation, statement and commit |
| `Access` | `security/rate_limit.py`, the login of `api/routes/auth.py` | `allow` is one step, the handler three |
| `MCAgentPipeline`, `MCKnowledgeBase`, `MCAlertScan` | small inputs for TLC; the first adds the gateway to the agents | |
| `MCRecords` | `AuditChain` and `ConnectionPool` | composites: the components share no variable, |
| `MCServing` | `KnowledgeBase`, `ModelRegistry` and `Access` | and `part` says which of them moves |
| `MCComputations` | `PolicySafety`, `Chunking`, `FeatureVectors`, `ReferenceAgents` | while the others rest |
| `Nullable` | `None` | SQL NULL, Python `None` |
| `CaseProofs`, `AuditProofs`, `PipelineProofs`, `KnowledgeProofs`, `MonitoringProofs`, `ServerProofs`, `ChunkingProofs`, `ComputationProofs` | theorems | `PipelineProofs` has the policy, the gateway and the agents, `ServerProofs` `ConnectionPool`, `ModelRegistry` and `Access`, `ComputationProofs` `FeatureVectors` and `ReferenceAgents` |

**CaseWorkflow.** The variables `alerts`, `runs`, `recs`, `approvals`, `strs`, `restricted` and
`monitored` are the committed rows; `sess[s]` is the SQLAlchemy session of request or worker `s`:
what it has read (`seen`, the alert with its version) and what it will write (`row`, `target`,
`rec`, `approval`). `Commit` installs these, `Abort` forgets them, at any point: it stands for
client disconnects, database errors, killed processes and `process_one`'s `except`. `trail` is the
audit log, written when `record` is called. A recommendation and its approval are unique per run,
so all three are indexed by the run.

| Action | Code |
|---|---|
| `ScoreAlert` | `pipeline.score_all_alerts` |
| `StartRead`, `StartFlush` | `Orchestrator.create_run`: checks; then flush of alert and run, unique key, `investigation_started` |
| `ClaimOldest` | `worker.process_one`: oldest QUEUED run, `FOR UPDATE SKIP LOCKED`; `execute` loads the alert |
| `Finish` = `Escalate`, `Recommend`, `RecommendUnaudited`, `ApplyUnaudited` | the end of `Orchestrator.execute`: `_fail_closed`; policy, recommendation, outcome, automatic execution; or either of the two audit appends fails and `_fail_closed` follows |
| `Decide`, `DecideFlush` | `approvals.decide` and `actions.execute` |
| `Commit`, `Abort` | the end of the transaction |

Details a reader of the code may look for. The alert's UPDATE, its version check and its row lock
exist only when the status changes (`WritesAlert`): SQLAlchemy emits nothing otherwise. In the
synchronous mode the run is created and executed in one transaction (`OwnsNewRun`), so the alert is
updated, and locked, from the start. `run.status = RUNNING` is never committed by itself and hence
not in `runs`. `execute` does not look at the alert's status: neither does `Claim`.

**AuditChain.** `Open`, `Lock`, `ReadLast`, `Insert`, `CommitRow` are the statements of one call;
`Fail` is the loss of its connection. The id comes from a sequence and is lost with a rollback.
SHA-256 is taken to be injective: a hash *is* the sequence of entries that went into it, which makes
the refinement mapping to `AuditLog` the last hash of each tenant.

**ConnectionPool.** `req[r]` is a request of one server process, with the connections it has checked
out: the session's (`TakeFirst`, at its first statement) and `record`'s own (`TakeSecond`). It may lock
a row (`LockRow`), and `record` takes the chain's lock on the second connection (`LockChain`). `Return`
is the end of a handler; the session is closed by the event loop (`Close`), which an upload, an
`async def`, keeps while it runs (`loop`): it holds everything until then. `PoolTimeout` is
SQLAlchemy's `pool_timeout`, after which the request fails, `FailRequest` everything else. A request
locks at most one row; locks held by other processes are left out.

**AgentPipeline.** Each model's answer is any value its schema allows, reduced to what code looks at:
the ids and chunks it cites, whether its numbers hold, its action. `CallTool` is `ToolExecutor.run`;
`Discloses` stands for the five tools' queries and `Suspicious` for what `prompt_guard.scan` matches.
`FailClosed` is every `AppError` after triage and every other exception. The pipeline implements
`Execution`, and the outcomes of `Execution` are the parameters of the case workflow's `Recommend` and
`Escalate`: this is how the modules compose, without multiplying their states.

**ReferenceAgents.** `dossier`, `triage` and `notes` hold what `AgentPipeline` abstracts: the features of the
alert, the hypotheses, and the findings with their claims. `Sim...` are the functions of `simulators.py`;
`ClaimOk` and `Summary` are the verifier's recomputation of every number, so that `numbers` of a finding
is computed and not chosen.

**LlmGateway.** `structured` is one call at a time, as in a worker; `call` is its local state, `failures`
and `age` are the breaker's dictionaries. `streak` and `late` are history variables.

**KnowledgeBase.** `docs` is the committed row of each `doc_id` with its chunks, `sess` the session of
each API thread and of the pipeline job. `Upload`/`TakeFile` are the checks of `index_document`, `Replace`
its DELETE and INSERT, `CommitIndex` the end; `Approve`, `ReadChunks`, `Activate`, `CommitApproval` are the
statements of `approve_document`, which update by primary key whatever row is there; `ReadCorpus`, `Rank`
are the two queries of a search. `rev` tells apart the rows inserted under one `doc_id`; `mixed` is a
history variable: the documents last approved on another row than the one the approver read. The audit
event before the commit belongs to `AuditChain`.

**Chunking.** `ReadLine` and `EndReading` gather lines into sections, `NextParagraph`, `Pack`, `EndSection`
and `EndPacking` are the loops over paragraphs, windows and sections. A chunk carries how often a short
rest was appended to it (`rests`), which is a history of its own.

**FeatureVectors.** `Arrays` puts what is loaded in order, one transaction after the other (`Inserted`); `Left` and `Right` are `np.searchsorted` on either side,
`Begin` and `End` the edges of each window. `Load` adds a transaction, early or late, so that every position
shifts; the vector is computed anew in every state, as it is for every date of a scan.

**Ingestion, AlertScan.** `load[p]` is the database transaction of an upload or of the job, `scan[s]` that of
a scan. `Insert` is one row of `INSERT ... ON CONFLICT (id) DO NOTHING`: it waits while another transaction
has inserted the id and not committed; the deadlock that two loads can get into this way ends by
`RollbackLoad`, as PostgreSQL ends it. `StartDirectory` is the part of `ingest_directory` before the
transactions. A scan reads the transactions (`StartScan`) and the existing keys (`ReadExisting`), goes
through the dates (`ScanDate`) and inserts its alerts (`Flush`, which fails on a key taken meanwhile).
`fired` is a history variable. An alert raised here is what `CaseWorkflow` begins with.

**ModelRegistry.** `files` is the directory of artifacts, written by `Dump` outside any transaction under
the second the training ended in; `HashFile` reads it back. `Register`, `StartPromotion`, `Archive` and
`CommitPromotion` are `register` and `promote` in the trainer's transaction, which sees what was committed when
its UPDATE began (`seen`) and waits for rows another one has locked; `TrainerDies` ends it anywhere. `cache[p]` is
`ModelService._loaded` of a process: `Look`, `Load` and `Refuse` are `_ensure` with the hash check between
the lookup and the swap. `StartScoring`, `Score`, `CommitScores`, `ScoringFails` are `score_all_alerts`, whose
commit fails when an alert's `lock_version` has moved (`Touch`). `rewritten` and `overlaps` are history
variables: versions whose file was written twice, and pairs of promotions that overlapped. Training is
deterministic, so an artifact, its hash and its metrics are those of the data it was fitted on.

**Access.** `hits` are the limiter's deques, one dictionary per server process, trimmed only when the
client comes back (`Kept`, `Admit`, `Limit`). A login compares the password on the row it read
(`Compare`), records its audit event (`Record`), and commits the counter it computed from what it had read
(`CommitLogin`); `LoginFails` ends it anywhere. `admitted`, `outcomes` and `overlapped` are histories: when requests
were let through, what was committed, and for whom two logins were handled at a time.

## 3. Runs

| Run | Question | Instance |
|---|---|---|
| `CaseCore` | Do the tables stay consistent and audited, is nothing severe done without an MLRO, and is no alert orphaned? | 1 alert, 2 users, a request and a worker, 2 runs, both modes, flagged and clean case; 2.6 million states |
| `CaseConcurrency` | Do sessions keep off each other's rows, keys and versions? | 2 requests with and without the same key, 2 workers, 1 alert |
| `CaseLiveness` | Does every queued run finish, does no alert stay INVESTIGATING? | 1 request, 1 worker, 2 runs |
| `AgentPipeline` | Is what passes verification grounded and cleared? Are flags and the contract with the case workflow kept? Does an open circuit stop calls, is an outage remembered? Do every call and every execution end? | 3 tool calls (one with invalid arguments, one with a suspicious reference), 2 known ids and an invented one, 2 chunks of different clearance, 3 roles, 2 cases, budget 2, 1 repair; gateway with 2 models, threshold 3, 2 retries, reset after 2 ticks |
| `Monitoring` | Do batches account for their rows? Is every fire covered by an alert? | two uploads and the directory job with overlapping files of up to 4 rows (5 ids), 3 loads, 2 scans of 3 dates, 2 customers of 2 tenants |
| `Records` | Does the chain verify, betray edits and implement the log? Can requests come to wait for each other for ever? Does every record and request end? | 2 tenants, 2 events, 2 writers, 3 ids; 3 requests (reads, writes, uploads) of one tenant on a pool of 3, 1 row, 1 audit event each |
| `Serving` | Is everything retrievable reviewed, and within tenant and clearance? Is there one model, is it the one served, are alerts scored once? Do the limits limit? | documents: 1 that the repository and a tenant both want, 4 revisions, 3 texts (one long and restricted, one flagged), 3 users of 2 tenants, 2 API threads and the pipeline; registry: 2 trainers for 3 seconds and 3 rows, and 1 trainer for 2 seconds with an API server and 2 scoring stages; access: 2 handlers of one client, limit 2 in a window of 1, 2 failures, 3 ticks |
| `Computations` | Does the policy stay within the SOPs and never waive an approval when facts get worse? Are chunks faithful and features exact? Does the verifier refuse nothing of the reference agents but a closure at risk? | every value on either side of each limit; documents of up to 5 lines with budget 4, overlap 2, minimum 3; 8 transactions at the edges of the windows on top of 4 histories; 144 dossiers of 6 cases for the reference agents, with thresholds below, at and above the verifier's 0.5 |
| `CaseTwoInvestigations`, `CasePoison`, `KnowledgeApproval`, `ReferenceClosure` | Findings, section 6 | 1 alert with 3 runs; 1 run; 2 documents and 3 revisions; the dossiers of `Computations`, 1 repair |

*Why the bounds are enough.* The conflicts of the workflow are between two sessions on one alert,
or between the runs of two investigations of one alert; two of each, with a third and fourth session where
two workers meet two requests, produce every pairwise order of their steps, and rollbacks happen at every
point. Different alerts share only keys and customers. `MaxRuns` bounds the investigations ever inserted,
`MaxId` the audit ids, `MaxRevisions` the rows ever inserted into `kb_documents`, `MaxBatches` the loads ever
started, `MaxSecond` and `MaxTime` the clocks, `MaxModels` the rows of `model_versions`, `MaxLock` an alert's
`lock_version`, `MaxLines` a document, `MaxEvents` the audit events of a request. A document is in danger when
an approver, a re-uploader and a reader or the pipeline meet on it,
and four revisions of one document have all of them, one after another
(documents do not depend on each other: a directory is indexed one file after the other, and a search
judges each chunk by its own document). The files of `Monitoring` contain an exact and a near
duplicate, a malformed row, a row of another tenant's account, a file without its columns, one that fails
a gate, and deposits that arrive after a scan that would have fired on them. No upload can load anything before the
job has committed the accounts; then the two of them bring the same two ids in the same or in opposite order, each
meets the other's uncommitted row, or rows the job has committed, and waits, is a duplicate, inserts after a rollback, or is
the victim of a deadlock. Loads overlap while no scan runs (`LoadsOverlapBetweenScans`, a constraint on the
states): a scan reads nothing of a load that has not committed, and one load at a time may commit at any of its steps, so
two at once would show a scan nothing else. The three dates are 14 days
apart, so that 28 days of suppression cover one repetition and not the second. The gates are 400, 500 and
500 per mille, where the code has 20, 50 and 50: files of four rows would otherwise fail every time.
R04 needs 25 transactions, so that rule does not fire in this instance; the theorems do
not depend on what fires, and `Computations` has the months in which it does. A pool is exhausted by requests
that hold one connection and want a second; with three of three under way it is, which `RequestsEnd` is about,
and with two it is not, which `NeverAllWaiting` is about. Three model versions are two that overlap and one that has
to clean up after them. Five lines are two headings with text under each and a line to spare, and a line may be
longer than two windows.

*Composites.* `MCAgentPipeline`, `MCRecords`, `MCServing` and `MCComputations` each check components that share
no variable. `part` is chosen initially and only that component moves: each is explored as if it were alone, and
as no property speaks of two of them, interleaving them would add states and no behaviours. (Where components do
interact, the modules compose: `AlertScan` with `Ingestion` and `Rules`, `ReferenceAgents` with `AgentPipeline` and
`PolicyEngine`, `CaseWorkflow` with `PolicyEngine`.)

*Deadlock* is checked in `KnowledgeApproval`, `Monitoring`, and `Serving` for the documents (the registry and the logins,
whose clocks end, may rest: `Over`). The other runs set `CHECK_DEADLOCK FALSE`:
the case workflow and the audit chain stop when a bound is reached, an execution, a document
or a ruling is over. Requests that wait for each other in `ConnectionPool` are not a deadlock of the model, because the
pool's timeout is a step: `NeverAllWaiting` is stated for them instead.

*Symmetry.* Interchangeable request threads and trainers (`Serving`, whose temporal properties, `TenantPinned` and
`StaysServed`, are about single steps), request threads (`CaseConcurrency`, `KnowledgeApproval`), scans and uploads (`Monitoring`).
No liveness run uses symmetry.

*Fairness.* `FairSpec`: a request that has begun goes on or fails, a worker polls and its iteration
ends (`main`'s loop); nobody has to send a request. `RecoveringSpec` adds strong fairness of a
worker's `Finish` and of `Commit`: failures are transient. The liveness properties need it, and
`CasePoison` shows what happens without. `FairAuditSpec`: PostgreSQL grants the advisory lock to its
waiters in turn (strong fairness of `Lock`), and a session that holds it goes on or dies. `FairPoolSpec`: each
request, whenever it can again and again, takes its next step or gives up after the pool's timeout (strong
fairness: the pool and PostgreSQL queue their waiters). `FairPipelineSpec` and `FairGatewaySpec`: the
executing thread goes on, and a request to the provider is answered or times out (`timeout_s`); a killed process is an
`Abort` of the case workflow. `ReferenceSpec` is the former for the reference agents. The composites state the same
fairness for the part that moves.

## 4. Properties

| Property | Says |
|---|---|
| `SevereOutcomesAuthorised` | every report and restriction has an approval by an MLRO other than the initiator, of a verified recommendation |
| `NothingFailsOpen` | nothing unverified takes effect; without a human nothing severe, flagged or high-risk does |
| `TerminalAlertExplained` | a closed, monitored, escalated or restricted alert has the executed recommendation that says so |
| `NoOrphanedAlert` | an alert in a waiting status has a run or an approval that can still move it |
| `RunRecApprovalAgree` | run, recommendation and approval, written by three functions, tell the same story at every commit |
| `OutcomesAudited` | every committed fact has its audit event, whatever was rolled back |
| `NoLostUpdate`, `ExecutedOnce` | every change of an alert is made on its latest version; a run gets one result and one decision |
| `OneRunPerKey` | the idempotency key works under concurrency |
| `WorkFinishes` | no queued run is starved, and no alert stays under investigation, when failures are transient |
| `AutomaticOnlyWithinSop`, `NeverWaived` | the policy against the written procedures and against itself |
| `ChainsVerify`, `TamperEvident`, `AppendOnly`, `RecordsEnd` | the audit chain |
| `NeverAllWaiting` | with fewer requests under way than connections, one of them can always go on, across pool, row locks, audit lock and event loop |
| `RequestsEnd` | every request ends, also with an exhausted pool |
| `VerifiedIsGrounded`, `CitationsCleared` | what a verified recommendation cites was returned by this execution's tools, and is within the initiator's clearance |
| `FlaggedNeverAutomatic` | a suspicious reference met anywhere brings in a human |
| `ImplementsExecution` | an execution ends at most once, with a human or a ruling on the case and all its flags |
| `FailsFast`, `OutageRemembered` | the circuit breaker |
| `NothingHangs` | every structured call and every execution ends |
| `ReferenceRecommends` | the deterministic agents always end with a recommendation, which the verifier accepts at once, every number being recomputed from exactly what is cited; the only one it refuses is a closure at a risk from 0.5 up to the production threshold, and that goes, unchanged by repairs, to a human |
| `ReviewedUnlessMixed` | what can be retrieved was approved by somebody of the tenant other than its uploader, or by the repository's review, and all of it is active; only an approval that overtook a replacement gets past this |
| `AnswersReviewed` | after two queries with commits in between, an answer is within the reader's tenant and clearance |
| `TenantPinned` | a `doc_id` neither changes its tenant nor vanishes when it is replaced |
| `ChunksFaithful` | no word of a document is lost or out of order, none is under a heading that is not its own, neighbours overlap, and sizes are bounded |
| `LineageExact` | a batch's counts are those of the transactions that carry its id, for repeated and failed loads, and for loads that meet each other's uncommitted ids |
| `EveryFireCovered` | what a rule said in any committed scan has an alert less than 28 days before, although scans overlap, fail and see late transactions |
| `FeaturesExact` | the rules on the sliced vector fire when the definitions over sets do, and later transactions change nothing |
| `ProductionUnlessOverlap`, `StaysServed` | two versions are in production only if their promotions overlapped; there is never none again |
| `ServedVerified` | the artifact in memory is the one its version's row describes, unless two trainings ended in the same second |
| `ScoresTraceable` | a scored alert has exactly one prediction, by the version it names |
| `WindowLimited` | no window has more logins than the limit, and nobody is refused below it |
| `LockoutUnlessOverlapped` | the failure count is exact while a user's logins do not overlap |
| `LoginsAudited` | no count changes and no token is issued without its event |

Proved and not run (cheap for the prover, or parts of what the runs check): the type invariants, the inductive
invariants, `WithinBudget` (tool calls and turns), `RequiredRoleCanDecide` (the role the policy names is one that the
authority matrix and the route accept), `NothingLeaks` (a request that has ended holds nothing), `HolderInv` (nor does an
ended call of `record`), `AcceptedUnlessAtRisk` (the reference agents' decision passes at the first attempt, or closes at risk); and of what
liveness rests on, that every step of a call, an execution, a request or a record uses something up (`CallsRunOut`,
`ExecutionRunsOut`, `RequestsRunOut`, `RecordsRunOut`), and that one is possible (`CanGoOn`, `SomebodyMoves`, `OneWaitAtMost`).
These are defined where they are proved.

## 5. Proofs

TLAPS proves, for every value of the constants that satisfies the named assumptions
(`ConstantsAssumption`, `PolicyAssumption`, `AuditAssumption`, `PipelineAssumption`,
`GatewayAssumption`, `KnowledgeAssumption`, `NoneAssumption`, `IngestionAssumption`,
`TransactionAssumption`, `AlertScanAssumption`, `PoolAssumption`, `RegistryAssumption`, `AccessAssumption`,
`ChunkingAssumption`, `FeatureAssumption`, `ReferenceAssumption`), every safety property of the passing runs, and the
three refinements (`AppendOnly`, `ImplementsExecution`, and the reference agents as an instance of the pipeline).
Hypotheses beyond these are stated in the theorem that needs them and named below.

**Case workflow** (`CaseProofs`), one lemma per action and layer.

- `TypeCorrect`: the types.
- `CaseInvCorrect`, `SevereAuthorised`, `TerminalExplained`, `FailsClosed`, `RunsExecutedOnce`.
  `SevereOutcomesAuthorised` is not inductive: it says nothing of a session that
  is about to commit, or of a second session on the same run. `CaseInv` adds both: `PhaseInv` and
  `SessionInv` (a session that will commit an executed recommendation holds a legal approval or a
  ruling that none is needed; a session past its reads works on a run whose tables are as it read
  them) and `OneHolder` (no two sessions hold one run, by the row locks on `workflow_runs` and then on
  `recommendations`).
- `RecordsCorrect`, and from it `RecordsAgree`, `EverythingAudited`, `KeysUnique`, `NothingOrphaned`, `NothingLost`.
  `RecordsInv` is inductive relative to `CaseInv`. It judges the rows a session will commit like committed ones
  (`StoryOf` and `RunStory`, both from `Agree`, `Audited` and `CarriedOut`), so that a commit has nothing to
  prove about what it installs. `OneLock` and `Latest`: a flushed session that writes an alert is the only one
  that does and has its latest version. `KeyInv`: a key flushed and not committed is one
  nobody else holds. `WaitInv`: an alert that waits has a run or recommendation such that
  whoever is about to end it has *seen* that the alert waits, and therefore moves it on
  (`Tended`, `Awaited`); that is what fails in finding 1 when the sight is of an older investigation, and
  why it ends in a startable alert and never in an orphaned one.

**Policy** (`PipelineProofs`): `WithinSop`, `NamedRoleDecides`, `ApprovalNeverWaived`, for every score and share, not only
the boundary values.

**Audit chain** (`AuditProofs`): `ChainsAlwaysVerify`, `TamperAlwaysEvident`, `ImplementsLog`,
`LockGoesWithTransaction`, `RecordsAreBounded`. The invariant `AuditInv`:
a writer past the lock holds it (`LockInv`), so what it has read is still the end of its tenant's
chain and its id above all others (`ReadInv`); the rows of a tenant form one chain in which every
row but the last has a successor and hashes only get longer (`ChainInv`). The refinement needs in
addition that every chain has an end (`EndInv`), which is what the mapping chooses. `HolderInv` is the converse of
`LockInv`: who holds a lock is past it; so a writer waits for one other at most, who waits for nobody.

**Gateway** (`PipelineProofs`): `GatewayTypeCorrect`, `GatewayFailsFast`, `GatewayRemembers`, `CallsAreBounded`.
`GatewayInv` ties the breaker to the call in progress: a closed circuit counts fewer failures than
the threshold, and the failures and late requests of the model being called are bounded by the
attempts made.

**Agents** (`PipelineProofs`): `VerifiedGrounded`, `CitationsWithinClearance`, `FlaggedGoesToHuman`, `BudgetKept`,
`PipelineTypeCorrect`, `PipelineImplementsExecution` and `ExecutionsAreBounded`.
`PipelineInv` adds that the scope holds exactly what the calls made returned (`ScopeInv`), that every
stage has the answers of those before it (`StageInv`) and that a recommendation carries the verdict and
ruling of the decision recorded with it (`OutcomeInv`).

**Knowledge base** (`KnowledgeProofs`): `KnowledgeInvariance`, `Reviewing`, `Answering`, `Pinning`. `ReviewedUnlessMixed` is not
inductive: an approval is checked on one row and made on another. `KnowledgeInv` adds what each session
knows (`SessionInv`): an approver's row, as long as it is the same one (`SameRow`), still has the text,
uploader and tenant it was checked for, and its chunks are active or on the approver's list
(`ApprovalOk`); what a search has found was approved (`FoundOk`); a row to be inserted is reviewed,
alone for its document and unknown to everybody (`InsertedInv`), so that its number is new to them.

**Monitoring** (`MonitoringProofs`): `MonitoringInvariance`, `Lineage`, `Coverage`. `LineageExact` needs to know what a load
will commit: rows found valid, one per id, under ids that are free (`LoadOk`), and ids that no other
load holds (`Apart`, the wait on an uncommitted row); the counts then follow from a bijection between rows
and ids, and from the partition of the file into loaded, rejected and duplicate rows.
`EveryFireCovered` rests on `ScanOk`: the last alert that a scan remembers is one it will insert or one
that was there, and its date is before all dates to come.

**Server** (`ServerProofs`).

- `PoolInvariant`, `RequestsNeverAllWait`, `RequestsGiveBack`, `RequestsAreBounded`, `SomebodyAlwaysMoves`. Who holds which lock follows from where each request
  is (`RequestInv`, `LockInv`). If none could go on, a request that waits for a row or the chain waits for
  another one, which holds a connection; the holder of the chain can always append; so somebody
  waits for a connection although fewer requests are under way than there are connections, and each that holds
  two is appending or waiting for the chain: a count of connections ends the argument.
- `RegistryInvariant`, `RegistryTypesKept`, `OneProductionUnlessOverlap`, `AlwaysServed`, `ServesWhatWasRegistered`,
  `ScoresHaveOnePrediction`. `TrainingOk`: a promotion has seen, or overlapped with, every version in production; a
  trainer's row is unknown to others until its commit. `CallOk`: an alert whose lock version is still the one a stage
  has read has no score yet, so that the check at commit keeps it from a second prediction.
- `AccessInvariant`, `AccessTypesKept`, `LimiterKeepsWindow`, `FailuresCounted`, `EveryLoginAudited`. `WindowOk`: the deque
  is the end of the list of all requests let through, and what has been dropped from it is outside the window for
  ever. `LoginInv`: the events are ahead of the commits by the handlers that have recorded and not committed
  (`EventsAhead`).

**Chunking** (`ChunkingProofs`): `ChunksAlwaysFaithful`, for every document and every budget, overlap and minimum that
`ChunkingAssumption` allows. `ChunkInv` follows a word from its line to a chunk. While reading, the paragraph, the open section and
the closed ones hold the words read, all of them, in the order of the document, each section those under one
heading (`Apart`, `Named`). While packing, chunks, chunk in hand, rest of the paragraph and sections still to come do
(`Covered` and `Precede`, on the sets of words each of them holds, so that a lemma about appending, cutting or taking a
first element serves all of them). The delicate case is a short rest appended to the previous chunk, whose last words it
must not repeat: what begins with them is no shorter than the minimum (`Continues`), so a shorter rest is a section
of its own. A chunk may get several of them, which its size allows for.

**Features** (`ComputationProofs`): `FeaturesAlwaysExact`. The definitions by sets and the slices of columns are both folds over a finite
set, and the prover has no induction over data: that a fold exists and has its recursive equation is proved once
(`Foldable`; `SetInduction` and `Induction` are inductions over a *set* of good values, which need no
operator parameter). `Arrays` is sorted and holds each transaction once (`ArraysAreColumns`), `Left` and `Right` are positions between those before and those
after a day (`Positions`), so a slice is a window (`SliceIsWindow`); with windows the features are the definitions by day,
and the rules, which read nothing else, agree (`RulesAgree`); a later transaction is in no window
(`LaterIgnored`).

**Reference agents** (`ComputationProofs`): `ReferenceGrounded`, `ReferenceAccepted`, `ReferenceImplementsPipeline`, `ReferenceNeverStuck`.

- `Grounded` says that what an agent knows is what its calls returned (`Knowing`), and that its answers cite only that
  (`AnswersFit`); every note's claims equal the verifier's recomputation from exactly what the note cites (`AllNotesOk`).
- `ReferenceAccepted` (`[]AcceptedUnlessAtRisk`) holds for every threshold. Of all that the verifier may object to, it
  finds a closure at risk and nothing else (`OnlyTheRisk`), exactly when the decision is one; a decision does not change
  what it is made from (`RiskStays`), so an attempt after the first means that it will be refused to the last, and
  an outcome without a human that it was accepted (`SimDecideAccepted`).
- `ReferenceImplementsPipeline` assumes `AnyAnswer`, that a language model may answer any set of references and chunks
  (the runs have fewer, to keep their states few). All theorems on agents hold of the reference agents through it.
- `ReferenceNeverStuck` assumes a budget of at least one tool call.

**Ends, without fairness.** What a call, an execution, a request, a record has left is a number (`AnswersLeft`, `StepsLeft`,
`RecordLeft`) that each of its steps makes smaller, also the steps that fail, retry, repair or give up, and that no step of another one
makes larger; so the number of steps is bounded by the constants (`CallsAreBounded`, `ExecutionsAreBounded`,
`RequestsAreBounded`, `RecordsAreBounded`). And one of them can always move: `SomebodyAlwaysMoves` for requests, of which so many may be under way that all
wait for a second connection, the case that `NeverAllWaiting` leaves out, `ReferenceNeverStuck`, and the second half of
`RecordsAreBounded`. What is missing to liveness is the step from "possible" and "fair" to "taken", which needs ENABLED.

Only model-checked: liveness (`WorkFinishes`, `RecordsEnd`, `RequestsEnd`, `NothingHangs`, `ReferenceRecommends`), which the
prover does not do under fairness. Of the last four the bound on steps is proved, of the last one also which recommendations are accepted.

## 6. Findings

1. `CaseTwoInvestigations`. `decide` puts the alert into NEEDS_MANUAL_REVIEW when a recommendation is
   rejected, whatever the alert's status. A recommendation that failed verification stays
   PENDING_APPROVAL while its alert is startable again; rejecting it after a second investigation
   began makes the alert startable under that investigation, and a third run may start beside it.
   `docs/architecture.md:105` promises that optimistic locking prevents two investigations on one alert.
2. `CasePoison`. A database error inside `execute` makes `_fail_closed` fail as well; the worker rolls
   back and the run is QUEUED again. If the error persists, it is retried for ever, before all later
   runs, without reaching manual review as `docs/architecture.md:108` promises.
3. `KnowledgeApproval`. `approve_document` checks the row it read and updates the row that has the `doc_id`
   by then, and its chunks. A re-upload that commits in between, by the approver or with injection
   findings, becomes APPROVED and retrievable without a review, although `rag/indexer.py:6` promises one
   by a different user. `ReviewedUnlessMixed` shows that this is the only way.
4. `ReferenceClosure`. The reference agents close an alert without aggravating findings whose risk is below the production
   model's threshold (`ai/simulators.py:161`); the verifier refuses every closure from a risk of 0.5 on
   (`agents/verifier.py:69`). Nothing bounds the threshold that training chooses (`ml/train.py:125`), and
   `docs/evaluation.md:39` has 0.7338: in between, the closure is refused, the repair repeats it, and the execution ends
   unverified with a human, although `ai/simulators.py:4` says that the simulators must satisfy the verifier.
   `ReferenceRecommends` shows that nothing else of theirs is refused.

Seen while modelling, without a run of their own.

Case workflow and agents:

- The same rejection as in 1 takes a closed or escalated alert back to manual review, although
  `services/actions.py:1` calls itself the only code path that changes case outcomes.
- When `audit.record` fails after the recommendation was flushed (its connection may be refused), `execute`
  escalates: the run is FAILED, the alert in manual review, and the recommendation committed with them stays
  AUTO_APPLIED (`RecommendUnaudited`, `ApplyUnaudited`).
- A tenant whose only MLRO started an investigation cannot decide on its severe recommendation
  (`services/approvals.py:26`).
- The verifier checks the chunk ids of guidance and approval requirements, and not those of
  `red_flags_matched` (`agents/verifier.py:61`); `docs/rag.md:92` says that any citation not retrieved is rejected.
- A finding that cites one transaction twice has it summed and counted twice when its claims are checked
  (`agents/verifier.py:17`).
- Citable are the first 14 chunks of all queries (`agents/agents.py:117`), also those that `build_context` cuts off at its
  2,200 words; the query for the approval matrix comes last.
- The verdict compares the alert's stored score with the threshold of the model in production *now*
  (`agents/orchestrator.py:203`), which may be a later one than the model that scored it.

Gateway:

- `success` of the breaker leaves `opened_at` as it is: retries that trip it and then succeed leave the circuit
  of a healthy model open, and once it has expired one failure opens it again.
- Up to `llm_max_retries` = 2 repairs are asked for, `docs/architecture.md:122` says one.
- An answer that is not JSON at all raises outside `LLMError` (`ai/gateway.py:104`): no `LLMCall` row, no failure counted
  (`Escape`).
- Each synchronous request makes an `Orchestrator`, and so a breaker, of its own (`api/routes/alerts.py:72`): what it
  learns of an outage is forgotten with it.

Data and knowledge:

- Suppression is per call of `run_scan`: when transactions arrive late, a second scan raises an alert of an
  earlier date beside one of the first scan, less than 28 days apart (`docs/data_pipeline.md:128`).
- The batch of accounts counts no duplicates, so after a second load its rows do not add up
  (`data/ingestion.py:94`); `LineageExact` speaks of transactions only.
- A transaction id that another tenant has used is skipped as a duplicate: ids are the primary key of all
  tenants together (`database/models.py:191`).
- A chunk can have 30 words of overlap on top of a full paragraph window (`rag/documents.py:97`), more than the budget that
  the comment at `:91` says no chunk exceeds. `ChunkSizes` states the bound there is.

Models and server:

- The version is the second a training ends in (`ml/train.py`): two that end in the same second write one file, and one of
  them describes an artifact that is not its own (`rewritten`), although `ml/registry.py:5` speaks of immutable versioned
  artifacts.
- Two promotions that overlap leave two versions in production (`ml/registry.py:54`), where `docs/ml.md:84` draws one, until the
  next promotion archives both.
- `threshold_for_recall` takes `1 - 0.9`, which is less than a tenth in binary, so that `floor` can be one below the
  index its docstring describes (`ml/metrics.py:31`).
- The login limit is per process (`api/middleware.py:17`), and the image starts two of them (`backend/Dockerfile:24`);
  `docs/security.md:42` says 10 per minute and client.
- Failed logins that overlap are counted once (`api/routes/auth.py:27`): `LockoutUnlessOverlapped` says that nothing else loses
  counts.
- With as many requests under way as the pool has connections, all can hold one and wait for a second
  until the pool's timeout (`services/audit.py:56`); an upload keeps the event loop, which would return the connections
  of finished requests, while it waits.
- The newest rows of the audit chain can be deleted without `verify_chain` noticing (`TamperEvident` is stated for
  rows that another one follows; `docs/security.md:86` says as much).

## 7. Not modelled, and why

- Numbers no safety argument here depends on beyond the comparisons that are modelled: embeddings and the fusion of
  rankings, what fitting a model computes, the choice of its threshold, calibration and drift statistics, means and
  deviations among the features.
- Texts: prompts, narratives, citations' wording. What the prompt guard matches is a set.
- The synthetic data generator, the evaluation scripts and reports, the dashboard, deployment templates: no state
  of the domain.
- JWTs and password hashing: cryptography.
- SQLite: the tests' single-writer database has none of the interleavings.
- Configuration, logging and metrics: the settings are the constants of the modules.
- Read-only routes, except for `/health/ready`, which loads the model.
- Creation of users and reset of the database in `pipeline.py`: run by hand on an idle system.

## 8. Plan

Done: every part that keeps state has its module, every module its run, every safety property its theorem, and everything
that must end a bound on its steps, except the case workflow. What would add most next:

1. A step from `AgentPipeline` to `CaseWorkflow` as a refinement: that `Finish` takes an outcome of `Execution` is by reading
   the two modules side by side so far.
2. What `WorkFinishes` rests on, as safety: a run that is queued stays at the head of the queue until somebody claims it, and
   whoever claims it can end.
3. The fusion of rankings against its definition, when something is decided by the order of what is retrieved.
