# CyberSaarthi: a TLA+ verification project

CyberSaarthi is an evidence-analysis platform for criminal investigations. A
FastAPI back end (`src/backend/app`) keeps cases, evidence files, entities and
analysis output in PostgreSQL, the evidence bytes in an S3 object store
(MinIO), a projection of the case graph in Neo4j, and login counters and
revoked tokens in Redis. A local language model answers the analyses and an
assistant. An Android field agent (`src/mobile`) collects and signs evidence and
uploads it in packages; a desktop importer submits packages from a USB stick; a
React client (`src/frontend`) drives the API.

This directory holds TLA+ specifications translated from that source, the TLC
configurations that check them on small instances, and TLAPS proofs of their
main theorems. `PROJECT.json` maps every definition to the lines it models.

## How the system runs, and what that means for the models

* One `uvicorn` process (`src/backend/Dockerfile:70`) runs every request and
  every background task on one asyncio event loop. Code between two `await`s is
  atomic; any other coroutine may run at an `await`. An action of the models is
  the code between two awaits at which the difference can be seen.
* Sessions use PostgreSQL's default READ COMMITTED isolation and
  `expire_on_commit=False` (`db/postgres.py`): a query sees committed rows, and
  an ORM object keeps the values it was read with until it is refreshed. No
  statement locks a row for reading and no table has a version column, so every
  check-then-write of two requests can interleave.
* A flushed UPDATE holds its row lock, and a flushed INSERT its unique key,
  until the transaction ends.
* There is no job queue: background work is a coroutine of the process, and a
  restart loses all of it (`services/analysis_jobs.py`, module docstring).
* What an analysis computes is a pure function of rows it has loaded. Those
  functions are operators of the rule modules; the runners that call them are
  state machines of their own.

## The components

| component | state it keeps | operations | hard behaviour | correct when |
|---|---|---|---|---|
| Analysis jobs | `analysis_jobs`, `derived_artifacts` | submit, cancel, poll, run, fail, clear | races of submissions, a task's stale copy of its row, restart | terminal is final, success means complete output, nothing stays locked |
| Runners of the nine analyses | the same rows | one program each | polls, revoked access, commits in the middle, crashes | a run writes nothing long after its owner lost access, its status and counts are true |
| Submissions of feature runs | the same rows | seven routes | stale rows, keys, joins | an answer belongs to the question, an orphan does not lock |
| Review, resolution, merge | artifacts, matches, candidates, entities, aliases, relationships, Neo4j | approve, reject, edit, accept, merge, resolve, project | two reviewers, opposite merges, an ingestion meanwhile | decisions are whole and final, merges form a forest |
| Ingestion and projection | jobs, records, entities, relationships, Neo4j | ingest, async ingest, retry of the projection | two runs of one job, deadlocks, restart, lost connections | a completed job stored everything, a synced one is in the graph |
| Evidence vault | `evidence_files`, objects in the bucket | upload, delete, restore, import | row and object change in two steps, failures between them | a live row can be read, content is never lost, no orphan |
| Field agent, devices, importer | collections on the phone, device rows, evidence rows | capture, seal, package, submit, register, approve, revoke, import | process death, rot, lost answers, replays | the case holds what was sealed, a package settles |
| Accounts | users, roles | register, approve, reject, suspend, activate, change role | two administrators at once | an administrator remains |
| Logins | Redis counters, denylist | log in, log out | commands that interleave, expiry | guesses are bounded, lockouts end, a signed-out token stays out |
| Cases | case row, members | patch, archive, members, any write | a check on a loaded copy | a read-only case is not written |
| Casework | findings, runs, collections, hypotheses, reports, events | the routes after creation | lost updates, dying between store and commit | a status is earned, a commit happens once |
| Assistant gateway | slots, connections, conversations, audit rows | chat, stream, background completion, delete | disconnects, tool loop, slots | nothing leaks, exchanges are whole, requests end |
| Rules of the analyses, extraction, assistant retrieval | none | 15 pure calls | limits, boundaries, order | they compute what their docstrings say |

## The modules

State machines, each with its `MC` module of model values:

| module | models | state ↔ code |
|---|---|---|
| `AnalysisJobs` | `services/analysis_jobs.py`, `evidence_extraction.py`, routes of `evidence_intelligence.py` | `status`, `cancel`: columns, a row is named by the attempt in its key; `late`: rows past their budget; `sub`, `canceling`: sessions; `run`: the task with its ORM copy (`mem`) and its place; `artifacts`: rows per unit and content |
| `JobLifecycle` | the promise of `analysis_jobs.py`'s docstring; `AnalysisJobs` implements it (`RefinesLifecycle`, `INSTANCE ... WITH`) | `status` |
| `CaseAnalyses` | the nine runners (`custody.py` ... `report_audit.py`) | `Program`: for each feature, its awaits in order; `rows`: artifacts; `summary`: `result_summary`; `authorized`, `available`: what a poll finds |
| `Submissions` | the submit halves of `evidence_integrity.py`, `case_intelligence.py`, `cross_case.py`, `report_audits.py` and their services | `rows`: jobs with key, asked scope, age; `sub`: a route between its statements |
| `CaseReview` | `artifacts.py`, `resolve_review.py`, `resolution.py`, `entity_matching.apply_approved_match`, the projection | the rows by table; `req`: a session with the rows it read; `ing`: an ingestion in flight; `graph`: Entity nodes |
| `CaseIngestion` | `ingestion.py`, `graph_sync.py`, the ingest routes | `job`, `status`, `rows`; `tx`: what a run has flushed and not committed; `graph` |
| `EvidenceVault` | `routes/evidence.py`, `db/storage.py`, storing half of `package_verification.py` | `row`: owner of the key, depth of `recycle/`, `deleted_at`; `objects`: keys; `up`, `imp`, `bin`: requests |
| `FieldTransfer` | the phone's stores and view models, `devices.py`, verification half of `package_verification.py`, the importer | `files`, `metas`, `stage`, `manifest`, `signature`: the collection directory; `task`: the busy action; `request`: imports; `rows`: evidence rows |
| `Accounts`, `Logins`, `Cases` | `users.py`; `throttle.py`, `token.py`, `auth.py`; `cases.py` and `assert_case_mutable` | rows or Redis keys, and the requests between their statements; composed in `MCAccess` |
| `Casework` | findings, hypotheses, collections, reports, analytics runs, commits of proposals | `db`: the rows of one topic; `req`: requests with the row they loaded; with `Submissions` in `MCCasework` |
| `AiGateway` | `ai/service.py`, `client.py`, `runtime.py`, `tools.py`, `routes/ai.py` | `slots`: `_generation_semaphore`; `active`: the gauge; `pool`; `ready`; `threads`, `messages`, `audited`: committed rows |

`RuleCalls` is the smallest of them: one call of one rule of the analyses or of
one assistant tool as its runner makes it (an initial state fixes the rule and
its input, one step computes). `RuleProofs` proves about it for any inputs;
`MCRules` extends it by the rules that only TLC evaluates and gives every rule a
bounded set of inputs.

Rule modules, operators only:
`CustodyRules`, `TriageRules`, `CrossCaseRules`, `AssistantRules` (two calls:
retrieval and grounding), `ContradictionRules`, `FinancialRules`,
`MatchingRules`, `TimelineRules`, `ExtractionRules`, `ReportAuditRules`,
`SourceCheckRules`, `TranslationRules` (complaint and translation),
`GraphRules`. Their texts, ids, times and amounts are small numbers or short
sequences of tokens; a regular expression is the token it matches.

Proof modules: `AnalysisJobsProofs`, `EvidenceVaultProofs`, `AiGatewayProofs`,
`AccessProofs` (accounts, logins, cases, and the transfer of the field agent),
`CaseworkProofs` (casework, submissions, the runners of `CaseAnalyses`),
`CaseReviewProofs`, `CaseIngestionProofs`, `RuleProofs` (the rules of `RuleCalls`).

How the machines fit together: a submission (`Submissions`, `AnalysisJobs`)
opens the job whose task `CaseAnalyses` and `AnalysisJobs` run; the artifacts
those record are what `CaseReview` decides on, and an approved match merges the
entities `CaseIngestion` created; the package `FieldTransfer` accepts in one step
is stored by `EvidenceVault` in many. Where one machine needs another, it has the
other's effect as an action of the environment (a revocation, a clearing, a
commit of another run), not its steps: the product would not be checkable, and
the machines share no other variable.

## The runs

| run | instance | shows |
|---|---|---|
| `jobs` | 2 sessions, 2 attempts, 2 units, 1 disturbance | `SucceededIsComplete`, `EndedTaskLeavesTerminalRow`, and that the machinery implements `JobLifecycle` |
| `jobs_serial` | 1 session, 2 attempts, 3 responses, 2 disturbances, fair | `OneActiveJob`, `NoDuplicateOutput`, `JobsFinish` |
| `vault` | 2 contents, 1 upload, 2 imports, 1 keeper, every kind of fault, 2 of them | `UploadsLeaveNoOrphan`, `ImportIsAllOrNothing`, `AcceptedContentNeverLost`, `ReadableUntilAFault`, `RequestsNeverDeadlock` |
| `vault_overlap_violated` | 2 keepers that do not wait for each other, no fault | `ContentNeverLost` fails: see below |
| `review` | 3 values, 2 artifacts, a proposal, a link, a mention, 2 reviewers | `MergesAreWhole`, `DecisionsAreWhole`, `DecisionsAreOneShot` |
| `ingestion` | 2 files that name the same values in opposite orders, 2 requests, 5 faults | `JobsTellTheTruth`, `RequestsEnd` |
| `access` | 2 accounts, 2 desks; 2 names, 2 clients; 1 case, 2 tabs | `KeepsAnAdmin`, `GuessesBounded`, `LoggedOutStaysOut`, `LockoutEnds`, `ReadOnlyCaseIsSealed` |
| `field` | 3 items, two with one content, 2 imports in flight, 1 fault of each kind | `CaseHoldsTheOriginals`, `PackageSettles` |
| `analyses` | each of the nine features, 2 items, 3 disturbances | `RevocationBites`, `OutcomeIsTrue`, `JobSettles` |
| `casework` | 2 clients on each topic, 4 requests; 3 submissions of six features, 1 restart | `StatusIsEarned`, `CommittedOnce`, `AnswersMatchRequest`, `StaleGivesWay` |
| `assistant` | a chat, a stream and a background completion over 1 slot and 2 connections, 2 rounds | `NothingLeaks`, `ExchangesAreWhole`, `RequestsAnswered` |
| `rules` | about 200 000 calls of 15 rules | `EvidenceIsJudged`, `AnswersStayInScope`, `ConflictsMeetTheMatrix`, `MoneyIsTraced`, `SuggestionsAreAccountedFor`, `AuditIsHonest`, `ReadingsAreTrue` |

The comment above each property says what it means and what code it is about.

**Bounds.** Two sessions make every race of a check and a write; a third
submitter in `casework` adds the request that meets two stale rows. Two units,
items or records let a run fail on one after succeeding on another, and poll in
between. Two contents let packages overlap and be inserted in opposite orders; two
files with opposite records let ingestions deadlock. `MaxDepth` bounds nested
`recycle/` prefixes, which grow only when a file restored without its content is
deleted again. Faults and disturbances are bounded by 1 to 3: a fault and a
fault during the recovery from it. `MaxAttempts` of the throttle is 2 so that two
clients can overrun it. In the rules the limits (`MaxPairs`, `MaxUrls`,
`MaxDepth`, `MaxFacts` and `MaxStatements` of 2 ...) are set below the size of the inputs, so that they cut; graphs
have up to five nodes, which is the smallest size with two communities joined
by a bridge.

**Deadlock** is not checked: in each instance the requests come to an end.
`RequestsNeverDeadlock` and the liveness properties say what matters of it.
`RequestsNeverDeadlock` is written without ENABLED, so that it can be proved: at
any moment with a request at work, one waits for no key, or imports wait for each
other in a circle, which PostgreSQL breaks by failing one of them.

**Assumptions a run names.** `RunsMayOverrun = FALSE` (both job runs): no
live task is older than its budget. The budget is checked between model calls, so
this is an assumption about the duration of one call; the theorems
`SuccessIsComplete` and `EndedTasksLeaveTerminalRows` do without it. `Serial =
TRUE` in `vault`: a user waits for the answer of a delete or restore before
touching the file again; in `review`: a reviewer keeps off what a colleague has
opened. `Alone = {"proposal"}` in `casework`: commits of one proposal do not
overlap. `KeepsAnAdmin` and `ReadOnlyCaseIsSealed` speak of requests that had the
rows for themselves. Each of these names a place where the code has no lock; the
section after next lists what overlapping does there.

**Fairness.** asyncio runs every ready coroutine, a model call returns or times
out, the store and the database answer, and Redis keys expire.

* Weak fairness: the steps of each request in `CaseIngestion`, `AiGateway` and
  `Logins`, the runner of `CaseAnalyses`, the server's and the phone's own steps in
  `FieldTransfer`, and the clocks (`Tick`, `Expire`). None of these steps is
  disabled again by another actor before it is taken, except where a row lock is
  held, and the holder gives it back.
* Strong fairness: a task and a submission in `AnalysisJobs`, whose steps wait for
  row locks and unique keys that others take and release in turn (PostgreSQL
  serves the waiting in the order they came), and `Submit` in `FieldTransfer`
  (the user opens the transfer screen again as long as there is something to
  send, and a pending device is approved in the end).
* None in `Casework`, `Submissions`, `CaseReview`, `EvidenceVault`, `Accounts` and
  `Cases`: no liveness is claimed of them.
* Faults, cancellations, revocations and restarts are never fair.

## What the violated run shows

`vault_overlap_violated`: a restore that starts while the delete's move is between
its copy and its removal copies the object back, the delete removes it, the
restore removes the recycled copy. The bytes are gone, which `routes/evidence.py`
promises they never are.

## What overlapping does

Where a run assumes that two requests do not overlap, the code has no lock that
makes them wait. What was seen there in the code and, where it says so, in a run
of an earlier shape of the instance:

* *Jobs.* A task that outlasts its budget overwrites a cleared or canceled row
  with success (`evidence_extraction.py:609` against `:161`; seen by TLC). Two
  overlapping submissions open two active jobs (`analysis_jobs.py:269` against
  `:257`; seen). A superseded task and its retry both record output of one unit
  (`evidence_extraction.py:564`; seen). The semantic pass of the contradiction
  runner sets a canceled job to success (`contradiction_detection.py:1049`).
* *Submissions.* With two active rows `scalar_one_or_none` fails every later
  submission of triage and multilingual (`forensic_triage.py:906`; seen), which is
  why `StaleGivesWay` excepts them. After an `IntegrityError` the rollback expires
  the user's row and the route ends with an error of the ORM.
* *Vault.* The loser of two imports with a file in common leaves its objects
  behind (`package_verification.py:205`; seen). A COMMIT whose answer is lost
  makes the upload's clean-up delete the object of a committed row
  (`routes/evidence.py:257`); `AcceptedContentNeverLost` names this exception. A
  verification that reads the row before a delete moves the object reports an
  intact file as missing (`integrity.py:140`).
* *Review.* Two reviewers of one artifact replace each other's decision, and two
  opposite merges make each entity the other's target (`artifacts.py:117`,
  `resolve_review.py:97`); a merge after an approval may clash on an alias
  (`resolve_review.py:111`; seen).
* *Accounts and cases.* `count_admins` joins no `users` row and takes no lock: two
  administrators who remove each other leave none, which the comment at
  `routes/users.py:11` rules out. A PATCH in flight un-archives a case archived
  meanwhile (`routes/cases.py:46`), and a write in flight lands in it.
* *Logins.* When EXPIRE fails after INCR the counter has no expiry until it is
  reset.
* *Casework.* `hypotheses.py:112` changes a list column in place on a stale copy;
  a collection can be updated while it is sealed; overlapping commits of one
  proposal insert its event twice (`timeline_reconstruction.py:962`); a
  contradiction may be resolved on a candidate that was decided meanwhile; a
  closed finding can be reopened (`findings_service.py:70` against `:10`; seen). A
  failure in Python after the first results of an analytics run commits these
  with the status `failed`. A report whose request dies between the store and
  the COMMIT leaves its object.

Other differences between text and code that were met while modelling and that no
run claims: the docstring of `create_job` (`analysis_jobs.py:121`) does not hold for
custody and multilingual; `communities.py:17` describes the merge order backwards;
the betweenness docstring promises 1 for an isolated node; `classify_status`
(`financial_flow.py:201`) returns a weaker status than `:97` defines; a victim's
loss and a transfer "match by exact Decimal equality", but the code compares
their texts (`financial_flow.py:948`), so 20 and 20.0 do not match; the
direction of a free-text link depends on word order (`relationships.py:21` says
otherwise); `validate_citation` never looks at `deleted_at` (`citations.py:124`);
calls of unknown tools are not audited (`docs/ai/ARCHITECTURE.md:94`) and the
audit rows of a failing chat are rolled back (`tools.py:10`); a stream may end with
neither `done` nor `error` (`ARCHITECTURE.md:100`), and `done` is sent before the
COMMIT. A manifest that is not ASCII does not verify (`PackageManifest.kt:76`), two
files of one content in a collection are refused with 422 for good, and a
phone's `FAILED` collection has no way on.

## What is proved

Every theorem holds for all values of the constants that satisfy the named
assumption of its module (finite sets, positive bounds), checked to the last leaf
by TLAPS. `PROJECT.json` lists the theorems; this is how they go.

* **`AnalysisJobsProofs`.** `TypeCorrect`, `AttemptsAreContiguous`, `StartsOnce`,
  `EndedTasksLeaveTerminalRows` and `SuccessIsComplete` need `JobConstants` alone.
  None of these properties is inductive, so the invariant is built up: types;
  `SessionInv` (a session's count names the newest attempt it can insert, keys are
  unique, every started task has a row); `TaskInv` (a task and its ORM copy agree
  with the row as far as the statements between them allow); `OutputInv` (what a
  task counts as done is on record). Each is proved against *effect lemmas* that
  say what the actions of sessions, tasks and the world change, then one step for
  each conjunct. `ImplementsLifecycle` is the refinement of `JobLifecycle`: it
  assumes `~RunsMayOverrun` and adds `OwnerInv` (a row whose task is alive is not
  late, so nobody clears it). `OneJobAtATime` and `OutputIsSingle` assume
  `OneSession` as well and add `SingleInv` and `NothingSince` (between the look for a
  reusable artifact and the insert, nobody else inserts).
* **`EvidenceVaultProofs`.** Types, then `RInv` (rows keep their keys and owners,
  no two hold one key, a published package is whole) for `ImportsAllOrNothing`;
  `Traced` (every object belongs to a row or to a request that will remove it) for
  `NoUploadOrphans`; `WInv` (how far an import is in its package) for
  `SomeRequestGoesOn`; `SInv` and `LInv` (where the bytes of a row are while a move is
  between its copy and its removal) for `AcceptedBytesSurvive`, `BytesSurvive`,
  `LiveRowsReadable` and `ReadableUntilFirstFault`. The last four assume `Serial`.
  `SomeRequestGoesOn` assumes finitely many imports: if all waited, every import
  would wait for a key of another one, so some set of them would wait for each
  other, and that set is a circle.
* **`AiGatewayProofs`.** A counting argument: when one actor moves, the number of
  holders changes by what it takes or gives (`CountMoves`), so slots, gauge and
  pool stay balanced (`Accounted`). On top of it `Written`: a conversation made by
  a request bears its name, what was flushed stays, no tool call is the answer.
* **`AccessProofs`.** A request that is alone still sees the rows it loaded
  (`StillTrue`, `StillSeen`), so its guard is still true when it commits; a counter
  plus the logins that still owe it a failure stays within the budget plus the
  clients (`WithinBudget`); a denylist entry outlives its token (`DenialOutlives`).
  For the field agent (`OriginalsArrive`): what was sealed is kept under its hash
  (`Sealing`, `Kept`), carried unchanged by a request (`Carried`) and accepted as
  such (`Arrived`).
* **`CaseworkProofs`.** Keys are never rewritten and name what was asked, so
  whoever joins a row asked for the same; a request's copy is never ahead of its row
  (`Relies`) and the rows a status rests on only grow (`Kept`).
  `RunTypes`, `RevocationStopsTheRun` and `ReportsAreTrue` are about the nine
  runners, for any number of items. None of the properties is inductive. `RunInv`
  adds: a run's copy of its row is behind the row only while the job is active, and
  a run that read that it is to stop stops before its first transition
  (`CopyIsTrue`, `BeginsEmpty`); what counts as created is stored or flushed
  (`CountIsTrue`); a single artifact is flushed last and committed with the success
  (`WholeOrNothing`); every record the run has passed by is stored or flushed
  (`PassedAreStored`); and whoever is about to record has just been found to have
  access (`AccessIsFresh`). A program is a sequence made from the set of items, so
  the lemmas before `RunInv` say where in each of the nine its checks, records and
  commits lie; a step then has one case for each kind of entry, not for each of
  the nine.
* **`CaseReviewProofs`.** `MergesLeaveAForest`, `DecisionsTakeEffect` and
  `DecisionsStand` assume `Serial`. None of the properties is inductive: a commit is
  right only because what was read is still so. `Apart` says that no two requests
  share a subject, `RequestOK` what each has read, and `OthersKept` that a step
  which touches its own subject alone (`OnlyOwn`) leaves the others' `RequestOK`
  true; the ingestion touches no match in review and no merged entity.
  `ForestGrows` is the argument for merges: a set that holds the primary has the
  primary, any other set keeps the entity it had. The graph part needs only that
  a merge is never undone (`Grows`).
* **`RuleProofs`.** Theorems of `RulesSpec` and of the rules it calls, for any limits,
  thresholds, text functions and inputs that the assumptions of `RuleCalls`
  admit: ids are keys, lists are finite, numbers are numbers, a file is audited
  after the requests about it. The invariant is small (`AnswerInv`: the answer is
  the one the rule gives for the input); the work is in what a rule answers.
  `EvidenceIsAlwaysJudged`, `AnswersAreInScope`, `SuggestionsAreAlwaysAccountedFor`,
  `ConflictsAlwaysMeetTheMatrix` and `AuditsAreAlwaysHonest` state five of the seven
  invariants of the `rules` run.
  - *Custody.* The audit agrees with a verification for any snapshot, and an
    event the API accepted is never blamed for what was checked (`Accepted` says
    what the route has checked of each event, and constrains nothing else).
  - *Triage.* If enough failed logins lie in one window, the earliest of them
    begins one (`BurstsAreFound`); the bounds cut a list at a place,
    so whatever is cut away lies behind as many that are kept (`FirstIsForemost`).
  - *Matching.* The pairs of a case are finitely many and totally ordered by
    their places; those evaluated are split by their method, which is why the
    counts add up (`EveryPairIsAccountedFor`).
  - *Contradictions.* Without a bound met, every list is whole, so the conflicts
    are the matrix; with one they are a part of it. A later anchor of a pair asks
    about the next name not asked before, so no name is asked about twice.
  - *Report audit.* `DraftsAreRead` says what the parsers of a draft yield: finitely
    many claims, citations, amounts and dates, positions that are numbers, one row
    for each kind and id. The checked citations are the first `MaxChecks` in the
    order of the draft, so at most as many lie in front of any of them. A severity
    is the greatest of finitely many, and every finding of a structural part or a
    citation has the highest one. The figures add up because findings, assessments
    and claims are partitions of finite sets. Of the amounts with the same digits
    a first one exists, and of two with different currencies one differs from it.
  - *Scope.* What a reader is shown of a cross-case discovery is what her own
    cases alone would have yielded (`ShownIsFoundInOwnScope`), a candidate can be
    approved exactly when more than a name joins its cases (`ApprovableIsJoined`),
    and each tool of the assistant answers as on a database without the hidden
    cases (`ToolsNeverTellOfHiddenCases`, one case for each tool).

  The lemmas these keep needing are about finite sets and orders: the first `n`
  of a finite, totally ordered set are `n` or all of them, and a nonempty finite
  set has a least member. Both go by the least counterexample among the subsets
  of a finite set, which is induction without an operator parameter.
* **`CaseIngestionProofs`.** `JobsAreTrue` needs `IngestionConstants` alone: any
  number of files, records, values and requests, all faults. A run has stored
  everything behind its position (`HasStored`, `Progress`). Written rows and nodes are
  never taken back, so what another request sees (`Visible`) only grows and its own
  claims stay true (`Keeps`); a projection of stored rows shows all of a file
  (`SyncShows`).

## What is only model-checked

* Liveness (`JobsFinish`, `JobSettles`, `RequestsEnd`, `RequestsAnswered`,
  `PackageSettles`, `LockoutEnds`): out of the prover's reach.
* Two properties of `MCRules`: `MoneyIsTraced` (of the financial rules) and
  `ReadingsAreTrue` (grounding, the check against the source, complaints,
  translations, links and the network). Each joins several rules, and at least one
  of them folds over sequences or calls itself (traces, components, sentences), so
  that what it computes for every input needs induction over data; `MCRules`
  evaluates each rule on thousands of inputs against a definition that does not
  follow the code's.

## What is not modelled, and why

* Bytes and text: parsers (PDF, CSV, DOCX), regular expressions, the spaCy
  pipeline, prompts, wording, rendering of reports. The models take the tokens
  they produce.
* What a language model answers: a choice among replies of each kind the code
  distinguishes.
* Read-only queries (search, provenance, explanations), single INSERTs (IoT,
  victims, manual timeline events, collections) and the audit trail, which the
  program never reads back.
* The phone's pairing, heartbeat, offline unlock and screens; the React client;
  scripts, migrations and deployment: they keep no state the server relies on.
* Weights and scores that are floats (`network_dna`, `strength`, similarity): a
  model sees on which side of a threshold they fall.

Of what is modelled, two details are left out: a cross-case candidate does not
carry the list of the ids of its whole scope, which the stored payload has beside
it (so `ShownIsOwnScope` says nothing of that list), and the cut at
`max_candidates`.

## Where to go on

1. The rules that only fold (the grounding of an answer, the figures of a
   translation, the totals of `FinancialRules`) in the first-order style of the
   rules of `RuleCalls`, and theorems about them.
2. A composition of `Submissions` with `CaseAnalyses` for one feature, so that a
   cleared row and the task that still works on it meet in one state.
3. Collections and their links from creation, when the server checks them.
