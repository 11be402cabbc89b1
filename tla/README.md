# Verification of claim-check (policy pipeline)

TLA+ models, TLC runs and TLAPS proofs about claim-check: the `policy_pipeline`
service (`src/src/policy_pipeline`), a FastAPI application that ingests expense policy
documents, has an LLM extract Candidate Rules, lets Approvers review them,
publishes immutable Policy Versions, compiles them, tests the compiled rules and
evaluates expense reports against them; its React client (`src/client/src`), on
which all of this is done; and the agent pipeline that works on its issues
(`src/.sandcastle`). Python paths below are relative to `src/src/policy_pipeline`,
TypeScript paths to `src/client/src`, unless they start with another directory.

## 1. Inventory

### How the system runs

**Service.** There is no background work: everything happens inside an HTTP request.
Nearly all endpoints are plain `def` functions, which FastAPI runs in a thread pool;
the uploads are `async def`. A request has one SQLAlchemy session
(`shared/database/base.py:88-96`): autoflush off, `expire_on_commit` off, the
database's default isolation (READ COMMITTED on PostgreSQL). Handlers read
without locking, decide in Python, assign whole JSON payloads, add audit rows and
call `session.commit()` once, at the end. So between the read and the commit any
number of other requests may commit, and a crash before the commit leaves
nothing in the database. Object storage (a directory) is *not* covered by that
transaction.

**Client.** A single page: the shell mounts one section at a time, and what a section
knows is lost when it is left. Components load in effects, most of them without
cancelling an earlier load; an answer is applied by the closure that asked for it,
with the values of the render it was created in. Answers arrive in any order, fail,
or are lost after the server committed. Drawers cover the page for a pointer
only: the keyboard reaches what is behind them while a request is under way.

**Agents.** `npm run agent:run` is a script whose only lasting state is the labels of
GitHub issues; any of its calls may throw.

### Components

| component | state | operations | talks to | what makes it correct |
|---|---|---|---|---|
| rules (`rules/`) | `rules` table: one JSON payload per rule with lifecycle state, value, value as extracted, value last committed by a review, QA flags, re-ingestion category | create (extracted, manual), edit, approve, bulk approve, reject, write categories | audit; read by publishing | a state is reached only by an audited decision about the value it stands beside; what was extracted is never lost |
| policy_versions | immutable snapshots | publish, latest, export, diff | reads and rewrites rules; audit | a snapshot holds only rules a human approved in that form, never changes; the diff is a partition of both sides |
| reingestion | none of its own | upload + extract + diff + categories in one transaction, clean up the stored file on failure | documents, extraction, diff, rules, storage | all or nothing across database and storage |
| extraction | `extraction_runs`, prompt templates, model configurations, section embeddings | registry edits, create run (LLM call in the middle) | documents, rules | a run is pinned to its inputs, its id never reused, its reported status true |
| policy_documents | `document_versions`, `document_sections`, files in object storage | upload, download, delete (tombstone, then purge) | storage, audit | a live version has its bytes; deleted bytes go away; a tombstone is not rewritten |
| compiled_rule_sets | `compiled_rule_sets`, unique per Policy Version | compile, also on demand by an evaluation | policy_versions, audit | one set per version, whoever compiles it; its event with it |
| rule_test_cases | test cases, test runs | generate, edit, disable, enable, run | compiled rule sets | a failing run counts; no case goes away unnoticed |
| compliance_evaluation_runs | evaluation runs | gate on the latest test run, evaluate, aggregate | compiled rule sets, test runs, expense reports | no evaluation past a red gate; the outcome of a row does not depend on the order of the rules |
| compliance_review | decisions | list queue, resolve | evaluation runs, audit | one audited decision per outcome |
| expense_reports | imported reports | import a CSV file in one transaction | evaluation | a file is stored as a whole or not |
| audit | `audit_events` | `record_audit_event` inside the caller's transaction | all | the log agrees with what happened |
| auth | none | bearer token to roles | all | stateless |
| client: rule form (`rules/`) | a draft | build, edit, compare, send | rules | what was typed is sent, what was not touched is not changed |
| client: Candidate Rule queue, page and source (`candidate-rules/`) | list, filter, selection, the rule shown, its source sections | load, filter, select, approve (also in bulk), reject, save, close | rules, documents | a request is about the rule that is shown |
| client: Manual Rules | a form | validate, submit | rules | one Rule per id, nothing typed is dropped |
| client: Rule Test Cases (`compiled-rule-sets/`, `rule-test-cases/`) | cases, counts, the latest run, a dialog | generate, run, edit, disable, enable | the release gate | the gate that is shown is the server's |
| client: Compliance Evaluation section and run catalogue | versions, set, runs, the run shown | load, evaluate, open, page, download | evaluation | an open gate is that of the version selected; every run is reachable |
| client: Expense Reports | list, the report shown, an import | load, open, import | expense_reports | the report shown is the one selected |
| client: Compliance Review | scope, queue, the review shown | load, resolve | compliance_review | a rationale goes to the review it was typed for |
| client: Policy Documents (`policy-documents/`, `extraction-runs/`, `reingestion/`) | register, record, workspace, wizard | register, deposit, archive, download, extract, re-ingest | documents, extraction | a retry does not repeat what was done; an answer goes to who asked |
| client: Policy Versions | list, drawer, the version shown and its set | publish, open, compile, download | policy_versions, compiled_rule_sets | a publication is made and listed once |
| client: shell (`app/`) | principal, token, section, tour | sign in, out, navigate | auth | the session is that of the token |
| client: SearchablePicker | query, highlight, value | search, pick, clear, leave | its parent | leaving a field changes nothing that was not typed or picked |
| agent pipeline (`.sandcastle`) | issue labels | list, pick, claim, implement, review, verify, publish, release | GitHub | a label says what is going on |
| migrations, seed, offline quality corpora, audit page, layout | none authoritative | | | |

### What is hard here

Stale reads rewritten as whole payloads; two publishers with one id; one row
that poisons publishing; a payload that stores the state twice; a file written before the
transaction and deleted after it; an LLM call in the middle of a transaction;
greedy two-pass matching of duplicates in the diff; a unique key that one request
holds until its evaluation ends; test runs that are executed in one order and
committed in another; several rules that match one row; answers that arrive for what
is not shown any more, and retries of what was done already. `PROJECT.json`
lists the forty that matter most at their lines under `hazards`, with the properties that
cover them. Left uncovered, besides those with a note there: a download that races
the purge (`policy_documents/router.py:167`), a prompt template rewritten while a run pins it
(`extraction/registry.py:250`), categories of uncited rules that re-ingestion does not clear
(`rules/store.py:456`), rules of superseded documents that stay in every later version
(`policy_versions/store.py:46`), and overlapping runs of the agent script, which the
code does not defend against.

## 2. Modules

| module | what it is |
|---|---|
| `PolicyDiff` | the Policy Version Diff (`policy_versions/diff.py`) as operators on positions in two lists of rules |
| `VersionDiff` | a diff of any two lists, its properties; EXTENDS `PolicyDiff` |
| `PolicyStore` | the `rules`, `policy_versions` and `audit_events` tables and every request that changes them; EXTENDS `PolicyDiff` |
| `ApprovedPolicy` | abstract specification: values get approved, a Policy Version is published once and of approved values only |
| `DocumentStore` | Document Versions, extraction runs and object storage: upload, download, deletion, extraction, re-ingestion |
| `ReleaseGate` | compiling, test cases, test runs, the gate and evaluation, as concurrent transactions |
| `RowOutcome` | how one evaluation decides a row from several rules and aggregation windows, and how the page explains it |
| `ComplianceReview` | review decisions: the server's handler and the pages |
| `RuleDraft` | the rule form as pure operators (`rules/ruleDraft.ts`) |
| `RuleEditor`, `ManualRules` | the form of a Candidate Rule and of a Manual Rule; EXTEND `RuleDraft` |
| `ReviewCatalog`, `ReviewDetail`, `SourceView` | the queue of Candidate Rules, the page of one, the source beside its form |
| `RuleTests`, `RuleTestEdit` | the page of Rule Test Cases; the text of one edit |
| `EvaluationSection`, `RunCatalog` | evaluations of one Expense Report; the runs of all reports |
| `ExpenseReports` | the Expense Reports page and its store |
| `DocumentCatalog`, `DocumentDetail`, `VersionExtraction`, `ReingestionWizard` | the register of documents, the record of one, the extraction of a version, the wizard |
| `PolicyVersionPages` | list, publication, detail and compilation of Policy Versions |
| `AppShell` | sign-in, sections and guided tour |
| `SearchablePicker` | the field that lists are picked with |
| `SandcastlePipeline` | the agent pipeline |
| `RulePages` | composition of the pages on rules: `ReviewCatalog`, `ReviewDetail`, `SourceView`, `RuleEditor`, `ManualRules`, `SearchablePicker` |
| `CompliancePages` | composition of `RuleTests`, `RuleTestEdit`, `EvaluationSection`, `ExpenseReports`, `RunCatalog`, `ComplianceReview` and `RowOutcome` |
| `DocumentPages` | composition of the shell and the pages on documents and Policy Versions: `AppShell`, `DocumentCatalog`, `DocumentDetail`, `VersionExtraction` (twice), `ReingestionWizard`, `PolicyVersionPages` |
| `MC...` | small instances for TLC (section 3); they add values of constants and nothing else |
| `...Proofs` | TLAPS proofs about `PolicyStore`, `DocumentStore`, `VersionDiff`, `ReleaseGate`, `SandcastlePipeline`, `RulePages`, `CompliancePages` and `DocumentPages` (section 4) |

### A request as two halves

The store modules model a request the way the handlers are written. The
first action reads the tables, runs all checks, and either replies
or leaves the pending writes of the session with the request; `Commit` is
`session.commit()`, all or nothing; `Lose` or `Drop` drops the session. Handlers that
have more than one point between which others may commit have more steps:
`PublishBegin` and `PublishRead` (the id is looked up, then the approved rows are
selected), `ReingestBegin` and `ReingestApply`, in `DocumentStore` the steps
around the file and around the LLM call, in `ReleaseGate` each query of an
evaluation. Every request identity is used once, so a behaviour ends when all are
answered, and a page comes to an end when its bounds are spent: the runs say
`CHECK_DEADLOCK FALSE` for that reason and no other.

### `PolicyDiff` and `VersionDiff`

A rule is its content and two signatures; `SemanticSignature` and `RelaxedSignature`
say what goes into them (statement, class, condition, applicability and
exceptions are one `statement`; its number-normalised form is its shape; six of
the scope dimensions are in neither). The diff is computed on positions in the two lists,
which stand for rule ids: `MatchPass` is one greedy pass over those candidates whose turn it
is, and takes at each `Turn` the `FirstHit` of the pool (the head of the code's deque);
`Diff` is the exact pass followed by the relaxed one over what both sides have left. The
passes are recursive functions over the positions of the candidates. `VersionDiff` picks two
lists, computes their diff in one step, and states what an Approver relies on
(`DiffIsSound`) against a definition that counts signatures and knows no queues.

### `PolicyStore`

| state | code |
|---|---|
| `rules[r]` | the JSON payload of a row: `state`, `value`, `extracted`, `committed`, `flags`, `category` |
| `versions[v]` | a `policy_versions` row: `created_at` (start of its transaction) and the snapshot |
| `audit` | `audit_events`, with the value the same transaction wrote as history |
| `status`, `txn` | where a request is, its uncommitted session |
| `clock` | order of transaction starts, all `created_at` is used for |

Actions: `Extract` (with the rejected structured output), `ReingestBegin`,
`ReingestApply`, `Edit`, `Approve`, `BulkApprove`, `Reject`, `CreateManual`,
`PublishBegin`, `PublishRead`, `Commit`, `Lose`. The edit is the whole handler:
merge of the body, validation, citation and flag reconciliation, the copy "as
last committed", the audit row. A rule's text, scope, applicability and
exceptions are one `Statement`; how a text resolves in a document version is the
constant `Anchor`. Edits with an explicit `null` for a required field (422) are not
enumerated. `CandidateValid` and `RuleValid` are the validators of `rules/models.py`.

`ApprovedPolicy` has two variables, `approved` and `published`. `PolicyStore`
implements it with `approved` read off the audit log (`ApprovedPairs`) and `published`
off the stored Policy Versions (`PublishedPairs`).

### `DocumentStore`

| state | code |
|---|---|
| `versions[v]` | a `document_versions` row: `retention_until`, `deleted_by`; `v` is the request that uploaded it, for the id is a fresh uuid4 |
| `runs[r]` | an `extraction_runs` row, and (history) who wrote it and whether Candidate Rules came with it |
| `bytes` | the files in object storage |
| `audit`, `status`, `txn` | as above |
| `now` | the clock that `retention_until` is compared with |

Actions: `Upload`, `Download` and `ReadBytes`, `Delete` and `Purge`, `Extract`,
`Reingest`, `LoadContext`, `InsertRun`, `LLMAnswers`, `Clean`, `Commit`, `Teardown`, `Lose`,
`Tick`.
`Upload` and `Reingest` put the file before anything is committed; `Purge` comes
after the commit. `InsertRun` waits while another session holds the same
uncommitted key (`KeyHeld`), as PostgreSQL does; on SQLite, which has one writer
at a time, fewer interleavings exist. `Abandon` has the difference between the two
callers of `execute_extraction_run`: re-ingestion rolls back, removes its file and
re-raises, a plain extraction only drops its session, and when the output is
rejected (`LLMAnswers`) commits the run it inserted along with the failure event. When it
raises instead, its session lives on until the teardown of `get_session` closes it
(`Teardown`), which the event loop schedules; upload and re-ingestion are `async` and run on
that loop themselves, database and LLM included (`OnLoop`).

### `ReleaseGate`

| state | code |
|---|---|
| `sets`, `creations` | committed `compiled_rule_sets` rows, and their `compiled_rule_set.created` events |
| `cases` | `rule_test_cases` rows by the request that generated them: the set, whether it is active, whether the evaluator decides it as expected |
| `runs` | `rule_test_runs` rows, with the time they were executed at |
| `evaluations` | `compliance_evaluation_runs` rows, and (history) what was known when each was asked for |
| `req[q]` | a request: what it names, where its handler is, what it read |

`KindOf` says what each request asks for. `Find` and `Insert` are
`compile_policy_version`, which an evaluation runs too: an inserted version id makes
other inserts wait until the holder's transaction ends (`Holds`), then they
fail on the key and are answered 500. The gate reads the active cases and then the
latest run in two queries. A test run takes its time after it read its cases and
before it is committed, so runs commit in another order than they are executed in.
`Drop` is a handler that stops, in every state before its commit.

### The pages

Each page module has the server's side of the requests its page makes and the
component's state hooks, one action per handler, effect and answer. A request in
flight has no value until the server handled it, then carries the answer, and
may fail before or after: a lost answer is a failure after the server
committed. Answers are applied as the code does it: by the order in which they
arrive where nothing cancels an earlier one, and not at all where a cleanup
does. What is shown is an operator of the state (`DetailView` and `Rows` of
`ExpenseReports`, for example), with the guards of the JSX; an action of the user is possible only if
its control is shown and not disabled, with the mouse or, where a drawer covers the
page, the keyboard. Other users act on the server through actions of their own
(`MaxOthers`). Wording is kept where a property is about it, as a message with
what it is about.

`RowOutcome` evaluates a report row by row: `Candidate` is what one rule says of a row or
a window, `Winner` the precedence of `_resolve_row_outcome`, `exception_outcome` the first
exception deciding; the page's citation and arithmetic are operators on the stored
outcome. `SandcastlePipeline` has the script's phases, the stages of each issue's pipeline
and the labels; agents, git and Docker may throw at each step. The publisher is an agent
that opens the pull request while it works (`OpenPullRequest`) and may throw after that, or
end without one; the sandbox is disposed of when its pipeline returns, which may throw too
(`Dispose`). In the wizard of a re-ingestion the lock reaches the drawer by one effect
(`LockEffect`) and its listener by another (`ListenerEffect`), both after the run has begun.

Operators marked `mutant` in the modules are wrong variants of the operator
after them; no action uses them. Each breaks a property (`PROJECT.json`,
`mutants`), which shows that the property depends on that piece of the code.

## 3. Runs

| run | what it checks |
|---|---|
| `policy_diff` | `DiffIsSound`: each candidate and each baseline rule is in exactly one category, matched rules once; a pair has the signature of its pass and no match is missed (`PairsMatch`); the greedy passes agree with a definition that only counts multiplicities; the category of a candidate is the same for every order of the baseline |
| `policy_diff_scope` | finds the divergence of section 6 about scope |
| `policy_store` | type correctness, five invariants, three action properties, the refinement. `PayloadsConsistent`: flags and citation agree, the committed value mirrors the current one. `AuditIsTheRecord`: every state was reached by an audited decision about its value, every event is of an answered request |
| `policy_store_stale` | finds the stale write of section 6 |
| `document_store` | type correctness, four invariants and two action properties with a crash and a clock. `FailuresLeaveTheirTrail`: a failed re-ingestion leaves nothing but its event, a rejected run has one |
| `document_store_live` | under fairness, `AnsweredUnlessStuck` (a request is answered unless a re-ingestion waits, on the event loop, for the run id of an extraction that died) and `DeletedBytesPurged` |
| `document_store_status` | finds the listed status of section 6 |
| `release_gate` | `FailureIsRespected`, `OpenedByApprover`, `CompileAgrees` under every interleaving of seven requests, each of which may stop anywhere |
| `sandcastle` | `LabelsTellTheTruth`, with at most one pull request of a pipeline that did not fail (`PublishedOnce`), and, under fairness, `EveryClaimSettled` |
| `rule_pages` | `RulePages`: queue, page, source, form of Candidate Rules, Manual Rules, picker. `DecidedIsShown`, `FormsSendWhatTheyShow`, `PagesComeToRest` |
| `compliance_pages` | `CompliancePages`: Rule Test Cases, edits, evaluations, Expense Reports, run catalogue, reviews, and `RowOutcome`. `GateIsServers`, `ShownIsOpened`, `OutcomeExplained`, `PagesComeToRest` |
| `document_pages` | `DocumentPages`: shell, register, record, extraction, wizard, Policy Versions. `ShownIsOpened`, `AgreesWithServer`, `DrawersAreSafe`, `PagesComeToRest` |

**Compositions of pages.** The shell mounts one page at a time and a page shares no state
with another, so a composition chooses one initially (`mounted`) and its behaviours are those
of that page's module. State of the same name shares a variable, and the variables
of pages that are not mounted hold `None`. A property of a composition is a case distinction
over properties of the modules, each commented there. Every assumption on a constant
of a page is a conjunct of the composition's `PagesAssumption`.

**Bounds. Diff**: all pairs of lists of up to three rules over five contents that are
equal, equal up to a number, different, or differ in a scope dimension that is
compared or not; two rules of equal signature against one, and a relaxed match that
competes with an exact one, both need three. **Policy store**: four requests, each of
any kind, over two earlier candidates (one uncited), one more extraction (or one
that is rejected), one manual rule, two Policy Version ids. Three requests are
needed for edit-approve-publish to overlap on a row, the fourth for a re-ingestion
or a second publisher in the middle. The requests are interchangeable and
symmetry is used; no property names one. **Documents**: four requests and one run
id, since every conflict between runs is about one id; a horizon of one, so that
a retention date is in the future and then in the past; at most one crash
(`MaxLost`), which is enough for a left-over, and keeps the others running
afterwards. The liveness run has three requests, no symmetry and no crash.
**Release gate**: one version and one slot; a compilation and an evaluation that may compile
are the two compilers, two test runs can be executed and committed in different
orders, generation, disabling and edit change what they test. The two test runs are
interchangeable; no property names one. Enabling, more compilers and more versions
are covered by the proofs, which bound nothing. **Agents**: five issues, one a planning
issue, blockers with smaller numbers, two runs one after the other, two pipelines
at once; lookups may fail, label edits may not (`GhFails`, see section 6).

**Pages**: one or two of what is listed, and as many user actions as an overlap needs,
named `Max...` in the modules and given values in the configuration. The extraction page
is mounted twice with different bounds (`extraction` and `switching`): retries and
other admins in one, another version to select in the other. In the source of a rule one
character takes two code units (`Wide`), before, inside or after a citation; two options of the
picker have one label; of three Candidate Rules one is flagged, changed and blocked, and a
detail is opened twice. On the page of Rule Test Cases two test runs and two changes of the
user overlap with one of another user, so that a list read again arrives while the next dialog
is open and test runs end in another order than they began. Of the three Policy Versions one has enforceable rules, one guidance only, and one nothing to evaluate. A
Policy Version is published once in the run (`MaxPublishes`; a second submission of an id
is in the theorem `ServerAgrees`). Three loads in the wizard (`MaxWizards`) tell the answer to an earlier
wizard from one's own after two were closed. The form of a Candidate Rule has
three extracted rules (complete, bare, with white space) and two edits; that of a
Manual Rule has every way to fill one of its parts, the others complete; the evaluator has
every order of three of five rules, chosen so that caps, windows, exceptions,
currencies and rules that did not compile meet on one row.

**Fairness.** `DocumentStore` has weak fairness on `Proceed(q)` for each
request: a handler that has started runs on, on a thread or on the event loop, and the LLM call it
waits for has a timeout of 30 s (`extraction/llm_clients.py:65-93`). The `Teardown` of a session
is fair only while no handler occupies the event loop (`LoopFree`), of which one server
process, as `policy_pipeline/dev.py` starts it, has one. A re-ingestion that waits there for a run id held
by a session only the loop can close waits for ever: `AnsweredUnlessStuck` says that nothing
else does, and without that exception the property is false (section 6). Nothing makes
a client send a request, and a crash is never forced. `DeletedBytesPurged` is
checked without crashes because it does not hold with one: the tombstone is
committed, the purge is lost, and a retry is refused with 409. What remains true
then is `StoredBytesAccountedFor`, which allows exactly that left-over. On the pages weak fairness is
on the effects of React (the lock of the wizard and its listener among them), on the server
handling what was sent and on an answer or a failure arriving (a fetch settles), never on the user, on other users or on the clock. `PagesComeToRest`,
`[]<>~Waiting`, says that no order of these leaves a page loading for ever. In the agent
pipeline a step that has begun ends (`Script`, `Pipeline`); starting a run is not fair.

## 4. Proofs

The theorems hold for all values of the constants that satisfy the named assumption of
their module (`StoreAssumption`, `DocumentAssumption`, `DiffAssumption`, `GateAssumption`,
`ExtractionAssumption`, `PickerAssumption`, `SandcastleAssumption`, and `PagesAssumption` of each
composition of pages); TLC evaluates each in a run. Where a theorem needs more, its statement says so.

`PolicyStoreProofs`. A commit writes what a request prepared when it read, so no
property of the tables is inductive alone. For types the invariant is `TypeOK /\
SessionsInOrder`: what a session may hold at each stage (a session that selects rows
to publish has a Policy Version id, for example). For the values, `SoundInv` says
four things: approved and published rows are publishable and authorised
(`RowsSound`); so are the rows each session is about to write, where its own
uncommitted audit rows count (`WritesSound`); snapshots of stored versions hold
authorised values (`SnapshotRulesApproved`); so do those not yet committed
(`PendingSnapshotsApproved`). The audit log only grows, so what is authorised
stays so until the commit, and that is why a stale read does no harm here.

`RecordInv` relates tables, payloads and audit log. `RowKept` is what the audit log and the
versions account for of a row, `WriteKept` the same of a row about to be written, with the events
of its own session; `SessionFits` says which of the writes and events a session may hold at
its stage, and `AuditMatchesReplies` that a committed event belongs to an answered
request. That one session's commit does not take away what another one's pending write
rests on is again the growth of the log; it is the reason why `AuditIsTheRecord`
survives stale writes, while "a published rule stays published" (section 6) does not. `FreshWritesFollowLifecycle`
speaks of the request that commits in the step: what another request reads or has read is
neither fresh nor stale then.

| theorem | statement |
|---|---|
| `TypeCorrect` | `Spec => []TypeOK` |
| `SnapshotsApproved` | `Spec => []SnapshotRulesApproved` |
| `ApprovedPublishable` | `Spec => []ApprovedRowsPublishable` |
| `VersionsImmutable` | `Spec => SnapshotsImmutable` |
| `Implements` | `Spec => ImplementsApprovedPolicy`: initial states map to initial states; a commit maps to approvals, to the publication of one version or to a stutter (`CommitImplements`), every other step to a stutter |
| `AuditRecords` | `Spec => []AuditIsTheRecord` |
| `PayloadsAgree` | `Spec => []PayloadsConsistent` |
| `PublishedCarried` | `Spec => []PublishedIsInSomeSnapshot` |
| `ExtractedPreserved` | `Spec => ExtractedValuesPreserved` |
| `FreshWrites` | `Spec => FreshWritesFollowLifecycle` |

`DocumentStoreProofs`. The invariant `Inv` joins the properties with what every session
may hold (`SessionOK`) and relies on in the tables and in storage (`SessionFits`):
the file of a version about to be stored exists, a version about to be
tombstoned is past its date, a version whose file is about to be purged is
deleted, a run id about to be stored is free and held by one session only
(`KeysExclusive`). `RowsCommitted` (a row exists only once its upload was answered)
keeps the clean-up of a failed re-ingestion away from live files. All steps but
`Commit` and `Tick` are instances of one lemma, `SessionStep`. What failures leave is
`TrailInv`: a file belongs to a version, to a session on its way to one, or to a step that was
lost after it, and a rejected run has a failure event in its own session until both are
committed together.

| theorem | statement |
|---|---|
| `TypeCorrect` | `Spec => []TypeOK` |
| `LiveVersionsStored` | `Spec => []LiveVersionsHaveBytes` |
| `DeletionTrail` | `Spec => []DeletionsAudited` |
| `RetentionKept` | `Spec => RetentionRespected` |
| `RunsPinned` | `Spec => RunIdsNotReused` |
| `NoStrayBytes` | `Spec => []StoredBytesAccountedFor` |
| `TrailsLeft` | `Spec => []FailuresLeaveTheirTrail` |

`VersionDiffProofs`. `DiffSound` holds for lists of any length, so it is an induction over data.
The library's induction theorems take an operator as a parameter and cannot be used here;
instead every induction is a proof by least counterexample, for a set of natural numbers
has a least element (`Least`, from the well-foundedness of `<`). `PassedIs` shows that way that the recursive
function of a pass exists. `TurnKeeps` and `PassKeeps` carry along it what a pass has found
after `n` candidates: pairs join first with first, a candidate without a match found its
signature used up. From there `PassCounts` gets the counting definition with `Ranks` (the
rank of a partner is the rank of the candidate), `DiffPasses` and `LeftForSecond` put the two
passes together, and `OrderCounts` (a reordering is a bijection that keeps signatures) makes the
order of the baseline irrelevant.

| theorem | statement |
|---|---|
| `DiffSound` | `Spec => []DiffIsSound`, for any contents and any lengths |

`SandcastlePipelineProofs`. The label of an issue is written by one pipeline and read by
other runs, so `Inv` relates it to the pipeline that owns the issue: `Claimed` (what an active
pipeline relies on), `WorkedOn` (which pipeline or dead run is behind a label), `PublishedFits` (the
pull requests other runs opened for an issue that is listed or worked on are of pipelines that
failed; that of one that did not is labelled or about to be). Each part of `LabelsTellTheTruth` has a theorem under
the assumptions on the environment it needs and no others; the observations of section 6 are
what happens without them. The assumptions are constants of the model, two-valued, and the
run has them as the proofs do: `Overlap` (a run is started while another is active), `GhFails`
(a `gh` call throws), `Misnumbered` (a verifier names another issue than its own), and
`BlockersFiledFirst` (a blocker has the smaller number).

| theorem | statement |
|---|---|
| `TypeCorrect` | `Spec => []TypeOK` |
| `BlockersNotInParallel` | `BlockersFiledFirst => (Spec => []NoBlockerInParallel)`, whatever fails and overlaps |
| `WorkLabelled` | `~Overlap /\ ~Misnumbered => (Spec => []WorkingIsLabelled)`, even if `gh` fails |
| `ClaimsAnsweredFor` | `~GhFails /\ ~Misnumbered => (Spec => []InProgressMeansWorkedOn)`, even if runs overlap |
| `PullRequestsUnique` | `~Overlap /\ ~GhFails /\ ~Misnumbered => (Spec => [](PublishedOnce /\ PublishedIsLabelled))`, wherever pipelines fail, with their pull request open or not |
| `LabelsTrue` | with all four, `Spec => []LabelsTellTheTruth` |

`ReleaseGateProofs`. `Typed` adds to the types what a request knows of itself at each stage
(`AllWellFormed`). For compilations, `Agreed`: of the requests that hold an inserted
version id there is one (`HoldsAlone`), a committed set was made by a request that is
done, and what each request was given is committed or its own. Steps enter the argument
only by what they mean for the sets (`Quiet`, `Finds`, `Refused`, `Inserts`, `Proceeds`,
`Commits`), one lemma each. For the gate, `Respected`: the failing runs a request knew
are committed, and once it is let through a passing run at least as late is committed; times only
grow, so the run the gate took stays a witness. `Opened`: a known case that is not active was
disabled by an answered request, across the payloads that stale requests write back.

| theorem | statement |
|---|---|
| `TypeCorrect` | `Spec => []TypeOK` |
| `SetsAreAudited` | `Spec => []CreationsAudited`: a set exists exactly if its event does |
| `CompilationsAgree` | `Spec => []CompileAgrees`, of which that is a part |
| `FailuresRespected` | `Spec => []FailureIsRespected` |
| `ApproverOpens` | `Spec => []OpenedByApprover` |

`RulePagesProofs`, `CompliancePagesProofs` and `DocumentPagesProofs`. Each page has an
inductive invariant of its own, a lemma that it holds initially (`...Init`), one that every step
of the page keeps it (`...Step`) and one that it means what the page promises (`...Means`).
`PagesInv` is the case distinction over them by `mounted`, which does not change; the variables
of the other pages are not mentioned. What the invariants add to the promises is what is known of
requests under way: which of them will still be heard, and that what such a one carries
is about what is shown.

| invariant | argument |
|---|---|
| `ListInv` | what this client decided, or will see decided, is decided on the server (`ListDecided`); rows and answers under way know of every decision but those that an earlier answer may still arrive after (`ListKnows`, `overtaken` as history); a decision is about the rule of the dialog |
| `ReviewInv` | what an open page has under way is for the rule that is open, one request of each kind at the right time (`ReviewRequests`); the rule a decision moves on to was displayed and is another one (`NextIsDisplayed`) |
| `SourceInv` | as long as nothing was picked the section selected is the one cited. Where no character up to the end of the citation takes two code units, positions in the section are those of the document and of the strip alike, so the strip has the quote (`QuoteInView`); without its context the quote is shown as it is stored |
| `EditorInv` | a saved form is the rule as stored (`CleanForm`): building and reading a draft are inverse on what the server accepts |
| `ManualInv` | a request under way is what the form was built into, says all that was typed and is valid (`Submitted`); storing it drops a currency of one or two letters and nothing else |
| `PickerInv` | an open field nobody typed into shows a text that means the value it held (`Shows`); where no other option shares the texts of that value (`Distinct`), resolving what is shown gives its meaning back, on every way a field is left and whenever the options arrive. Labels of options may collide |
| `EditInv` | what is sent is made of the draft and the case it was opened for; a draft that was left alone makes the same fixture |
| `TestsInv` | as long as no answer was lost or could be overtaken (`clean`, history) what the page shows the server held since the user's last change (`since`, history), or an answer that brings such a list is still to come (`CleanList`); the same of the latest run (`CleanRuns`). Changes of other users and dialogs opened meanwhile do not disturb that |
| `EvaluationInv` | what the section says of a version it was told of that version; a gate that is open now, one an answer under way tells of and one the section took from an answer were open at some moment since it was mounted (`Gates`, with `opened` as history), whatever others did since |
| `ReportsInv` | once the effect has run (`Settled`) a request for a report is for the one selected, and the report that is ready is that one; an import is of the chosen file |
| `CatalogueInv` | what was read of a report has its runs from before the catalogue was opened; the list has all that was read, in order; only the run selected is asked for, once, while it loads; the page of rows shown exists |
| `ReviewsInv` | the page of a review waits for one answer at a time, of its load or of the resolution it sent (`OneAtATime`); a rationale that is sent was typed for its review; an accepted resolution has its decision, and the audit log has exactly the decisions (`Decided`) |
| `RowsInv` | the outcomes so far are those of the first rows |
| `ExtractionPageInv`, `SwitchingPageInv` | a form keeps its run id over failures; an epoch (history) lasts as long as nothing in the form is changed. Runs and submissions of one epoch have one id (`OneId`), the server accepts an id once (`IdsUnique`), only the submission under way is answered into the form (`Waits`), "exists" is an answer about an id that does (`Answered`), and finitely many epochs are in use (`Epochs`), so there is a fresh one. The second is the first with other bounds |
| `CatalogInv`, `DetailInv` | an unmounted drawer holds nothing, and one that uploads has a deposit that will call it back (`RegisterInv`); the version selected is in the tab that is open; a reason that is given was typed for the version being archived (`DialogInv`, `RequestsInv`) |
| `WizardInv` | a wizard has one request at a time, which is for the id and the file it shows (`OwnCall`), what is answered "done" was committed, earlier wizards have smaller numbers (`RunsShown`); the lock may lag behind the run, and a listener exists only while the drawer is open (`LockInv`). That both stay once both are taken is proved step by step (`SafeDrawers`): the effects follow the phase, and closing asks for the lock |
| `PublicationInv` | the lists of ids, loaded or shown, have published ids and each once (`Listed`); what is loaded of a version is of the one selected; a set that is shown or answered is the one the server has (`Held`), and of the version selected or of one whose compilation this page has under way across a change of version (`CrossedInv`, `overtaken` as history) |
| `ShellInv` | the principal is that of the token in storage; the tour runs for somebody, at a step that is among those the roles show (`TourInv`); the sections open with runs of this session |

Sums and orders (`InOrder`: a selection of positions has them in order) are inductions over data,
done by least counterexample as above. The outcome of
one row is the longest of them. Its candidates are, as a set, what the rules say of the row
(`FlattenElements`, `CandidatesAre`); a sum over a window may take its rows out in any order
(`TotalSteps`), so a report read backwards has the same windows (`MirrorSays`); the best
candidate exists (`WinnerIsBest`) and two collections with the same rules and verdicts
agree on it (`BestAgree`), for which rule ids must be distinct: `compile_policy_version` writes
one entry per rule of a snapshot.

| theorem | statement |
|---|---|
| `RulePagesProofs!PagesTypes` | `PagesSpec => []PagesTypeOK` |
| `DecisionsAreAsShown` | `PagesSpec => []DecidedIsShown`, for any characters in the sections and any labels of the options |
| `FormsAreHonest` | `PagesSpec => []FormsSendWhatTheyShow` |
| `CompliancePagesProofs!PagesTypes` | `Spec => []TypeOK` |
| `GateIsHonest` | `Spec => []GateIsServers` |
| `OpenedIsShown` | `Spec => []ShownIsOpened` |
| `OutcomesExplained` | `Spec => []OutcomeExplained`, for any rule sets and reports |
| `DocumentPagesProofs!PagesTypes` | `PagesSpec => []PagesTypeOK` |
| `OpenedIsShown` | `PagesSpec => []ShownIsOpened` |
| `ServerAgrees` | `PagesSpec => []AgreesWithServer`; a form that is submitted again unchanged creates one run, and "already exists" is said of an id that does |
| `SafeDrawers` | `PagesSpec => DrawersAreSafe` |

**Assumptions.** Those on the pages say three things. `None` is not one of the values it stands
beside (in `CaseAssumption`, `TextAssumption`, `RunAssumption`, `TokenAssumption`, `OutcomeAssumption`
and others), which the code has by `null` being no string and no object. Bounds are natural numbers, and an
instance is not empty where the page starts from something (one document version, one
file). The rest is about the data: every rule is of a document; the queue lists a rule once
(`QueueAssumption`); sections have distinct ids and are as long as their characters
(`SectionAssumption` of `SourceView`); extracted rules passed the validators of `rules/models.py`
(`EditorAssumption`); a Policy Version is published once (`IdAssumption`); test cases are finitely many
(`CaseAssumption`); an input's empty text is no number, word or purpose (`TextAssumption`); a set has a rule once and amounts
are natural numbers (`OutcomeAssumption`); a Manual Rule that
is not enforceable has no applicability filled in, since the form resets and disables those inputs
(`ManualAssumption`); an instance with the section of Expense Reports has that of Evaluation Runs, which
it opens (`SectionAssumption` of `AppShell`).

Every property of the runs `policy_store`, `document_store`, `policy_diff` and `release_gate`,
and every invariant and action property of `sandcastle` and of the three runs of pages, is stated by a
theorem. Only model-checked: liveness
(`PagesComeToRest`, `EveryClaimSettled` and the properties of `document_store_live`), since liveness under
fairness and `ENABLED` are out of the prover's reach, and the three runs that find a violation.

## 5. Not modelled

- String processing: parsing of documents and CSV files, heading paths, fuzzy citation
  matching, number normalisation, prompts. Their outcomes are constants or choices.
- Parameters of extraction: prompt templates and model configurations and their
  pinning; the retry attempts of the LLM (one step; only the last result matters).
- What a rule compiles to, which test cases are generated from it and how the test
  evaluator decides one: a version is evaluable or not, a case good or not.
- Of evaluation, conditions other than an upper limit, dates, division by attendees.
- Embeddings, QA flags other than the two about citations, the role checks of the server,
  migrations, seed, offline quality measures.
- Of the client: the figures of the dashboard, the audit log page, the catalogue of
  Extraction Runs, tabs and pages of queues without state of their own, layout and wording.
- `created_at` is the start of the transaction, as `CURRENT_TIMESTAMP` is on
  PostgreSQL; on SQLite it is the time of the statement.
- The stores are not composed: `PolicyStore` and `DocumentStore` are two views of one service
  that meet in extraction and re-ingestion, and the pages have the part of the server
  they talk to. The conclusions of one do not depend on another.

## 6. Where the code and its documentation or tests disagree

With a run of its own:

1. **A stale write un-publishes a rule** (`policy_store_stale`). The lifecycle is
   checked on the row as read and the payload rewritten without a lock or version
   check (`rules/store.py:141-167`). An edit, approval or rejection that read the
   row before a publisher committed writes its old state back.
   `tests/test_policy_versions_api.py:513` asserts that the row is still published
   after such requests; it sends them one after the other.
2. **A change of department is "unchanged"** (`policy_diff_scope`). `_scope_signature`
   (`policy_versions/diff.py:145`) compares four of the scope dimensions and the
   dates; `CONTEXT.md:60` describes a match as one of the scope.
3. **A completed run listed as failed** (`document_store_status`). The status of a run
   is "failed" when any `extraction_run.failed` event has its id
   (`extraction/registry.py:512`). A rejected re-ingestion leaves that event and
   no run, so the id is free for a later run, which succeeds and is listed as failed.

Observations. Each is stated in its module as a definition marked "Violated", next to what
the code does; given to the composition of its page as an invariant or property (restricted to that
page), TLC finds the counterexample, except where other constants are named.

| module | definition | what happens | where |
|---|---|---|---|
| `SandcastlePipeline` | `InProgressMeansWorkedOn` | A gh call that throws while the issues are being claimed ends the script and leaves the issues claimed so far in agent-in-progress. (`GhFails = TRUE`) | `.sandcastle/main.mts:588` |
| `SandcastlePipeline` | `NoBlockerInParallel` | A failed lookup counts as a closed blocker; an issue with a lower number than its blocker is then picked first, and the blocker beside it. (blockers numbered after the issue) | `.sandcastle/main.mts:237` |
| `SandcastlePipeline` | `OnePullRequest` | The publisher opens its pull request and throws, or its sandbox cannot be disposed of: the issue goes back to ready, and a later run opens a second one. | `.sandcastle/main.mts:601` |
| `DocumentStore` | `EveryRequestAnswered` | An extraction dies on an error no handler maps; a re-ingestion with the same run id waits for its row on the event loop that would close its session, and every later request with it. (`FairSpec`) | `extraction/router_runs.py:178`, `reingestion/router.py:27` |
| `RuleEditor` | `ClearedConditionStaysClear` | Switching a Rule away from enforceable puts the operator back to <=, which makes a condition that cannot be cleared in the form and that the server refuses. | `rules/ruleDraft.ts:531` |
| `ReviewCatalog` | `DecidedLeavesQueue` | An older list request that is answered after a decision puts the decided rule back into the queue. | `shared/ui/useAsyncResource.ts:33` |
| `ReviewCatalog` | `RowsMatchFilter` | The rows of an older filter are shown under a newer one when the answers arrive out of order. | `shared/ui/useAsyncResource.ts:34` |
| `ReviewDetail` | `NoUnsavedDecision` | A decision throws away an edit that was typed behind the dialog. | `candidate-rules/CandidateRuleDetail.tsx:829` |
| `ReviewDetail` | `SectionsOfShown` | Source sections of the decided rule arrive after the next rule was loaded and are shown as its source. | `candidate-rules/CandidateRuleDetail.tsx:652` |
| `SourceView` | `CitedTextInView` | One character outside the basic plane before the end of a citation shifts the passage that is shown in context. | `candidate-rules/CandidateRuleDetail.tsx:114` |
| `SearchablePicker` | `AnyUntouchedKeeps` | Two options have one label: a field that holds the second is entered and left, and holds the first. | `shared/ui/SearchablePicker.tsx:405` |
| `RuleTests` | `LatestRunEvidence` | A Rule Test Run finishes before the initial list of runs arrives, which then replaces it by the run before. | `compiled-rule-sets/CompiledRuleSetCatalog.tsx:384` |
| `RuleTests` | `CountsAreOfShown` | A generation finds cases already there, one of them disabled, and the page counts them all as active. | `compiled-rule-sets/CompiledRuleSetCatalog.tsx:158` |
| `RuleTestEdit` | `EditIsAChange` | A rationale alone saves an edit of a case whose approval flag was never set. | `rule-test-cases/edits.ts:30` |
| `RuleTestEdit` | `StoredAmountIsDecimal` | An amount in words is accepted by the dialog and by the server. | `rule-test-cases/edits.ts:71` |
| `EvaluationSection` | `GateOfSelected` | The set of a newly selected version, or the runs of its set, fail to load and the open gate of the version before stays beside the enabled button. | `compliance-evaluation-runs/ComplianceEvaluationSection.tsx:184` |
| `EvaluationSection` | `ListedOnce` | The initial list of runs arrives around the answer of an evaluation and the run is listed twice or not at all. | `compliance-evaluation-runs/ComplianceEvaluationSection.tsx:277` |
| `EvaluationSection` | `ClosedMeansRefused` | A set without test cases closes the button although the server would evaluate. | `compliance-evaluation-runs/ComplianceEvaluationSection.tsx:81` |
| `ExpenseReports` | `ListedOnce` | The initial list arrives around an import and the report is listed twice or not at all. | `ExpenseReportsPage.tsx:475` |
| `ExpenseReports` | `EmptyIsEmpty` | The list fails to load and the page says that there are no reports. | `ExpenseReportsPage.tsx:723` |
| `AppShell` | `ActiveIsVisible` | A viewer opens a run from the dashboard and is in the review section, which is not for viewers. | `app/App.tsx:496` |
| `RowOutcome` | `OutOfScopeSilent` | A lodging row in another currency needs review for a meals rule, and the page says that the category matched. | `compliance_evaluation_runs/runner.py:392` |
| `RowOutcome` | `AnyExceptionExempts` | A row with the evidence of the second exception is reported as missing the evidence of the first. | `compliance_evaluation_runs/evaluator.py:328` |
| `PolicyVersionPages` | `KeptInList` | The refresh after the first of two publications arrives last and drops the second. (three ids, two publications) | `policy-versions/PolicyVersionCatalog.tsx:540` |
| `PolicyVersionPages` | `SetOfVersionShown` | A publication answers while another version is open and compiling; the set compiled is shown with the version published. | `policy-versions/PolicyVersionCatalog.tsx:245` |
| `DocumentDetail` | `LatestIsNewest` | After a deposit the record still calls the earlier version Latest, and shows it. | `policy-documents/DocumentDetail.tsx:104` |
| `DocumentDetail` | `ToldIsShown` | Two changes are refreshed by two loads; the earlier arrives last, and the register lacks a version just deposited. (`MaxActs = 2`) | `policy-documents/DocumentDetail.tsx:75` |
| `ReingestionWizard` | `RunIsNeverClosed` | Escape or a click on the backdrop comes between the start of a re-ingestion and the effects that report the lock and replace the listener: the drawer closes over a running wizard. | `reingestion/ReingestionDrawer.tsx:25` |
| `ReingestionWizard` | `HaltedMeansNotDone` | The answer to a re-ingestion that was committed is lost: the wizard says the process halted and offers to run it again under a new id. | `reingestion/ReingestionWizard.tsx:195` |
| `ComplianceReview` | `QueueIsOfScope` | The scope is changed while the queue loads: the older load arrives last. | `compliance-review/ComplianceReviewCatalog.tsx:77` |
| `ComplianceReview` | `DuplicateIsConflict` | Two approvers resolve an outcome at once: the second is stopped by the unique key and answered as a server error. | `compliance_review/store.py:91` |
| `ReleaseGate` | `GeneratedOnce` | Two generations that both find no test case insert two full sets. (two generations) | `rule_test_cases/store.py:39` |
| `ReleaseGate` | `DisabledStaysOut` | An edit that read its case before it was disabled makes it active again. | `rule_test_cases/store.py:222` |
| `DocumentCatalog` | `CanRegister` | An admin closes the drawer over an empty register and has nothing left to register with. | `policy-documents/DocumentCatalog.tsx:32` |
| `DocumentCatalog` | `RecordIsOfSelected` | A record is opened while a deposit is under way; its answer opens another record in the same instance, and the versions of the first arrive last. | `policy-documents/DocumentCatalog.tsx:47` |
| `DocumentCatalog` | `FirstOrNoted` | Another user registers the same id after the list was read: the deposit becomes a version of theirs. | `policy-documents/RegisterDocumentDrawer.tsx:39` |
| `VersionExtraction` | `HistoryOfShown` | Another version is selected while a load or a run is under way: the answer shows the history of the first version under the second. | `policy-documents/VersionExtractionWorkspace.tsx:28` |
| `VersionExtraction` | `EmptyMeansNone` | The first load of the history answers after the load that follows a run: no runs yet, below the report of the run. | `policy-documents/VersionExtractionWorkspace.tsx:57` |

The comment at each definition, or the message it quotes, names what the code, its tests or its
documentation promise. Most come from two habits: a load that is not cancelled when a newer one starts
(the last answer wins), and a payload read, checked and written back without a lock.

## 7. Plan

1. A second re-ingestion of a document: categories of earlier ones, the baseline
   chosen by `created_at`; composition of `PolicyStore` with `DocumentStore`.
2. `TestGeneration`: the cases `rule_test_cases/generator.py` makes of a rule against what
   `evaluator.py` decides of them, as pure operators. From reading: boundary cases of `<`, `>`
   and `!=` with exceptions expect a violation where the evaluator reports missing
   evidence; a second exception is never reached; limits with fractions of a day
   are truncated; a condition on a boolean with `<=` compiles but makes generation
   fail for the whole set.
3. `Compiler`: one entry per rule, what is left out and why; edits of prompt templates and
   model configurations against runs that pin them.
4. An abstract specification of `DocumentStore` (what is retained is downloadable) and of
   `ReleaseGate` (an evaluation is let through by a pass or an Approver).
5. Refinements between the pages and the stores: the server's part of a page as an abstraction of
   `PolicyStore`, `DocumentStore` or `ReleaseGate`.
