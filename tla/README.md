# Ontology agent: verification

TLA+ modules, TLC configurations and TLAPS proofs for the ontology agent of this
repository: an assistant that answers requests in natural language with Hive SQL,
using an *ontology package* (tables, fields, relations, temporal policies) that
administrators edit as a draft and publish in immutable versions.

Section 1 is the inventory of the system, section 2 the map of the project,
section 3 says for each module how its state and actions correspond to the code,
section 4 what each run checks and within which bounds, section 5 what is proved
and how, sections 6 and 7 what is only model-checked and what is not modelled,
section 8 what was observed on the way.

Paths are relative to `src/`; `management/` stands for `ontology_core/management/`,
`core/` for `ontology_core/`.

## 1. Inventory

| Component | Code | State it keeps | Operations | What makes it hard | What makes it correct |
|---|---|---|---|---|---|
| Draft store | `management/store.py` | `draft.json` and `import_sessions/*.json` of each workspace, lock tables per store object | `create_workspace`, `read`, `commit`, `write/read/consume_import_session` | threads, a store object per request, failing file operations, death between two writes | no acknowledged change is lost; a revision names one text; failures leave the text |
| Batch import | `management/imports.py` | the session of a preview | `preview`, `confirm` | two requests apart in time, session checked before and inside the lock, three writes | applied once, to the draft that was previewed, without duplicates |
| Draft editing | `management/editor.py`, `service.py` | objects, fields, relations, policies, dispositions | update, upsert, delete (cascade), resolve | reads that are old when the commit comes, cascades | the text stays readable; nothing published is removed; the audit tells the truth |
| Publication gate | `management/validation.py`, `models.py`, `builder.py` | none | `validate`, `assert_publishable`, `build` | diagnostics identified by hashes, dispositions that outlive what they were about | what is published passed the checks, was confirmed by a person, and is what the draft means |
| Publisher | `management/publisher.py` | `versions/`, `version-metadata/`, `active-version.json`, two kinds of locks | `publish`, `rollback`, `recover`, `active_version`, `list_versions` | four file replacements and one assignment, edits meanwhile, crashes, damaged directories | pointer and runtime agree; versions are immutable and record what they were built from |
| Runtime, bootstrap | `agent/ontology_shadow.py`, `management/bootstrap.py`, `api/main.py` | the snapshot of the process | `install`, recovery at start | restart after any step | a serving process has the active version if it still loads |
| Package loading | `core/repository.py`, `semantic_parser.py` | none | shapes, parser, automatic policies | graphs may be hand-written; limits on expressions; cycles | a loaded catalog is usable and says what the package says |
| Management API | `api/routes/ontology_packages.py` | none; a service per request | one handler per operation, audit | the wiring: lock tables are not shared | |
| Conversation turns | `api/routes/conversation.py`, `agent/trace_store.py` | messages, in-memory trace, compaction summary | send, poll, delete, generate in a thread | memory-then-database reads, two turns compacting at once, process death, two replicas | every turn ends in an answer or a failure, and a verdict once given stays true |
| Agent loop and tools | `agent/conversation_agent.py`, `conversation_tools.py` | the messages of a turn, pinned snapshot | model calls, tool calls | budgets of calls and tools, publications meanwhile | ends within its budgets, delivers SQL of one version |
| Context engineering | `agent/context_engineering.py` | none | choose the messages to summarise | boundary of the summary | no answer is forgotten |
| Older graph | `agent/orchestrator.py` | the state of one run | nodes and routes | swallowed exceptions, repairs | a delivered script was checked |
| Generation services | `agent/sql_authoring.py`, `metadata_inference.py`, `program_planner.py`, `tools/metadata_lookup.py`, `core/metadata_lookup.py` | one request | bounded tool rounds, one repair | what was forbidden in one attempt and allowed in the next | bounded, one version, no relaxed constraint |
| Planners and compilers | `core/resolver.py`, `planner.py`, `compiler.py`, `program_*.py`, `inference_*.py`, `relational_*.py` | none | pure functions | joins, filters that move, upstream tables | the program computes what the plan says |
| Temporal rules | `core/temporal.py` | none | tokens of a text to partitions | several expressions, ends of months and years | the period is the one asked for |
| Evaluation | `evaluation/runner.py`, `api/routes/evaluations.py` | runs and cases | create, start, run, delete | double start, death of the process, deletion while running | each case once; counters are those of the cases |
| Execution | `api/routes/execute.py`, `executor/` | query history, stored results | submit, task, result | redelivery, resubmission while running | status and result belong together |
| Feedback | `api/routes/feedback.py` | one feedback per message | put, delete | crossing requests | what is stored is somebody's opinion |
| Ontology tables and client | `api/routes/ontology.py`, `tools/ontology_client.py` | comments, descriptions, per-process cache | edit, import, cached reads | DDL that commits implicitly, loads that cross a clear | confirmed edits are visible and whole |
| Upload parsers, SQL comparison, auth, audit, metrics, schema, frontend | | none, append-only or rendering | | | |

How they interact. A route builds an `OntologyManagementService` for each HTTP
request (`get_management_service`), which composes a `FileDraftStore`, a
`BatchImportService`, a `DraftEditor` and a `PackagePublisher`. Editor and
import change the draft only by `FileDraftStore.commit`; the publisher reads the
draft and never changes it. All requests of a process share the files, the
publisher's module-level locks and the `OntologyRuntime`, but not the store's
lock tables. At start, `bootstrap_ontology_runtime` recovers the managed
workspace. A conversation turn or an evaluation case runs
`run_conversation_agent`, whose tools read the snapshot of the runtime of their
process; the older graph reads the ontology tables through the client instead.
Executions, feedback and the ontology tables share no row with conversations.

`PROJECT.json` lists every component with its status, and the hazards of this
code, each at the line where it bites with the properties that cover it.

## 2. Map of the project

| Module | Models |
|---|---|
| `RevisionRegister` | abstract: what `commit` promises |
| `DraftStore` | store and import; implements `RevisionRegister` |
| `DraftEditing` | editor, validation, publication gate, commits that overlap |
| `Publisher` | publication, rollback, recovery, runtime |
| `ConversationTurns`, `EvaluationRuns`, `Execution`, `Feedback`, `OntologyMetadata` | one router each, with the threads and tasks behind it |
| `UnitOfWork` | which columns an SQLAlchemy flush writes |
| `Services` | composition of the five |
| `LiveRuntime` | the ontology each server process answers from |
| `AgentLoop`, `LegacyPipeline`, `ProgramGeneration` | the three ways a model comes to SQL |
| `Deliveries` | their conjunction, with what is common to their properties |
| `Checks` | the first failing check of a list decides |
| `Periods` | temporal rules and conventions of table names |
| `RelationalPlans`, `InferencePlans` | inferred plans: validation, relational plan, two compilers, and what the SQL computes |
| `QueryPlans`, `ProgramPlans` | planner and compiler of queries and of programs of steps, and what the SQL computes |
| `Catalogs` | gate, package builder, shapes, parser, automatic policies |
| `Generation` | composition of `Deliveries` with the algorithms |
| `MC*` | instances for TLC |
| `*Proofs` | theorems, see section 5 |

`DraftStore`, `DraftEditing` and `Publisher` describe the same commit at three
grains: `DraftStore` has its steps, locks and failures; `DraftEditing` its two halves,
the reading and the writing of the text, with nothing to keep other requests out in
between, as deployed; `Publisher!Edit` takes an edit as one step, since a publication
only looks at the revision a text carries. `RevisionRegister` is the atomic commit the
store would be with one store object for all requests. `ConversationTurns!SaveAnswer` takes a run of
`AgentLoop` by its outcome; `Publisher!Install` is what `LiveRuntime!InstallVersion`
stands for; `LegacyPipeline` reads the tables that `OntologyMetadata` edits.

## 3. Modules and the code

### RevisionRegister and DraftStore

A register is a text with a revision: `Create`, `Base` (a caller remembers a
revision that has been current), `Commit` (compare and apply, in one step),
`Acknowledge`. In `DraftStore` each request is one thread and goes through labels
named for what it does next.

| TLA+ | Code |
|---|---|
| `draft`, `session`, `expired` | `draft.json`, the session files, the passing of `expires_at` |
| `lock`, `sessionLocks`, `StoreOf` | `FileDraftStore._locks`: one table per store object |
| `seen`, `held`, `result` | what a thread has read, what its client was told |
| `CreateLock`, `CreateWrite` | `create_workspace` |
| `CommitLock`, `CommitWrite`, `Unlock` | `commit`: lock, read and compare; mutate, validate, replace; release |
| `Preview`, `IssueSession` | `BatchImportService.preview` |
| `ConfirmPrecheck`, `AppendCheck`, `MarkSession`, `ConsumeRead`, `ConsumeWrite` | `confirm` and its mutator `append_all` |
| `ReadFails`, the failing disjuncts | file-system errors |
| `Crash`, `Expire` | death of the process, the clock |

A text of the draft is represented by the mutations in it, each with the revision
at which it entered, and a batch by its set of normalised names. That is all the
properties tell apart: a lost update is a mutation missing from the text.
`overlapped` is history: the requests that were between the check and the write of a
commit or create while another one was. With one store object it stays empty; with a
store for each request, as the HTTP layer has it, two of them may both write the same
revision number, so what depends on a number naming one text
(`OneMutationPerRevision`, `ImportLandsOnPreviewedDraft`) is stated of one store object,
and `LostOnlyInOverlap` says what is left of it otherwise.

### Publisher

| TLA+ | Code |
|---|---|
| `package`, `metadata`, `pointer` | `versions/<v>/`, `version-metadata/<v>.json`, `active-version.json` |
| `runtime`, `server` | `OntologyRuntime` of the process |
| `wsLock`, `coordLock` | `_workspace_locks`, `_coordination_lock` |
| `PublishBegin`, `CommitVersion`, `WriteSummary` | `publish` up to the switch |
| `RollbackBegin` | `rollback` up to the switch |
| `WritePointer`, `Install`, `Unlock` | the switch both share |
| `Recover`, `Crash`, `Damage` | bootstrap, death, loss of a directory |
| `Edit` | a commit of the draft, which takes no publisher lock |

A package is represented by the revision it was built from; which revisions pass
the checks is the constant `Publishable`. `Init` is a server about to start on a
disk that may hold an active version from an earlier life.

### DraftEditing

| TLA+ | Code |
|---|---|
| `objects`, `fields`, `relations`, `policies`, `dispositions` | `WorkspaceDraft` |
| `Import`, `Describe`, `UpsertRelation`, `DeleteRelation`, `UpsertPolicy`, `Resolve` | `append_all` and the operations of `DraftEditor` |
| `EditRead`, `EditWrite`, `EditFail` | the two halves of the commit of an edit, and its failure; `base` is the text a thread has read |
| `ReadImpact`, `ReadPublished`, `ReadDraft`, `CommitDelete`, `RefuseDelete` | the two delete routes: impact, `_editor_for`, the two halves of the commit; `Forget` is the end of the thread |
| `PublishRead`, `PublishList`, `PublishFail` | the gate; the version appearing in `list_versions`; any failure between |
| `Consistent` | `require_consistent_references` |
| `DiagnosticOf` | `stable_diagnostic_id` of the confirmation of a relation |
| `listedAt`, `relied`, `reviewed` | history: when an identifier was first listed, relations published because of a disposition, relations dispositions were recorded for |
| `latest`, `reused` | history: the highest revision written so far, and those written more than once |

The owner and the type of a field are constants: a field's identifier is made of
the names of its table and itself (`parsers._field_id`). Each request has its own lock
table, so a commit keeps nobody out between its two halves: another may come in between,
its text is overwritten, and its revision number is used again. The properties name
these cases (`Overwrites`, `reused`) where they matter, and hold without exception
where they do not: every text is consistent, every cascade complete and every
confirmation between the same fields, however commits overlap.

### ConversationTurns

| TLA+ | Code |
|---|---|
| `conversation`, `summary`, `row` | the conversation, its `context_summary` with boundary, the assistant message of each turn |
| `trace` | `trace_store._traces` of the process that took the turn |
| `Send`, `Register` | `send_message`: question and placeholder in one transaction, then `new_trace`, thread, answer |
| `Prepare`, `CommitCompaction` | `_generate_async` and `ContextAssembler.assemble`: read the history, summarise all but the recent turns, write both columns |
| `SaveAnswer`, `SetOutput` | the commit of the answer, then the trace |
| `Fails`, `RecordFailure`, `ClearTrace` | the exception handler and `finally` |
| `PollMemory`, `PollRow`, `Verdict` | `message_status`: trace first, row second |
| `Delete`, `Crash` | `delete_conversation`, death of one of the processes |

A summary is represented by the turns whose answers it holds; "open" turns are
those without an answer when it was made. A thread's `memory` has the one fact
about its database session that matters: whether it still holds the rows it has
read, since a deleted message is an error in that case and is skipped otherwise.
Polls reach any of the processes. `excused` marks polls that look where the trace
cannot be: at another replica, or before `new_trace`.

### EvaluationRuns

| TLA+ | Code |
|---|---|
| `run`, `cases` | `EvaluationRun`, `EvaluationCase` |
| `AskStart`, `CommitStart`, `IgnoredStart` | `start_evaluation`: read, then set the status and launch a thread |
| `BeginRun`, `InspectCase`, `MarkCase` | `EvaluationRunner.run` up to the call of the agent |
| `PackageChanged`, `DecidedCase`, `CompleteRun` | after the call, each one commit |
| `LoseRunner`, `DeleteRun` | death or a failing commit, `delete_evaluation` |

`doubled` is history: a start request launched a thread while another one worked, since
both saw the run pending. Nothing in the module keeps such threads apart, and no
property leaves their behaviour out: an undecided case of a completed run is in the hand
of the second thread or was left by one that died; a decided case changes only by a
thread that took it up before. What the design document asks for, that a repeated start
executes nothing twice, is `RepeatedStartIsIdempotent`, which `repeated_start` refutes.

### Execution, Feedback, UnitOfWork

`Execution`: `SubmitTask` and `EnqueueTask` are `create_execute`; `StartTask`,
`ExecuteTask`, `StoreTask`, `FinishTask` and `FailTask` are the commits of
`execute_query`; `Redeliver` is the queue with late acknowledgement; `eager` is the
mode without Redis, where the task runs in the request. A result is its number of
rows and goes to the one file of its record or to a row of its own (`InFile`).
`Feedback`: `ReadFeedback`, then one of `InsertFeedback`, `UpdateFeedback`,
`DeleteFeedback`, which meet the unique index or a row that is gone.
`UnitOfWork!Flushed` is what both depend on: an object is written back only in the
columns whose value differs from the one that was loaded. The isolation is
PostgreSQL's READ COMMITTED.

### OntologyMetadata

`AlterComment` and `ClearCache` are the comment routes; `WriteDescriptions` and
`CommitDescriptions` the field descriptions; `AlterByImport` and `FinishImport` an
import, whose DDL commits the rows written before it; `UseCache`, `LoadTables`,
`StoreTables`, `ExpireCache` are `_cached` of the client, per process. All comments
are one number that grows with each edit.

### Services

The five routers side by side. They share neither rows nor memory, so a behaviour
uses one of them (`service`) and leaves the others where they are; section 5 turns
that argument into a theorem about each.

### LiveRuntime, AgentLoop, LegacyPipeline, ProgramGeneration, Deliveries

`LiveRuntime` gives each process an installed version that grows at any moment.

| TLA+ (`AgentLoop`) | Code |
|---|---|
| `Begin`, `ModelFails`, `ModelAsks`, `ModelReplies`, `CallsExhausted` | the loop of `run_conversation_agent` and each outcome of a call |
| `ToolWithoutCatalog`, `ToolReads`, `ToolChecks` | the tools, by whether they touch the catalog and the CTE permission |
| `WithCatalog`, `Permitted`, `SnapshotUnchanged` | `ConversationTools._load_catalog`, `validate`, `check_snapshot` |
| `ModelDrafts`, `ModelDelivers`, `CheckDelivery` | an answer with SQL: refused, accepted, compared with the live snapshot |

| TLA+ (`LegacyPipeline`) | Code |
|---|---|
| `GetTtlDefinition`, `PrepareFields`, `DeriveRules`, `BuildWithModel`, `BuildFromTemplate` | nodes of `_run_legacy_agent`, with the retries inside them |
| `ValidateSyntax`, `ValidateSemantics`, `FixSql`, `FormatOutput`, `FormatFailure` | the rest of the graph with `route_after_7a`, `route_after_7b`, `route_after_fix` |
| `blind` | history: `_traced` swallowed an exception of the semantic check |

| TLA+ (`ProgramGeneration`) | Code |
|---|---|
| `job.kind` | `SqlAuthoringService`, `MetadataInferenceService`, `AdaptiveProgramPlanner` |
| `CallFails`, `CallAsksTools`, `CallAnswers` | `generate_with_field_lookup` and the clients under it |
| `SearchMetadata`, `LookupFields`, `CheckScript` | `FieldDetailLookup` and the tools of authoring |
| `BeginJob` | the snapshot and the first candidates, of any number (`metadata_candidates.py`: the limit is soft for the members of a family) |
| `JudgeScript`, `JudgeInference`, `JudgePlan`, `CompareSnapshot` | what each service does with an answer, its one repair, the comparison of snapshots |

Whatever a model may answer is a nondeterministic choice. A script is what the
checks look at; in the older graph that is its fields, since the tables after FROM and
JOIN are added to what is known. `grown` is history: a search has added an object to
the context of the request, which only it does under the limit of
`FieldDetailLookup.search`. `Deliveries` is the conjunction of the three specifications: they
share `installed` and nothing else.

### Periods, QueryPlans, ProgramPlans

`Periods`: `Span` is what one expression of a text means, `Resolved` what
`temporal.py` makes of all of them, property by property, with business dates and
defaults; `PolicyOf` the convention of table names. Recognition by regular
expressions is left out: a text is the sequence of its time expressions, each with
the property next to it; what of them is recognised depends on the grain of the table.
For a partition by month only the patterns of months are tried: `PassedOver` are the
days in digits, their ranges, today, yesterday and the day before, which give no token
and no error; a day written out (`written_day`) gives its month, and so does one without
its year (`yearless_day`), in either grain. A written day that does not exist raises an
error that is not the one of a period (`NotADate`), which fails a program instead of
asking back (`PeriodFailure`).
`QueryPlans`: `GetConcept`, `ResolveProperty`, `DirectRelation` (`resolver.py`),
`PlanText`, `PlanStep` with every refusal in the order of the code (`planner.py`),
`Compiles`, `Conditions` (`compiler.py`).
`ProgramPlans`: `OrderSteps`, `BindStep`, `FinishBinding` (`program_validation.py`),
`CompileProgram` (`program_compiler.py`, with the references that name no concept of
the step or two: `RefsHold`), `CompileText`, `ResolvePeriod`.
What a compiled program computes is the recursive `Run`, statement by statement over
a small warehouse; it is compared with `StepsAsked` and `TextAsked`, which are
written from the meaning of plan and text and not from the code.

### RelationalPlans, InferencePlans

`RelationalPlans` has the contract of a plan (`validate_relational_graph`), its
compilation into statements and their evaluation. `InferencePlans`: `ValidateDraft`
(`inference_validation.py`), `AddJoin` and `FinishPlan`
(`inference_to_relational.py`), `CompileStatement` (`relational_compiler.py`), and
`DirectRows` for the older `inference_compiler.py`. `Meaning` is the reference: the
joins of the answer, in the directions it gives them, on the rows inside the period.
All joins equate keys, so one key at a time is enough: a world says of each table
whether it has no row of the key, a good one, one the filters exclude or one outside
the period.

### Catalogs

`CheckDraft` is `assert_publishable` with every diagnostic, `BuildPackage` the
triples of `PackageBuilder`, `ValidateShapes` the SHACL shapes that count,
`LoadCatalog` the parser: each kind of element with its violations, conditions of
rules with the limits on depth, nodes, items and edges, the credential scan,
duplicates and dangling references, then `WithAutomaticPolicies`. `MeaningOf` is
what a draft means as a catalog, written from the draft's model. Graphs are sets of
triples, since that is what the parser gets; graphs written by hand are inputs too.

### Generation

The pipelines of `Deliveries` and the four algorithms side by side; a behaviour uses
one (`pipeline`), while newer ontologies are installed.

## 4. Runs

| Run | Shows | Bounds |
|---|---|---|
| `per_request_store` | with a lock table per request, as deployed: an acknowledged change is lost only by commits that overlap; tokens of applied imports are spent, no duplicates, refused requests leave no trace | four requests of any kind, two overlapping batches, one crash |
| `shared_store` | with one store object: no lost update, a revision names one text, imports land on the text that was previewed, refinement of `RevisionRegister`, every request answered | three requests, one crash |
| `lost_update` (violation) | with a lock table per request an acknowledged change disappears | two requests suffice |
| `failed_confirm` (violation) | `confirm` reports an error and the batch is in the draft | one preview, one confirm |
| `publisher` | pointer and runtime move together, versions record their revision, publications are what was reviewed, failures keep the active version, identifiers are never reused, restart recovers, all operations end | two workspaces, two versions, two operations, two revisions, one crash, one damage |
| `stranded_version` (violation) | a version without metadata can be neither published again nor rolled back to | one operation |
| `draft_editing` | the draft stays readable; confirmations hold between the same fields; a published identifier is lost only by a commit that overwrites what it has not read, in the race with its own publication, or at a revision number used twice; the audit is exact but for such numbers | two objects, three fields, one relation, one client that edits and one that deletes, four revisions, any number of publications, commits in two halves |
| `reversed_relation` (violation) | a relation turned round after its confirmation is published as confirmed | as above |
| `services` | verdicts about turns are final, summaries forget no answer and leave the recent turns raw, completed evaluation runs account for their cases, decided cases stay, finished records load what they claim, feedback is one client's, edits of the ontology tables stay visible and whole, everything settles | four turns of which two are history, two processes, one crash; two cases and two starts; three tasks, results around the file threshold; three feedback requests; two editors, two readers, two fields, two servers |
| `repeated_start` (violation) | two starts that both see the run pending decide a case twice | one case, two starts |
| `incompatible_grain` (violation) | a day in digits is forgotten on a table by month, and the default takes its place | four months, requests of one expression or none |
| `generation` | what is delivered belongs to one version and was checked, all budgets hold, programs compute what their plans say, periods are the ones asked for, packages mean their drafts, every request is answered | see below |

Why the bounds are enough to be interesting. Four requests of the store give two
previews and two confirms, or an import between two edits, with every interleaving of
their steps. In `publisher` two operations can meet in one workspace (its lock), in
two (the coordination lock and the single runtime), repeat a version identifier, or
follow each other across a crash. In `draft_editing` four edits are enough to
import, relate, confirm and change, or to edit between the halves of a delete; the two
clients can commit from one text and overwrite each other. In `services` two turns can compact at once over
two earlier answers, on two processes of which either may die; three tasks are two
submissions and a redelivery, or one delivered twice more; three feedback requests
are two crossing puts and a delete.

In `generation` the agent and the services have two calls and two tools, rounds and
lookups (the code: 9 and 16, 3 and 4), so that both budgets can be used up, met
exactly and overrun; a batch may exceed what is left; two newer versions can come.
The older graph has its own three repairs and 25 nodes, and tables with one or two
names. Inferred plans are all trees of joins of three kinds over two tables and a
family, with filters before and after the join, and one deviation for each refusal
(about 600), on 20 worlds. Programs are up to three steps in every order, with each
choice of upstream and columns, 8 ontologies, 60 worlds. Periods are about 360
texts of none to three expressions, for two grains and three days at the ends of a
month, of a year and of a leap February, over a calendar of seven months. Packages
are about 150 drafts and 740 hand-written graphs, each argument list read in three
orders, with limits small enough to be met and exceeded.

The passing runs have from about 100 thousand states (`shared_store`, with liveness) to
1.55 million (`draft_editing`); `per_request_store` has 690 thousand, `services` 237
thousand, `generation` 225 thousand.

Each property has a mutant: a change of one mapped definition, the way a plausible
bug in that code would, under which the run finds the property violated. Constants
are model values; symmetry is used only over requests and over two fields that are alike in every
constant, and only where no liveness property is checked. Deadlock is not checked: in each model all requests end, and
the bounds on crashes, damage and revisions leave nothing to do.

### Exceptions inside properties

Some properties hold except in situations the code does not handle. The exception is
named in the property, is a history variable of the module, and is as narrow as
TLC allowed: `excused` polls and `open` turns (`ConversationTurns`), `doubled` and
`abandoned` runs (`EvaluationRuns`), `overlap` and `lost` tasks (`Execution`),
`crossed` feedback and cache entries, a `blind` semantic check (`LegacyPipeline`),
commits that were `overlapped` (`DraftStore`) or whose revision was `reused`
(`DraftEditing`), times a table by month passes over (`PeriodIsTheOneAsked`) and a step
that reads columns its upstream did not select (`ProgramMeansIntent`). Where a document
promises that the exception does not happen, a violation run states that promise
without it, or the end of Findings says so. Crossed feedback, crossed loads and the blind check are promised by nobody;
`PROJECT.json` lists these hazards as not covered.

### Fairness

`FairSpec` of `DraftStore` and `Publisher` has weak fairness of each thread's
next step: threads of the server's pool are scheduled, and a thread waiting for a
`threading.Lock` that stays free gets it. `Publisher` adds weak fairness of
`Recover`, the restart of a dead process by its supervisor (the backend Deployment
restarts its containers). `Services` has it for each generation thread, evaluation
thread and task; `Generation` for the turns of the agent, the nodes of the older
graph and the steps of a service: the thread of a request runs on, and each call of
a model has a timeout, hence an outcome. No client, clock, crash, damage,
redelivery or publication is obliged to act. The algorithms carry no fairness: only
what they give is looked at. Weak fairness suffices since each lock is held for
finitely many steps and the number of requests is finite.

### Findings

The six violation runs check sentences of the design documents under
`docs/superpowers/specs/`; `PROJECT.json` quotes them.

1. `lost_update`: the revision is compared "inside the workspace lock"
   (package-management design, section 8), but that lock belongs to a store object
   that lives for one request.
2. `failed_confirm`: "a failure of any step leaves the draft unchanged" (section
   7.3), but the session is consumed after the draft was replaced.
3. `stranded_version`: a version whose activation failed is "kept for a later retry"
   (section 10.1), but without metadata it can be reached by no operation.
4. `reversed_relation`: direction, cardinality and label need confirmation
   (section 9.2), but the identity of the diagnostic is a *set* of identifiers.
5. `repeated_start`: "a repeated start executes nothing twice" (evaluation design), but
   the status is read and set in two steps, and two starts launch two threads.
6. `incompatible_grain`: "a time the user states has priority over the default", and one
   whose grain does not fit is refused (temporal design, decision 4 and section 9), but a
   day in digits on a table by month is passed over without a word.

Two more sentences differ from the code. The models contain them, no run of their own
shows them. Deletes of published identifiers are to fail as a whole (cascade-delete
design), but what is published is read before the commit and publication does not move
the revision: the second exception of `PublishedLostOnlyInRace`. After a restart of the
service a run can be started again and continues with its pending cases (evaluation
design), but `IgnoredStart` is all there is for a run that reads as running, and nothing
sets it back when its thread died: the `abandoned` of `RunsEnded`.

## 5. Proofs

All theorems hold for every value of the constants under the assumptions named in
the modules: placeholders differ from what they stand for, bounds are numbers,
constant functions have the right domains, and sets are finite where the code or a
property counts their members.

**DraftStoreProofs.** The argument goes in layers, each an invariant of its own
that uses those before it.

- `TypeInv`: types, and that a thread is only in phases of what it was asked for,
  and a confirm names an answered preview (`TypeCorrect`).
- `HistoryInv`: the text on disk *and the text in the memory of every thread* are
  complete histories. A commit may replace the file by a text based on an old
  read, so nothing of this kind is inductive for the file alone.
- `SessionInv`: how the session on disk, the copy in a thread's memory and the text
  relate through mark, replacement and consume (`AppliedTokensSpent`).
- `ToldInv`: a mutation in any of these texts was not answered with a failure, but
  for an import whose session could not be consumed; it needs that a thread still at
  work has met no failure (`FailuresLeaveNoTrace`).
- `NamesInv`: each of these texts is free of duplicates, and a confirm about to mark
  or write has a batch that is fresh in the text it will replace (`NamesAreUnique`).
- `OverlapInv`: two threads inside a commit at once have both been noted; what a thread
  has written alone is in the draft *and in every text another thread may still write
  in its place* (`LostByOverlapOnly`). All these hold under any wiring of stores.
- `LockInv` and `AckInv`, under `SharedStore`: the holder of the lock has read the
  current text, and what was acknowledged is in it, at the revision its client was
  told (`SharedStoreLosesNothing`, `HistoryComplete`). `PreviewInv` and `PrefixInv`, under
  `SharedStore` too: a session names the revision its preview has read, and a text that
  was read is what the draft was at that revision (`ImportsOnPreviewedDraft`). From
  `LockInv` and `AckInv` each step maps to a step of the register or to a stutter
  (`SharedStoreIsRegister`).

`SharedStore` is exactly what the HTTP layer does not provide; TLC's `lost_update`
shows that the last four theorems need it, and `LostByOverlapOnly` says how much is lost
without it.

**PublisherProofs.** `TypeInv`, `LockInv` (a thread between taking and releasing a
lock holds it), `VersionInv` (metadata records the package; a thread that has passed
the summary has its revision recorded; before it nothing is recorded under its
version) and `SwitchInv` (a thread about to install wrote the pointer; only
operations that have switched are named by pointer or runtime) give
`PointerAndRuntimeAgree`, `RecoveredWhenPossible`, `ActiveListed`,
`VersionsRecordRevisions`, `PublishedReviewed`, `FailureKeepsActive` and the action
property `AnnouncedNeverRebuilt`. Damage changes a package but not the revision it
would load with, which is why `VersionInv` survives it.

**DraftEditingProofs.** Commits overlap freely here, so each part of `IInv` speaks of the
draft and of the texts threads have read. It adds to the types: `RevisionInv`, a thread
commits from a revision that has been written, and no client quotes another;
`ReadableInv`, the draft and every text a commit has read are consistent; `ReviewInv`,
every disposition in one of these texts and every relation in a running or finished
publication goes back to a review; `RaceInv`, what a delete about to commit does not
know to be published was listed at the revision it quotes, as long as that revision has
named one text and the text it has read is still the draft; `ImpactInv`, the impact a
delete has counted is true of the one text of the revision it quotes. `Reuse` is the
lemma behind the last two: whoever writes a revision again makes it a reused one, so one
that is not still names the text it named. Theorems: `Readable`, `CascadesComplete` (which no run checks; a lemma about the operators: removing an
object or field with all that touches it keeps references consistent),
`EndpointsReviewed`, and the action properties `LostOnlyInRace` and `AuditIsExact`,
whose exceptions are commits that overwrite a text they have not read and revisions
used twice.

**ServicesProofs.** Turns: `TurnsInv` relates, for each turn on its own (`Sound`), the row, the
thread, the outcome it remembers, the trace, the pending poll and the verdicts told:
a poll that saw no trace means the thread is over, one that saw a failure means the
row can no longer become a success. For the summary, `WholeFor` is stated of the
stored one *and* of the one in the memory of every compacting thread, since either
may be written over the other, and of the number of messages sent so far, which only
grows. The boundary is the last of a finite set of numbers, which exists by the
least-number principle. Theorem: `TurnsAreSound`.
Runs: `EvaluationInv`: as long as no second thread was launched one works
at most, the run reads as running, and the cases behind it are decided (`OneRunner`,
`InHand`, `SoundAlone`). For any number of threads `BehindIsAccounted` says that each case
behind one of them is decided, or in the hand of another, or was left by one that died. `ExecutionInv`: as long as no two tasks executed at once, what the task
has loaded and stored is still the record's (`OneExecution`); and a record that is
not finished has a task that will finish it (`SomebodyResolves`), where "will"
depends on what the task has *loaded*, as an unchanged column is not written.
Theorems: `EvaluationRunsAreSound`, `ExecutionsAreTrue`.
The rest: `FeedbackInv` and `MetadataInv` (a load that is under way has
what its process has confirmed or knows that it was overtaken; each field has one
description, whose editor has written all of its fields). `ServicesAreIndependent`:
a behaviour of the composition is a behaviour of each service, because a step of
another one leaves its variables alone; with it every theorem about a service becomes
one about `Services`, and the runs' properties are proved as stated there.

**DeliveryProofs.** The agent: for each turn on its own, whatever is installed meanwhile:
`Proceeding` while it is under way (facts are of the pinned version, the permission
is what all prohibitions left, one trace step per call, pending tool calls fit the
budget), `Closed` when it is done. Theorem: `TurnsAreAccountable`, all four safety
properties of the agent.
The older graph: `PassedSoFar` (the script at hand passed the
checks behind it) and `LegacyProgress` with the ranking functions `StepsBefore` and
`CallsBefore` (how many nodes and calls lie before a node at the r-th repair). The
services: `ShownContext`, `Judged` and `Counted` while open, `HandsOut` when closed;
`Judged` is needed because a repair starts under the permission that is left.
Theorems: `DeliveriesAreSound`, and `BudgetsAreKept`, which assumes
`8 + 3 * MaxFixes < NodeLimit`: the graph library's limit leaves room for the
repairs (17 < 25 in the code). That the context of a request stays bounded is
shown from the first search that extends it on: the first candidates may be more than
the limit, and no search then adds any. Both are about `DeliverySpec`, the conjunction of the
three specifications.

**No induction, but least numbers.** A set of numbers that is not empty has a least one
(`LeastNumber`, in `DeliveryProofs`), from the well-foundedness of `<`. The provers here cannot instantiate a
theorem that takes an operator, so there is no induction over an operator; but a
statement about all steps of a recursive *function*, or about the number of times a set
was extended, has a first step at which it fails, and no step is the first
(`CountingUp`: a set with 0 and all successors is all of `Nat`). `CatalogProofs`,
`InferenceProofs` and `GenerationProofs` argue that way, and the models have recursive
functions and no RECURSIVE operator. A function that a definition builds by recursion is
first shown to exist and to take its steps (`LayersExist`, `TablesExist`, and for each
loop of the plans a lemma `ThoseSteps`, `SelectSteps`, `OrderedSteps`, ...).

**CatalogProofs.** The inductive invariant `PackageIsRead` says where a catalog comes
from: a loaded one was parsed, in some order of the triples, from the graph at hand
without a complaint, and that graph is well written. `PackageAssumption` says so of a
graph written by hand only (finite, of terms, without the short name reserved for
derived policies). Of a draft it says `WellDrafted`, what `models.py` demands and no
diagnostic asks: finitely many elements, physical names and platform not empty, flags
that are Booleans, a known grain for each policy. That the base URI makes stable URIs is
assumed too, by the form of `Uri`. Of the conventions it says that no predicate
`PackageBuilder` writes is a credential's, and that an upper case is not empty.
Lemmas about the parser, for any graph and order:

- `NothingWrong` and `WhatIsFound` take the parser apart: no complaint means none by
  any part, and what is kept is what each part found. For each kind of element, what
  an empty list of complaints says about it (`ConceptsAreFine` to `PoliciesAreFine`).
  From these `LoadedReferencesMeet`; `LoadedNamesDiffer`, which also needs that the
  automatic policies do not bring a name that is taken, and `LoadedPoliciesFit`, that
  they leave alone a table which has one.
- `LoadedRulesSay`: the reader of conditions keeps what it has read and a stack of
  open calls. `Reading` is its invariant: whatever is kept or was given to an open
  call says what its node says in the graph, where `IsSaying` gives that meaning by
  depth, without an order. Each kind of step preserves it (`CallReads`,
  `ReturnReads`), so a reading that ends says what the graph says
  (`ReadsWhatIsSaid`), in whatever order the triples come and wherever two conditions
  share a part. That a budget ran out is the one thing that depends on the order.
- `LoadedHasNoCredentials`: the scan follows what describes a source or a mapping, one
  step at a time with a limit. Without a complaint it ended before the limit, so what
  it has seen is closed, and everything reachable was looked at (`ScanIsComplete`).

Theorem: `PackagesAreUsable`.

The second half is about packages built from a draft. `Parts` names every element a
package describes together with what is said of it, and the lemmas follow a draft
through the program:

- The gate: a draft without a diagnostic is `Accepted` (`GateAccepts`): what
  has to differ does, references meet an element of the draft, a relation in use is a
  confirmed one, and a table in use whose name implies a period has one field for it.
- The builder: a package is the union of its parts (`PackageOfParts`), no two parts
  are of one element (`PartsDiffer`), so that of an element exactly what its part says
  is said (`WhatIsSaid`), and the elements of each kind are those of the draft
  (`ConceptsOfDraft` to `MappingsOfDraft`). What is built is well written
  (`WrittenIsWell`).
- The shapes hold of it (`ShapesAreKept`), each element reads as what the draft means
  by it (`ConceptIs` to `PolicyIs`, then `ConceptsRead` to `PoliciesRead`), and the
  parser has nothing to complain about (`NothingIsWrong`).
- The policies: those a catalog derives from the names of its tables, as it is loaded,
  are those the draft is published with; a table whose name implies none keeps the one
  declared for it (`AutomaticIs`, `BoundsAreKept`). Together: `MeaningIsLoaded`.

The invariant `DraftIsKept` carries this along a package: once past the gate the draft
has no diagnostics, once written the graph is the one built from it, and a refusal
came from the gate. The steps that could break the last are refusals of the shapes and
of the parser, which the lemmas rule out. Theorem: `PackagesMeanTheirDraft`.

**InferenceProofs.** What is compiled from an answer of the model has the rows the answer
asks for, with either compiler. `PlanInv` is the invariant, by the phase of the plan:

- while joins are added, `TreeHolds`: every node is `WellMade`, the sources are all
  there, the unused joins are joins of the answer, and the joins used stay within the
  sources visited. `TreeRows` says what has been computed: in every world, and for *any*
  assignment of rows to the nodes that respects them (`Valued`), the current node has
  the rows of `Partial`: the assignments to the visited sources that agree with the
  joins used, each in its period and with the filters of its source.
- while it is compiled, `StatementsHold`: the result node has the rows of `Meaning`, and
  the statements are those of the first materialized nodes.
- when it is done, `PlanCompiled`. A refusal keeps the invariant and claims nothing.

It is not enough to follow the current node: the columns carried along have to be those
of the visited sources, without the ones an anti join only looks into, or a test after
the joins could read a column that is not there. The lemmas, along the way of an answer:

- Lists and plans: a list in which everything comes after what it needs (`InOrder`) is
  kept by what the compiler does to it: dropping repetitions, taking the part in one
  WITH clause (`OnceInOrder`, `ThoseInOrder`). So `_compile_select` finds each node it
  needs, once and before its use (`NeededInOrder`), and the statements compute the
  values of the nodes (`SelectGives`, `ExecuteGives`), which exist and are unique
  (`ValuesExist`). What the contract checks gives the premises (`ContractLinks`).
- Sources: what the scans, their filters and the unions of families give are the rows
  that pass (`ScanValue`, `SourceValue`), because a test reads columns of one source only
  and these tell it the same in every join it is part of (`ItemSame`, `TruthSame`).
- A join (`JoinGives`): for each of its three kinds, the assignments after it are those
  before it extended as the answer says. For a left or anti join this needs that its
  right side is joined once and starts nothing (`JoinsMakeSense`, `EndsOfJoins`), or a
  test could be made on rows that are not matched yet.
- The end (`FinishedMeans`): when all sources are visited and all joins used, the filters
  that are left hold exactly the rest of the meaning.

The older compiler keeps another invariant, since it makes the tests of the sources that
must be there in WHERE, after all joins, and since an anti join may be a NOT EXISTS in
WHERE and no join at all. Its order takes each join once (`OrderIsGood`, and `AllTaken`
by the count that it checks). Its rows before WHERE are `LooseFrom`: assignments with
rows of any period and filter for the sources that must be there, and, for a right side
that is only looked for, those that match. WHERE then leaves those that are meant
(`LooseMeans`, `MeantIsLoose`), where a row whose joined side is NULL is dropped by any
test on it but IS NULL. Theorems: `PlansAreMeant`, `CompilersAgree`, for every world and
not only those that are tried. `AnswerAssumption` is the shape of an answer that
the models of the response demand (lists, the three types of joins, the two scopes, a
filter has a leaf), that tables and families have different references (a
family's is `family.` and a digest of its members), and that no table is called `Null`, the row that is not
there.

**GenerationProofs, the programs.** A program that compiles gives what was asked for, in every state of
the warehouse, for every ontology and every draft or text. `ProgramInv` says at each stage
what is known: the draft is one the models accept; the bound steps are the first of the
order, each planned without a refusal and each with its sources bound before it; the
statements are those of the bound steps and read only what was created. It is not enough
that the last step was planned well, since its table is computed from the others: hence
the invariant about all bound steps. The lemmas, along the way of a draft:

- The order (`OrderedAreSteps`): `Ordered` holds steps of the draft, none twice; as many
  as the draft has, so all of them, and the result last (`GraphHolds`).
- A step that is planned (`StepIsPlanned`): every check of `plan_structured` held, one
  after the other, so that every concept and property was found and unambiguous, the
  periods were resolved and all is bound to one source.
- What its conditions mean (`StepMeansItsIntent`): a key is kept by the conditions of the
  plan exactly if each concept of the step has a row in its period, on its dates
  (`PeriodsAreMet`), not excluded by a rule of that concept (`RulesAreMet`) or by a
  constraint whose name is a property of it (`ConstraintsAreMet`). The same for a text
  (`TextIsPlanned`, `TextMeansItsIntent`), which is planned by matching its words.
- The script (`StatementIsGood`, `ScriptIsGood`): a statement has a row when the tables it
  reads have one and its conditions hold, so by counting statements every table has the
  row that was asked of its step and of the steps it is made of (`MadeOfSteps`,
  `DraftIsAnswered`). What the platform refuses stays refused and is excepted.

Theorem: `ProgramsMeanTheirIntent`. `OntologyAssumption` says of an ontology what the
parser checks and the planner relies on: a property has one domain, the partition and the
business dates of a concept are properties of it (`semantic_parser.py` rejects another
domain and a policy that is on a property of another concept). `DraftAssumption` is the
shape of the records. No step or text is excluded: what the planner refuses is covered by
the proof as a refusal.

**GenerationProofs, the periods and the whole.** `PipelinesDeliver`: a behaviour of the composition, projected to
its pipelines, is one of the deliveries, so that the theorems of `DeliveryProofs` hold
of the whole (`WholeIsSound`, `WholeKeepsBudgets`), and so do the two on packages
(`WholeIsUsable`, `WholeMeansDraft`). `WholeTypeOK` bounds the counters of rounds, repairs and batches.
`PeriodsAreAsked` is about the calendar. `DayBeforeIsNext` (no date lies between a day and
`DayBefore` of it), `ShiftsCount` (a shift of months counts them) and `CountingDays`
tie the arithmetic of `temporal.py` to the order of days; from them
`MonthsMeanTheirSpan` and `DaysMeanTheirSpan`: the dates an expression is resolved to
bound exactly the days it means, over the ends of months and years and in leap years. With
`DistinctMeans` (two expressions are one period only where they mean the same days)
and `DefaultIsAsked` the resolved period is the one that was asked for, for every
text, every calendar that `PeriodAssumption` allows and every today. The theorem is about
what the grain of the table lets through: what a table by month passes over is excepted
by name (`PassedOver`), a day written out is its month there, and a day without its
year is its month in both grains.
`WholeMeansTheRequest` has both halves of `QueriesMeanTheRequest` of the whole: the
programs and the periods are the ones that were asked for. `WholeMeansPlan` has both
halves of `ProgramsComputeTheirPlan`.

What the prover and TLC read differently: `UNION A \cup B` is `(UNION A) \cup B` for
TLC and `UNION (A \cup B)` for tlapm, so the modules have the parentheses; and the
text without characters is the constant operator `EmptyText`, since the encoding of
the provers has none.

## 6. Only model-checked

- `EveryRequestAnswered`, `EveryOperationAnswered`, `EveryServiceSettles`,
  `EveryRequestIsAnswered`: liveness under fairness is out of the prover's reach. The safety properties of the passing runs, the invariants and the action
  properties, are all proved.
- That the assumptions are met by the code is argued in section 5 and in the comments of
  the modules; TLC evaluates them for the constants of the runs.

## 7. Not modelled

- Upload parsers and templates, SQL comparison (trees of sqlglot), authentication,
  audit and monitoring, the declarations of the schema, the frontend: pure
  transformations, append-only logs or rendering.
- Context engineering: the estimate of tokens and the truncation of texts. Whether
  the history fills the budget is a choice in `ConversationTurns`.
- A second server process on the disk of the publisher: its locks and runtime are
  those of one process, while the deployment has two replicas. The agent, the services
  and the conversations are modelled with several processes.
- The shadow comparison of `agent/ontology_shadow.py`, the manifest and digest of a
  package, the lexical reading of Turtle, percent-decoding and Unicode normalisation in
  the credential scan (the constant `Credentials`).
- What `validate_authored_sql` finds in a script: a choice. Prompts, explanations,
  labels, the layout of outputs.
- Recognition of temporal expressions in a text; rendering of SQL text, identifiers
  and literals.
- The base URI of a draft: it is assumed to make URIs the parser accepts. The gate does
  not check it, so one with a bad escape passes the gate and is refused by the parser.
- Temporary and staging files: they have random names and are never read.
- In `DraftEditing`: cardinality, label and priority of a relation, descriptive
  texts, grain of a policy (`Catalogs` has them). Types of fields do not change when
  an object is deleted and imported again.

## 8. Observations

Behaviour that no document of the repository contradicts, and that the models show
or had to be written around.

- `_traced` of the older graph swallows an exception of the semantic check, and a
  script that only passed the syntax check is delivered.
- The import of field descriptions clears no cache, and its `ALTER` commits in the
  middle. A load that crosses a clear brings the old tables back until they expire.
- Two crossing puts of feedback mix their columns; two overlapping executions of a
  record share its result file; a poll at another replica reports a turn under way as
  interrupted.
- The case that finds a changed package leaves the counters of its run as they were,
  and failed cases are never tried again.
- `SqlAuthoringService` is what `get_program_generation_service` returns, while
  conversations and evaluations use `run_conversation_agent`; the inference service,
  the adaptive planner and the older inference compiler are not wired. The older
  compiler ignores aggregations.
- A structured constraint on the partition property makes the compiler refuse, a
  business constraint makes every step whose concepts lack the property unsupported,
  and the relation a one-concept step names is ignored.
- A step may read columns its upstream step did not select; field names that repeat
  in one step, or physical names two sources share, can shadow each other.
- A day without its year bounds its whole month, and a written day next to a business
  date of a table by month bounds that date to the whole month: more than was asked for.
- Previews, confirms, reviews of a publication and deletes compare revision *numbers*.
  With a store for each request two texts may carry one number, so
  `PublishedAsReviewed` and `VersionRecordsItsRevision` speak of the number only.
- Invalid days, the year 0 and very large numbers of months raise an error that
  is not caught in `temporal.py`; a month without a year is one of the current year,
  and business dates are refused for daily partitions.
- The gate checks short names of the declared policies while the builder writes the
  effective ones; a subject marked as two kinds shares its short name; a data source
  with an empty platform is dropped without a complaint, and the package loads with
  mappings that dangle;
  whether a deep expression is within the limits depends on the order of its
  arguments.
