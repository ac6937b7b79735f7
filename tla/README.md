# A verification project for the clickstream data pipeline

This directory holds TLA+ specifications of the parts of the *Clickstream
Analytics on AWS* solution in this repository whose correctness depends on the
order in which things happen, TLC configurations that check them on small
instances, and theorems about them that TLAPS checks for every instance.
`PROJECT.json` maps every definition to the lines of code it models, and lists
the runs, the mutants that show each property to be sensitive to the code, the
hazards and the theorems.

Paths below are relative to the repository's root.

## 1. The system

Web and mobile SDKs send events to an ingestion server behind a load balancer,
which sinks them to S3. Scheduled EMR Serverless jobs turn them into files, a
Step Functions workflow loads those files into Redshift, two more workflows
refresh views and collect metadata after a load, and QuickSight reports on them.
All of it is deployed by a control plane: an API on Lambda, a DynamoDB table, and
a state machine that creates, updates and deletes CloudFormation stacks. Custom
resources in those stacks keep the rules of the load balancer and the schemas of
Redshift in step with the registered applications.

| Component | State | Operations | What is hard | Correct when | Module |
| --- | --- | --- | --- | --- | --- |
| **Load-balancer rules** `src/ingestion-server/custom-resource/update-alb-rules` | rules of the listener by priority | create, update, delete; one call after the other | a failure between any two calls, rollback, rules found by their old path, the limit of rules | every registered application is routed, none is interrupted by an update | `AlbRules` |
| **EMR job submission** `src/data-pipeline/lambda/emr-job-submitter`, `emr-job-state-listener`, input of `spark-etl/…/ETLRunner.java` | `job-latest.json`, one record per job, a queue of failed jobs | compute the window, count objects, start the job, record it twice; on FAILED queue the record | failures between the start and the records, seconds against milliseconds, late listings | every object is in one window; failed windows are queued | `DataJobs` |
| **Load-data workflow** `src/analytics/lambdas/load-data-workflow`, `private/load-ods-data-workflow.ts` | one DynamoDB item per file (NEW, ENQUEUE, PROCESSING), an index over it, executions, statements | record a file, count and skip, choose a batch, make manifests, submit, poll, look for more work | overlapping executions, index lag, repeated events and calls, statements nobody polls, branches cut short | no file is forgotten, one execution loads at a time, every file is loaded | `LoadData` |
| **View refresh** `load-data-workflow/refresh-views.ts`, `refresh-materialized-views-workflow`, `sqls/redshift/dashboard` | time of the last refresh on S3, the base view, reports, marked days | start when the interval has passed, refresh the view, skip marked days, report one by one, mark | started before it is recorded, loads that run meanwhile, manual runs, a mark that is lost | a marked day has all its events in all reports | `RefreshViews` |
| **Metadata scan** `scan-metadata-workflow`, `sp-scan-metadata.sql` | `workflow-job-info.json`, one DynamoDB item per month | check, scan an application, merge row by row, write batches, record | mutual skipping, windows chained by a record, a month that rolls over while a store breaks off | no day is skipped, nothing stored is lost | `ScanMetadata` |
| **Schemas in Redshift** `custom-resource/create-schemas.ts`, `common/custom-resource-exec-in-redshift.ts`, `sql-execution-sfn` | the database, executions of the SQL state machine, what they created | create, update, rollback, rerun; submit and poll statements | half-failed updates, executions for two versions, aborted statements | the version shown is the version deployed | `AppSchemas` |
| **Pipeline deployment** `lambda/api/model/pipeline.ts`, `api/service/*.ts`, `listen-*-status`, `sfn-action`, `sfn-workflow` (in `src/control-plane/backend`) | one item per pipeline, executions, CloudFormation stacks | create, refresh, update, upgrade, retry, delete, register an application; act on a stack; record events | whole-item writes by requests and listeners, events out of order, executions started before the item is written; workflows rewritten by every request, after failures half-way | the item ends up telling the truth, no accepted edit is undone, Active means deployed; stacks come and go in order, with the outputs of others that they need | `PipelineStatus`, `StackWorkflow` |
| **Projects, applications, users, metadata API** | single items | conditional writes | an application is registered after its pipeline update was started | applications are those deployed | as far as `PipelineStatus` goes |
| **Reporting, Kafka connector, other custom resources, Spark transformation, console, CDK stacks** | managed services | — | data and wiring more than order | — | section 7 |

The components meet at narrow points: the end of an EMR job and the event of each
file it writes start the load-data workflow; a load starts the view refresh and the
metadata scan; the control plane deploys them all and changes their parameters (the
list of applications) by stack updates, in which the two custom resources run. None
of these points has shared state of its own, so the modules are checked one by one,
each with the neighbour reduced to what it may do next.

## 2. Modules

| Module | What it is |
| --- | --- |
| `AlbRules`, `AlbRulesProofs` | the rules of the load balancer and the custom resource that changes them; theorems |
| `DataJobs`, `DataJobsProofs` | submission of data-processing jobs, their input, the listener; theorems |
| `AppSchemas`, `AppSchemasProofs` | the schemas of applications, the custom resource and the SQL state machine; theorems |
| `MCDataPlane` | instance of those three |
| `FileLedger` | abstract specification: a set of announced files, those recorded, those done; a file is dropped only when done |
| `LoadData` | the load-data workflow; implements `FileLedger` (property `LedgerSpec`) |
| `LoadDataProofs` | its theorems: without assumptions, and under `PromptStop` |
| `MCLoadData` | instance: table and application of each file, symmetry |
| `AppEvents` | events and their applications, for the next two |
| `ScanMetadata`, `ScanProofs` | the metadata scan; theorems |
| `RefreshViews`, `RefreshProofs` | the refresh of views and reports; theorems |
| `MCAfterLoad` | instance of those two |
| `PipelineStatus`, `PipelineProofs` | one pipeline: item, requests, stack workflow, stacks, listeners; theorems |
| `MCPipelineStatus` | its instances: dependencies of the stacks, symmetry |
| `StackWorkflow`, `StackWorkflowProofs` | the workflow of a pipeline: branches of stacks, how requests rewrite it, outputs passed from stack to stack; theorems |
| `MCStackWorkflow` | its instance: which stacks, which updates |

`MCDataPlane` and `MCAfterLoad` put modules side by side that share no state: each
behaviour is one of *one* of them (variable `part`), the others being at rest.
Within the run every module is thus explored in full, and no interleaving of
independent steps is.

### LoadData

*State.* `store[f]` is the DynamoDB item of file `f`, `index[f]` what the
secondary index shows of it. `"GHOST"` is an item that has a status and no
timestamp: `load-manifest-to-redshift.ts` updates without a condition, so after
the item was deleted it creates one that the index (sorted by timestamp) never
shows. `main` is the state of each execution of the main state machine, `sub`
that of the sub-workflow of each table in it, `files` and `stmt` the manifest
in hand and its Redshift statement; `asked` is how many of its queries of the index
a function has made; `orphans` are statements that run
with nobody polling them. `arrived`, `loaded` and `swallowed` are history.

*Actions.* `ObjectCreated` is `put-ods-source-to-store` (the whole item is
put, whatever the status it replaces; `ObjectCreatedAgain` when the event is
delivered twice). `CountPending` and `ListExecutions` are the two halves of
`skip-running-workflow`: the count is read before the listing, and other
executions move in between. `CountPending`, `QueryCandidates` and `CheckMoreWork`
make several queries of the index each, one per table and status (`CountQueries`,
`CandidateQueries`, `MoreWorkQueries`), and the ledger and the index move between two of
them, unless `Snapshot`. `QueryCandidates`, `Enqueue`, `EnqueueRefused`
and `NextManifest` are `create-load-manifest`, one item at a time as the
code writes them; `Submit` is `load-manifest-to-redshift`; `PollFinished`,
`PollConflict` and `PollFailed` are `check-load-status`; `CheckMoreWork` is
`has-more-job-new` (which looks for NEW and PROCESSING items and so ignores what a
failed batch left ENQUEUE, though `docs/en/architecture.md:86` has the workflow
end when all objects are loaded; the next execution takes such items up).
`LambdaFails` cuts any of these handlers off after the
writes it has done so far, `LambdaRepeats` is Step Functions' retry on service
exceptions. `BranchFailed` and `AbortLeftover` are the Parallel state: a failed
branch fails the execution, and Step Functions stops the sibling
sub-executions — at once with `PromptStop`, some time later without it.

*Abstracted.* The content of manifests (a manifest is a set of files of one
application), waiting times, metrics, the Redshift variants (serverless or
provisioned). Files are those with a `partition_app`: others are queued and
never get into a manifest.

### PipelineStatus

*State.* `item` is `PIPELINE#<id>#latest`: `at` is `updateAt`, `ver` the
version, `exec` and `status` are `executionDetail`, `stacks` are
`stackDetails`, `action` is `lastAction`, `apps` the `AppIds` parameter in the
workflow, `edits` the accepted updates whose effect the item contains (history). `image`
is what reads return. `client[c]` is a request of the API: what it read and
what it will write. `exec` are executions of the stack workflow with a plan
(the `Action` of every stack in the workflow, then how far it got), `cfn` the
true status of the stacks, `live` the applications a stack was last deployed with.
`msgs` are stack status messages on the queue, `worker` the concurrent
invocations of `listen-stack-status`, `lis` the invocation of
`listen-state-status` for each execution's start and end. `abrupt` says whether a
deletion began at a status at which that of a project would be refused (history).

*Actions.* A request is split at its awaits: `Read` (the item and the status
check, `Permits`, of `service/pipeline.ts` and for a deletion of `service/project.ts`) or
`Remove` (`DELETE /pipeline/:id`, which reads the item and checks no status), the
operation (`Create`, `UpdateApp`,
`Update`, `Upgrade`, `Delete`, `Retry`), which starts the execution, and
`Write`/`Add`/`Refused`, the conditional write of the whole item; `Register`
follows for an application. A `refresh` goes from `Read` to `Write`: it writes
back what it read. `Observe` is `refresh=force`. `LoadForm` and `SubmitForm`
are the console, which sends back the workflow and version of the pipeline it
loaded. `CreatePlan`, `AppPlan`,
`UpdatePlan`, `UpgradePlan`, `DeletePlan` and `RetryPlan` are the workflow
rewriting of `service/stack.ts`. `CreateStack`, `UpdateStack`, `DeleteStack`,
`DescribeStack`, `ActionFails` are `sfn-action` with the polling loop around
it. `Describe`, `Match`, `RecordStack`, `RecordStackAgain` are the stack
listener; `Receive`, `RecordStatus`, `Fetch`, `RecordStacks`, their `…Again`
retries and `DeleteProject` the state listener, in the order the handler awaits. An
event that finds no item is delivered again, and dropped in the end (`Match`, `Drop`,
when `GivesUp`): messages are received three times, events tried three times
(`event-bus-construct.ts:64`, `:121`).

*Abstracted.* `updateAt` comes from a set `Time` of which only equality
matters; a write takes a value nobody holds, so two writes in the same
millisecond are taken apart. A workflow is its stacks, their order within a
branch (`Needs`), their action and the one parameter that lists applications.
Other edits of an update are any set of stacks. What requests do to the whole
workflow, and what stacks pass to one another, is the subject of the next module.

### StackWorkflow

*State.* `saved` is the workflow in the item: branches, each with its `StartAt` and
the `Next` of its states, and the type, action and callback prefix of every stack.
`run` is the last execution: the workflow it was started with, where each branch is
(`at`), and the stacks it waits for. `status` is what CloudFormation says of each
stack, `made` which have outputs, `behind` and `untagged` which have the template or
the tags of an older version. `files` are the `output.json` on S3 by prefix and
stack; `starved` and `blank` are stacks sent, and deployed with, an empty value for an
output that was not found. `overlooked` is history (below).

*Actions.* `Create`, `UpdateApp`, `Update`, `Upgrade`, `Delete` and `Retry` are the
requests of `model/pipeline.ts`; each derives the workflow to execute with an operator
named for its function in `service/stack.ts`: `Generated` (`Members` and `Later` say what
may stand in a branch and after what, and `Linked` chains the states that are there),
`AppWorkflow`,
`UpdateWorkflow` followed by `WithReporting` and `WithTags`, `UpgradeWorkflow`,
`DeleteWorkflow` (which relinks every branch, `Reversed`), `RetryWorkflow`. The state
machine calls itself for serial branches and for the parallel state: `Enter`, `Join`,
`Succeeds`. At a stack, `PassStack` copies its outputs, `CreateStack`, `UpdateStack`,
`UpgradeStack` and `DeleteStack` call CloudFormation with the parameters found under
the workflow's prefix, `Finish` is the poll that finds the stack at rest and the
callback that writes its outputs, `CallFails` a call that is refused, `Breaks` an
execution that ends while its stacks go on. `StackDone` and `StackFails` are
CloudFormation, where a failed update of a complete stack is rolled back and other
failures stay (stacks are created without rollback).

*Abstracted.* A parameter is only whether the outputs it needs were found. Requests
follow one another, see the stacks as they are, and start an execution only when none
runs: overlapping and stale ones are `PipelineStatus`. The status checks ensure that one
execution runs at a time (`OneExecution`), but for `DELETE /pipeline/:id`, which makes
none; here a deletion begins where that of a project would. `UPDATE_ROLLBACK_FAILED` is left out, as is a region without Service
Catalog, where the registry's output is not asked for. Reporting is never turned off:
the console disables that for a pipeline that has it (`frontend/src/ts/utils.ts:329`).

### DataJobs

*State.* Time is counted in ticks, `Second` of them to a second, since S3 keeps
`LastModified` in seconds and the submitter computes in milliseconds. An object has
the instant it was put, the day in its path, and whether it is listed yet. `latest`
is the `endTimestamp` of `job-latest.json`, `recorded` the jobs with a record of
their own, `work` the one invocation of the submitter that runs
(`reservedConcurrentExecutions`), `event[j]` the attempts left for the listener,
`dlq` the queue. `origin` (where the chain of windows starts), `read`, `broken` and
`redone` are history.

*Actions.* `Invoke` and `InvokeReRun` choose the window, `CalculateObjects`,
`StartJobRun`, `RecordJobInfo`, `RecordLatest` are the awaits of
`EMRServerlessUtil.start`, and `SubmitterFails` breaks off between any two of them.
`JobSucceeds` reads the input as `ETLRunner.readInputDataset` does (prefixes of the
days of the window, `modifiedAfter` and `modifiedBefore` cut to seconds). `HandleFailure`
and `ListenerFails` are the listener; retries of an event are minutes apart, so a
second attempt meets a submitter that has gone on. SUCCESS events only copy a record
nobody reads and send metrics, so they have no action.

*Abstracted.* The default rule files that the submitter puts before a job, Spark
parameters, the content of objects.

### AlbRules

*State.* `rules[n]` is the rule of priority `n`; `stage` is what CloudFormation does
with the resource, `old` and `want` its properties, `step` and `calls` where the
handler is and which calls of the step are still to be made.

*Actions.* `NextStep` lists the calls of the next step from the rules that it finds,
as the handler does (it lists them, then loops over calls); `MakeCall` makes
one. `CallFails` fails any call, carried out or not — which also stands for the Lambda
function running out of time — and `CallRefused` is a priority in use or a full
listener. `Fail`, `StackFails`, `ContinueRollback` are CloudFormation: a failed update
is called again with the properties swapped.

*Abstracted.* Whether authentication or HTTPS is on is fixed for a listener, since
changing it replaces the listener; a path is neither the ping path, nor `/login`, nor
`/*` (the parameter's pattern refuses the last; it would let the other two through, and
rules found by their path would then be mistaken for each other); no application is
named like the rules for none; the target group never changes.

### AppSchemas

*State.* `stack` holds the properties of the resource when the stack was last
complete, `request` the operation under way, `runs[a]` the executions of the SQL state
machine for application `a` in the order of their start (the API shows the last),
`objects[a][s]` the version of what statement `s` created.

*Actions.* `CreateStack`, `UpdateStack` and `DeleteStack` begin an operation; the
handler creates the database (`CreateDatabase`) and starts one execution for each
application that needs one (`CreateSchemaOf`, from `NewAddedAppIds`: the new
applications, or all when the hash of the SQL changed), and `StackOperationFails` after
any of these. An execution submits, polls and advances (`SubmitSql`, `StatementEnds`,
`CheckStatus`): FAILED with "already exists" counts as success, an ABORTED statement is
asked for again until the time limit of the state machine (`TimesOut`). An operator
reruns or redrives an execution (`docs/en/upgrade.md:72`, `troubleshooting.md:152`).

*Abstracted.* The text of statements: each creates one thing, which those in
`Replacing` replace. How CloudFormation continues after a failure is external.

### ScanMetadata

*State.* `jobDay` is the day at which the latest job record of data processing ends,
`info` is `workflow-job-info.json`; `scan[x]` an execution (its step, window,
applications left, and in a store the rows left, the drafts of items and what has been
marked as the latest month); `found[a]` is what the tables of an application in Redshift
hold, `calls` are procedures whose execution has failed and that run on; `meta[a][k]` the DynamoDB items, under `latest` or a
month. `late` and `torn` are history: events that came after the scan of their day,
applications whose store was given up, or left an item unprocessed.

*Actions.* `JobEnds` is a later job, whose end only grows; `StartAfterLoad`, `StartByHand`, `CheckWorkflowStart` (the listing of
executions, the interval, and the window from `info.end` to the date of the latest
job), `ScanApp` (`sp_scan_metadata`, which drops the tables of the application and fills
them, waiting for one that still runs), `StoreApp` (the reads of the tables and of
existing items), `StoreRow` and
`StoreNextRow` (the two ways of finding the latest month in
`store-metadata-into-ddb.ts`, with the copy of the old `latest` that the first writes
at once), `BatchWrite`, `AppDone`, `UpdateWorkflowInfo`. `BatchLeaves` is an item that
DynamoDB returns unprocessed and nobody writes. `StoreRepeats` is a second
invocation for the same rows, `ExecutionFails` a failure anywhere, which may leave the
procedure running: `CallEnds` is its end, before or after the next execution has begun.

*Abstracted.* One id per application stands for all its events and properties; an item
is the set of events it tells of, without summaries and their limit of 1000 values.

### RefreshViews

*State.* `created[e]` is the place of `e`'s load among all loads (`created_time`),
`loading` and `table` the loads that run and those that committed; `trigger` the
function at the end of a load and `lastRefresh` what it stores; `view` the base view,
`report[n]` what each report has counted, `marked[a]` the days in
`refresh_mv_sp_status`, `unpolled` the statements that run though their execution has
failed.

*Actions.* `LoadStarts` and `LoadCommits`; `TriggerRefresh` starts the execution and
`StampRefresh` stores the time afterwards (`TriggerFails` between them);
`CheckRefreshStart`, `RefreshBasicView`, `CheckStartSp`, `RefreshSp`, `MarkRefreshed`
are the workflow. The mark is a statement nobody waits for (`MarkIsLost`). When an
execution fails (`RefreshFails`), the statement it had submitted may run on and end at any
time (`UnpolledEnds`), beside those of the next execution.

*Abstracted.* The base view stands for all views and `Reports` procedures for all
reports; a report is the set of events it counted.

## 3. Properties

| Property | What it says |
| --- | --- |
| `LoadData!NothingForgotten` | a file that was announced stays on the ledger until a statement with its manifest finished |
| `LoadData!LedgerSpec` | the workflow implements `FileLedger` |
| `LoadData!OneLoading` | the skip check lets at most one execution load |
| `LoadData!OneLoaderPerTable` | no two running merges into one table |
| `LoadData!InFlightOnLedger` | the files of a statement being polled are PROCESSING on the ledger |
| `LoadData!EventuallyLoaded`, `ExecutionsEnd` | every recorded file is loaded; no execution waits for ever |
| `PipelineStatus!SettledStatus` | when nothing is under way the item agrees with the last execution and with CloudFormation (†) |
| `PipelineStatus!OneExecution` | at most one execution runs (†) |
| `PipelineStatus!DeletedOnlyWhenGone` | a pipeline is marked deleted only when no stack is left (†) |
| `PipelineStatus!Settles` | Creating, Updating and Deleting end, deletions at any status included |
| `PipelineStatus!NoEditLost` | the item contains exactly the accepted updates: no older record replaces a newer one |
| `PipelineStatus!ReadyForApps`, `AppsDeployed` | Active means complete and deployed with exactly the registered applications: a new pipeline whatever fails; any pipeline until something fails (†) |
| `StackWorkflow!DependenciesHold` | a stack exists only while those before it do, and none is deployed with an empty value in place of an output of another, unless a request passed over a stack under way (`overlooked`) |
| `StackWorkflow!NoneForgotten` | a deletion that succeeds leaves no stack, any other request that does leaves none out, an upgrade none on an old template |
| `DataJobs!NoObjectLost` | `job-latest.json` never moves past an object that no job read, will read, or has on the queue |
| `DataJobs!ReadOnce` | no object is in the input of two successful jobs, unless a submission broke off |
| `DataJobs!NoGap` | the windows of recorded jobs cover every instant since the first |
| `DataJobs!EventuallyRead` | an object put on time is read in the end, or its window is on the queue |
| `AlbRules!RoutesSettled` | after an operation, rolled back or not, exactly the registered applications are routed |
| `AlbRules!KeptApps` | at no instant does an update interrupt an application it keeps |
| `AlbRules!CreatesSucceed` | rules are created under free priorities, and a rollback does not find the listener full |
| `AppSchemas!ShownIsDeployed` | the execution shown for an application is one for the SQL of the stack |
| `AppSchemas!SchemasUpToDate` | when it has succeeded, the schema is that of the stack, unless two executions overlapped |
| `AppSchemas!ExecutionsEnd` | every execution of SQL ends |
| `ScanMetadata!OneScan` | one execution is past the check at a time |
| `ScanMetadata!NothingSkipped` | recorded windows tile the days: every event that was there when its day was scanned is in the metadata |
| `ScanMetadata!LatestIsNewest` | `latest` is the newest month, other items lie under their month, no batch has a key twice |
| `ScanMetadata!MetadataStays` | metadata once stored is never lost; what the store under way has rows of may be away until it is done |
| `ScanMetadata!EventuallyScanned` | again and again all loaded events of finished days are in the metadata |
| `RefreshViews!OneRefresh` | one execution counts at a time |
| `RefreshViews!ReportsComplete` | when a day is marked, every report has counted what the execution owed |
| `RefreshViews!EventuallyReported` | every finished day is marked in the end |
| `LoadData!NoDataLost`, `PipelineStatus!AppsServed` | statements of the documentation the code does not keep (section 5) |

(†) as long as no deletion was `abrupt`, that is, began through `DELETE /pipeline/:id` at a
status at which the deletion of the project would be refused. After one they are false of
the code (section 5).

Most modules have one type invariant besides.

## 4. Runs

| Run | Instance | Shows |
| --- | --- | --- |
| `data_plane` | jobs: 2 objects around midnight, 3 windows with re-runs and clones, 1 mishap; rules: 2 applications, 2 updates, 2 errors; schemas: 1 application, 2 statements of which one replaces, 2 versions of the SQL, 2 operations, 1 rerun, 1 failure; fairness; 401k states | `TypeOK`, `NoObjectLost`, `ReadOnce`, `NoGap`, `EventuallyRead`; `RoutesSettled`, `KeptApps`, `CreatesSucceed`; `SchemaTypeOK`, `ShownIsDeployed`, `SchemasUpToDate`, `ExecutionsEnd` |
| `load_contention` | 2 executions, 2 tables with both files in one, batches of 1, 2 mishaps, unbounded index lag, late stops; 780k states | `TypeOK`, `NothingForgotten`, `OneLoading`, `LedgerSpec` |
| `load_tables` | 2 executions, 2 tables, two manifests per batch, 2 mishaps, prompt stops, the index asked query by query; 2.1M states | `OneLoaderPerTable`, `InFlightOnLedger` |
| `load_live` | 1 execution slot, 2 tables, a backlog larger than a batch, 2 mishaps, fairness; 134k states | `EventuallyLoaded`, `ExecutionsEnd` |
| `load_no_data_lost` | 1 execution, 1 table | violation, section 5 |
| `after_load` | scan: 3 events on 2 days in 2 months, 2 executions, 1 manual scan of both days, a job every day, 1 mishap; refresh: 3 events of which one is too late for a report, 2 reports, 2 executions, 1 manual run, 1 failure; fairness; 483k states | `ScanTypeOK`, `OneScan`, `NothingSkipped`, `LatestIsNewest`, `MetadataStays`, `EventuallyScanned`; `RefreshTypeOK`, `OneRefresh`, `ReportsComplete`, `EventuallyReported` |
| `pipeline_serial` | stack `kafka` after `ing`, 3 executions of create/register/upgrade/retry/delete, the deletion of the project or `DELETE /pipeline/:id`, 2 stack listeners, 1 mishap, fairness; 313k states | `SettledStatus`, `OneExecution`, `DeletedOnlyWhenGone`, `AppsDeployed`, `Settles` |
| `pipeline_races` | 2 clients with overlapping creations, refreshes and form updates, 1 stack; 518k states | `TypeOK`, `NoEditLost` |
| `pipeline_unreliable` | 1 creation and forced refreshes, lagging reads, listeners of any speed, 1 mishap (a death, a failure, a redelivery), no listener retry; 1.8M states | `ReadyForApps` |
| `stack_workflow` | registry, ingestion, data processing, Redshift and metrics, to which reporting may be added; creation and any 2 further requests, 1 failure of a stack, a describe or an execution; 1.3M states | `DependenciesHold`, `NoneForgotten` |
| `pipeline_stuck`, `pipeline_old_form` | 1 stack | violations, section 5 |

*Why the bounds suffice.* Two executions are what it takes for one to overlap
another or its leftovers; a third meets the same code in the same states. Two
files in one table with batches of one make a backlog; two applications in one
batch make two manifests. A scan needs three events: one in `latest`, one of the same month
that comes later, one of the next month, or no repeated store can undo what its first
invocation wrote (section 5). Three executions of a pipeline are creation, a change
and a reaction to it (retry, delete, another change). Two stack listeners make
one lose its `updateAt` race to the other; `MaxRetry = 3` is the code's
`MAX_RETRY_COUNT`, smaller values are used where giving up earlier is
harder. One or two mishaps place any single failure, or a failure on top of
another, at every step.

For the jobs, two objects are put on either side of a second, of a window and of
midnight; `Horizon` leaves room for three windows, so that one follows a broken
submission and another follows that. `Jobs = 4` does not bind. For the rules, two
applications and two updates make every change of the set of applications and its
undoing, `RuleLimit = 6` is less than an update needs while its old and new rules are
both there, so that the limit is met, and names are taken in order. For the schemas,
applications are independent of one another given an operation, so one is enough;
`Beside = 0` bounds the executions that run when an *operation* begins — an update
that fails and is rolled back, and an operator's rerun, still make two run at once. For
the scan, a month of one day makes every second day a new month; for the refresh, two
ticks are enough for a day to end with a load running. Executions of either are two for
the reasons above. A failure that leaves a statement running is one mishap: the next
execution then meets it at each of its steps. A behaviour with an abrupt deletion has at
most two executions (`MaxAbrupt`), which is what it takes for one to run beside another;
after it only `Settles` is claimed.

For the workflow, the instance has all ways in which branches differ: one state before
a parallel state, a branch of one stack, one of two of which the second needs an output
of the first, to which an update may add a third. Kafka and Athena lengthen branches
and are in the module without an instance; the proofs are for all shapes. Three executions are a creation, a change
and a reaction to either; one failure may hit any of them, in any stack, while another
branch works, which is what a retry has to cope with. The prefix of an execution is its
number. An update may or may not change the parameters of the stack that others feed.

`CHECK_DEADLOCK FALSE` stands where the bounded system stops: its executions, updates
or time are used up, or the pipeline is deleted.

*Assumptions, most of them constants of the modules.*

- `PromptStop`: stopping an execution's children takes effect before another
  execution acts on the same table. Step Functions' stop is best effort, so
  what holds without it is checked without it (`load_contention`).
- `BoundedLag`: the index catches up within a Wait state (10 s and more). It
  matters: without it a sub-workflow may succeed on an index that does not yet
  show an item another left PROCESSING, that item keeps a second
  sub-workflow looping, and every later execution skips.
- `Serial`: requests that start an execution do not overlap one another. Two
  that do are both accepted, as the status is checked on the item read first.
  It also keeps requests from dying half way. A form may stay open across any
  number of them. `pipeline_races` and `pipeline_unreliable` do without it, and
  so does the theorem.
- `abrupt`: four properties leave out behaviours in which `DELETE /pipeline/:id` began a
  deletion at a status at which that of a project is refused; so do the theorems about
  them. `StackWorkflow` has executions one at a time, with the same restriction. The
  console deletes pipelines through their project.
- `Snapshot`: nothing happens between two queries of one function. `load_tables` does
  without it; `load_contention` and `load_live` have it to stay within their time. The
  theorems hold either way.
- `Prompt`: CloudFormation and executions take their next step after the
  listeners handled the last one (minutes against seconds; executions poll
  every 30 s). With slow listeners the state listener may apply an old event to
  a later operation; `pipeline_unreliable` checks what still holds.
- `Lag`: reads are eventually consistent (`getPipeline`, `listPipeline` do not
  ask for consistent reads).
- `overlooked`: a request passed over a stack that was still in progress, or an
  application was registered over one that was not complete, or a describe failed. What
  `DependenciesHold` and `NoneForgotten` say of outputs and of stacks left out is said
  of the other behaviours (section 5 has what happens in these).
- Step Functions' `ListExecutions` shows every running execution.
- `Settle` and `Buffered`: an object is listed within `Settle` of its being put, and
  the buffer of the submitter (`DATA_BUFFERED_SECONDS`) is longer than that by a
  second at least. The invocations of the listener outnumber the mishaps
  (`Attempts`): Lambda drops an event after its last attempt.
- `sp_scan_metadata` drops its tables first and holds them until it commits, so that a
  second call waits for it.
- Loads end far enough apart for an execution of the scan to have made its check
  before the next load starts another. Manual executions start at any time.
- Loads into one table run one at a time, which is `OneLoaderPerTable`, and
  `created_time` orders them. A manual run of the refresh goes back over days that
  are over; a manual scan has a window that is not empty.
- The last day of the scan and the last tick of the refresh begin with their jobs
  done, and the interval counts as over there: time is bounded, the schedule is not.

*Fairness.* Weak fairness on every step of Step Functions, of Lambda functions
that that were invoked, of CloudFormation's running operations and Redshift's
running statements, on replication of the index and of S3's listings, on EMR jobs,
on schedules and on time: each of those services finishes what it has accepted. A
new execution of the load-data workflow is fair too, as are those that the end of a
load starts: EMR jobs run on a schedule. Requests, failures, repetitions, manual
executions and events of users are not fair. For a pipeline this is one condition, weak
fairness of everything that goes on without a new request and without a failure
(`Service`): an execution that polls for ever has no step of its own, so `Settles` finds
it. A report or base-view statement that nobody polls need not end; a scan procedure
does (`CallEnds`), since the next one waits for it. `load_live` has one execution slot since
two executions that start together may both skip for ever.

## 5. Where the code and its documentation disagree

Runs that TLC finds violated:

- `load_no_data_lost`: `sp_merge_event_v2` is NONATOMIC and swallows every
  exception, so the statement is FINISHED and the items are deleted;
  `docs/en/faq.md:74` promises no loss.
- `pipeline_stuck`: a GET with `refresh` writes back the status it read under a
  condition the listeners' writes do not disturb; a pipeline may stay Creating
  for ever, whereas `docs/en/getting-started/2.config-pipeline.md:82` tells the user to
  wait for Active.
- `pipeline_old_form`: registering an application does not advance the version,
  so a form loaded before it is accepted after it and brings the old list back;
  `docs/en/pipeline-mgmt/app-registration.md:22`.

Seen while modelling, and left out of what the properties speak of (each is in a
definition or an assumption, named here):

- `DELETE /pipeline/:id` (`service/pipeline.ts:205-221`) reads the item, checks no status,
  and starts a deletion; only `service/project.ts:299-304` checks. Then
  `store.deletePipeline` writes `statusType` (`dynamodb-store.ts:636-673`), which the
  status shown is not computed from, so the item stays as any other. With requests that
  strictly follow one another, a creation and this route while the status is Creating
  make two executions run; the deletion passes over stacks that the creation is yet to
  make, and its success marks the project deleted with a stack there; when the creation
  ends last, `executionDetail` tells of it; and a registration accepted in between ends
  Active without stacks. These are the behaviours that `abrupt` leaves out of
  `OneExecution`, `DeletedOnlyWhenGone`, `SettledStatus` and `AppsDeployed`; each is found
  by TLC when the condition is dropped. `Settles` holds of them too.
- An update that is accepted between the record of a deletion's success and the
  deletion of the project creates stacks again; an update refused by the version
  condition has already started its execution.
- `PipelineStatus`: a retry that is accepted after the record of FAILED, and before the
  listener has recorded the stacks, finds none to repeat (`_getRetryStackNames` returns
  an empty list): everything is passed over, the execution succeeds and the pipeline is
  Active without a stack. `AppsDeployed` is about behaviours without failures.
- `StackWorkflow`: an execution that fails in one branch leaves another's stack in
  progress, and a retry passes over it, as an update does (`_getRetryState` repeats
  failed and missing stacks only, `getUpdateWorkflow` makes a stack in progress a Pass).
  Its outputs are not there yet, so a later stack is created with empty values, the
  EMR Serverless application of `DataModelingRedshift` for one, and the pipeline
  turns Active.
- `StackWorkflow`: an application may be registered on a Failed pipeline
  (`service/application.ts:54`). All stacks without its parameters are passed over,
  those that do not exist included.
- `StackWorkflow`: when an upgrade breaks, its retry upgrades the stacks that failed,
  are missing or come after these; stacks the execution never reached stay on the old
  template though the retry succeeds. A later update deploys such stacks
  with their previous template and the tags of the new version, and since the tag is
  what the status looks at, the Warning goes and the pipeline is Active
  (`docs/en/upgrade.md:56`). `NoneForgotten` speaks of upgrades themselves.
- `StackWorkflow`: `_findBranch` returns within its loop, after the first key of the
  first branch. If `ServiceCatalogAppRegistry` is listed before `PipelineStacks`, as the
  code that generates the workflow writes them, it finds no branch and enabling
  reporting by an update adds no stack; DynamoDB promises no order of keys
  (`FirstKeys` has both).
- `DataJobs`: an object put after midnight under the day before is in the range of a
  window whose days leave its prefix out, and is never read (`ETLRunner.java:549`;
  `LateParts` has the run write such objects, `OnTime` leaves them out of
  `NoObjectLost`). The comment at `ETLRunner.java:274` has the start of a window
  excluded, the submitter includes it: an object at exactly the first instant of the
  first window is outside the chain. A cancelled job matches no rule of the listener
  (`data-pipeline.ts:317`), so its window is on no queue.
- `AlbRules`: an application with any rule is taken for complete
  (`update-alb-rules/index.ts:436`). One whose removal, or whose return in a
  rollback, failed between its two rules stays half routed (`halved`), and only then
  may a rollback find the listener full.
- `AppSchemas`: the resource returns once executions are started, so two versions of
  the SQL may be applied to one schema at once and the older may come last
  (`overlapped`). Deleting the stack keeps the database, and creating it again on the
  same cluster fails on `CREATE DATABASE`.
- `ScanMetadata`: a store given up half-way leaves two copies of a month or months
  without `latest` (`torn`). The copy of an old `latest` to its month is written at the
  first row, before any batch (`store-metadata-into-ddb.ts:272`). Invoked again for the
  same rows, the store may copy it over the item of that month which its first
  invocation had already written with more; the rows are written again with the batch,
  until then they are away (`Merging` in `MetadataStays`). The window of a scan ends with the date of the latest
  job, which is recorded when a job is *submitted*: events of that job may be loaded
  after the scan of their day (`late`). Items of a batch that DynamoDB returns as
  unprocessed are not looked at (`store-metadata-into-ddb.ts:203`): the execution goes on
  and records its window, and the metadata is missing (`BatchLeaves`, which puts the
  application in `torn`).
- `RefreshViews`: recalculating by hand (`docs/en/faq.md:78`) counts again what is in
  the base view, but an event created before the newest of the view and not taken then
  is not taken however far back the run goes
  (`clickstream_event_base_view_sp.sql:257`; `Fresh`).

## 6. Proofs

Assumptions of the theorems: the named ASSUMEs of the modules (functions and
bounds have their types), nothing about sizes, and what is said below.

`LoadDataProofs`:

- `TypeCorrect`: `Spec => []TypeOK`.
- `InvCorrect`: the inductive invariant, `TypeOK` with `StatementPolled` (a
  sub-workflow has a statement only while it polls), `BranchesOfLoading` (an
  execution has active branches only while it loads, or left over by a failure),
  `FinishedIsDone` (what a finished statement held is done) and `OnlyArrived` (only
  announced files are on the ledger, in the index, in manifests and statements).
  `FinishedIsDone` is what `PollFinished` needs: it deletes on the word of the
  statement. `OnlyArrived` keeps the ghosts and stale index entries within the
  files the abstract ledger knows.
- `LedgerImplemented`: `Spec => LedgerSpec`, step by step: `ObjectCreated` maps
  to `Record`, a merging (or swallowed) statement to `Load`, the deletions
  of `PollFinished` to `Drop`, everything else stutters.
- `NeverForgotten`: `NothingForgotten`, from the abstract ledger.
- `MutualExclusion`: `OneLoading`. An execution that passes the check lists no
  other running one, and executions that have not passed it are running as well:
  whichever lists last sees the others.

`LoadDataProofs`, under `PromptStop`:

- `OneLoaderForTable`: `OneLoaderPerTable`. With prompt stops a failed execution has
  no active branches (`NoLeftovers`), so an active branch belongs to an execution that
  loads, of which there is one.
- `InFlightStaysOnLedger`: `InFlightOnLedger`. The invariant (`Flight`) says of every
  active sub-workflow that its files are of its table and on the ledger, that what it
  polls and what it has yet to submit are disjoint, and that its items are no ghosts.
  It is inductive because the other sub-workflows are of other tables.

`PipelineProofs`:

- `NoUpdateLost`: `Spec => []NoEditLost`, without `Serial` or `Prompt` and with
  lagging reads. `NoEditLost` is not inductive: a request that holds an old
  record may write it later. The invariant `VersionInv` says that a version is
  the name of a set of edits. Every record somewhere in the system — the item, what
  reads return, what a form or a request holds — is a copy (`CopyOf`): its
  version is at most the item's, and if equal it has the item's edits; a request
  about to write an update (`Edits`) has the item's edits and its own. So a
  write that passes the version condition either carries the item's edits, or
  adds one and a new version, which is above every copy. Type correctness of the
  rest of the state is not needed, only that an item is a record (`IsItem`).
- `PipelineTypeCorrect`: `TypeOK`, assuming `ClockRuns`: the clock has a value that no
  record holds, without which the choice of the next `updateAt` is of an empty set.
- `ExecutionsFollow`: `OneExecution`, and `DeletedWhenGone`: `DeletedOnlyWhenGone`, both
  of behaviours that are not `abrupt` (as are the next two), and both assuming `Calm`: `Serial`, `Prompt`, no `Lag`, and neither form updates nor forced
  refreshes among the `Kinds`. Those two write what they saw earlier, and then a status
  may say that nothing runs while something does, so the theorems are false of them.
  Creation, registration, upgrade, retry, deletion and plain refreshes are in, and any
  mishaps. `OneInv` says that whoever is going to act on the item sees the execution
  that is open: the item shows it (`Shows`), or a request is about to write it, and no
  second request passes its status check until the listener has recorded its end.
  `GoneInv` adds what a deletion leaves: once the stack listener or the state listener
  has what it needs to mark the pipeline deleted, all stacks are gone and no execution
  has a stack to make.
- `StatusSettles`: `SettledStatus`, assuming `Calm` and `Ample`: no refreshes (run
  `pipeline_stuck` shows that one may write back a stack that is still at work, for
  good), finite sets and a running clock, one retry at least, and either no more stacks
  than `MaxRetry + 1` or one worker. `SettleInv` needs nothing of a running execution:
  its end is heard of when all that was said of stacks is recorded, and then the state
  listener, which nobody disturbs, describes every stack anew (`Ending`). What remains
  are stacks left at work by an execution that failed. For these `Tracked` says that
  every stack that is not `Pending` is recorded as it is, and `Recording` counts: an
  attempt to record a stack fails only by the record of another stack, each of which
  leaves one pending stack less, so the attempts that failed, with the one that is
  about to, are at most the stacks no longer pending; a stack comes to its end once.
  The bound is tight: TLC finds three stacks, two invocations of the listener and
  `MaxRetry = 1` to leave a stack's record stale. With `MAX_RETRY_COUNT = 3`
  (`listen-tools.ts:28`) four stacks are safe whatever their invocations do; for a
  pipeline with more, five of them that end within one read-and-write of each other
  after a failed execution are not covered.
- `ActiveServesApps`: `AppsDeployed`, assuming `Calm` (which leaves creation,
  registration, upgrade, retry, deletion and plain refreshes). The applications are in
  four places that are not written at once: the request that registers one, the
  execution it starts, the item, and at last the application's own item. `Listed` says
  which set counts: what the request registers, from the start of its execution until it
  is done, and what is registered otherwise. `ServeInv` says that until something fails
  every record (`Listings`) and every execution (`Serving`) has the set that counts,
  that a running execution has each stack either deployed with it or yet to deploy with
  it (`Making`), and that when none runs every stack is deployed with it. It holds
  because a request that starts an execution finds none running (`OneInv`), so the set
  that counts is the registered one (`FoundDeployed`). A pipeline that is being deleted
  is left out (`Retiring`), and that this is not forgotten is `GoneInv`.
- `NewPipelineReady`: `ReadyForApps`, assuming only `Looking`: no requests but creation
  and refreshes, plain or forced. `Serial`, `Prompt` and `Lag` are free, and so are
  deaths, redeliveries and failures. `BuildInv` says that every record of success, in
  the item, in what reads return and in the hands of a request, is of an execution that
  succeeded (`Honest`), and that the only execution makes each stack once and passes
  over none (`BuiltOnce`). With a retry among the requests it is false: see the retry
  that passes over everything in section 5.

`StackWorkflowProofs`, for every set of shapes, of updates, of executions and failures:

- `OutputsAreThere`: `DependenciesHold`, and `NothingLeftOut`: `NoneForgotten`. What an
  execution has passed is read off where its branches are: `Reached` compares the state
  a branch is at with another in the order `Later`, or its opposite for a deletion.
  The lemmas say that a chain of states (`LinkedLeads`) and the reversed one
  (`ReversedLeads`) go through their states in that order, so that `Next` adds exactly
  the state it leaves to what was passed. `StackInv` then has: `Formed`, `Planned`,
  `Placed` (the item's and the execution's workflow are of the same stacks, and the
  root stands where its branches say); `Fed` (what a forward execution passed is
  deployed, and its outputs are in a file under the prefix); `Undone` (what a deletion
  passed is gone); `Upgraded`; and `Ordered` (while a stack exists, those it depends on
  do and are not being deleted). `Ordered` alone is not inductive: creating a stack
  keeps it because of `Fed`, deleting one because of `Undone`, and a request, which
  starts from nothing passed, keeps these because it passes over complete stacks
  only — or is recorded in `overlooked`.

`AlbRulesProofs`, for every number of applications, limit of rules, updates and errors:

- `RoutesAreSettled`: `RoutesSettled`; `KeptAppsStayRouted`: `KeptApps`;
  `CreatesAreAccepted`: `CreatesSucceed`. One invariant, `AlbInv`, carries all three. It
  speaks of two tables: the rules as they are, and `Result`, what they come to when the
  calls of the step have been made. A step can break off between any two calls, so
  whatever a rollback may rely on has to hold of every table in between (`Between`):
  `GoodBetween` shows it, because each step only changes rules in one way (`Changed`).
  `Good(t, D)` says of a table that, for the steps `D` that are done, rules are as the
  new properties have them, and otherwise as the old or the new (`Follows`); that the
  rules for no application are the right ones (`Fixed`); that there is at most one rule
  of each kind for an application (`Single`); and who has both rules or none (`Kept`).
  Then `Good` of the properties swapped follows at every point where a rollback may
  begin. `Limited` counts: before an update removes a rule it has had those of the old
  and the new properties side by side, so a rollback has room for what it creates again
  (`Room`). The calls themselves are handled by `Plan`: a sequence of calls for
  different priorities makes of the table what a function says, in whatever order, and
  a call made leaves a plan for the rest (`MadeFirst`).

`DataJobsProofs`:

- `TypeCorrect`, with what is known of a submission under way (`PlanInv`: windows end
  `Buffered` before now; one that is not a re-run starts where the latest ended; the job
  being recorded has the window in hand).
- `NothingReadTwice`: `ReadOnce`. Jobs that succeeded
  without a submission that broke off have windows that do not overlap, and an object is
  in the input of a job only if its second is in the window.
- `WindowsTile`: `NoGap`. A window starts where `job-latest.json` ended, and the record
  of the job is written before `latest` moves.
- `NothingLost`: `NoObjectLost`, for `Second <= Settle`, `Settle + Second <= Buffered`
  and `MaxMishaps < Attempts`. An object in a window is listed when the window is
  chosen, because the window ends `Buffered` before now; a job that is SUBMITTED will
  list it, one that SUCCEEDED has, and a FAILED one is on the queue or has attempts
  left: those used up are no more than the mishaps, of which the failure itself is one
  and pays for the attempt that may meet a submission still under way (`FailureInv`).

`RefreshProofs`:

- `RefreshTypeCorrect`, `RefreshesOneAtATime` (as `MutualExclusion`).
- `ReportsCountAll`: `RefreshSpec => ReportsComplete`. `ReportsInv` has four parts.
  `LoadsInv`: loads run one at a time and `created_time` follows their order.
  `ViewInv`: an event of the table that the view does not have was created after all
  that it has, or is too old for it — so asking for events since the newest one misses
  none. `HoursInv`: a manual run goes back at least as far as a scheduled one, and
  `UnpolledInv` the same of statements left running.
  `DueInv`: what a scheduled execution owes is in the view, and in every report it has
  done. A statement left running counts days of a report again, from the same view and
  so with what is owed.

`ScanProofs`:

- `NoEventSkipped`, `LatestMonthIsNewest`, `MetadataIsKept`: `ScanSpec` implies
  `NothingSkipped`, `LatestIsNewest` and the action property `MetadataStays`, for any
  number of months, events, executions, failures and repeated stores. One inductive
  invariant carries all three, `MetaInv`. For each application that no manual scan left
  half stored it names the events that have to be there (`Kept`: on time, and of a window
  that was recorded or that a scheduled execution is done with) and those that may be
  merged in part (`Unsettled`: the rows of the store under way and, once a store was
  given up, whatever the next scheduled scan will have rows of, `Owed`). `Items` says
  that every item but the latest lies under its own month and is older than the latest
  or than something unsettled (`Placed`), that the latest has been copied to its month
  before any newer month has an item (`Copied`), and that *every* copy of a month tells
  what has to be there (`Holds`), so it does not matter which of two copies is read.
  `Sorted`, `Merges` and `Agree` say the same of the drafts of a store: months have the
  keys that `marked` gives them, what was read from DynamoDB is written before what is
  new, and copies and drafts of a month differ by rows of the store only. A store that
  fails moves its rows from `Merging` to `Owed`: the window was not recorded, so the next
  scheduled window covers it and begins with all of `Owed` among its rows. This is why
  an application given up by a *manual* scan, whose days nobody scans again, is excepted.
  Between the procedure and the store, the tables hold
  what is in the window of the execution (`Tables`): a procedure of a failed execution
  has ended by then, since the next one waited for it. What a scheduled one has found,
  and the store has yet to take, is `Pending`, which `Unsettled` counts when a store was
  given up. The lemmas on rows, batches and the end of a store are about plain values (the items
  of one application and one execution before and after); the steps of the
  specification are instances of them.
- `ScanTypeCorrect`, `OneScanAtATime`. The type needs that rows of a store, and what the tables
  hold, are of days within the bound (`RowsInDays`, `TablesInDays`) and that of several copies of a month one sorts
  first, by the least element of a set of naturals.

`AppSchemasProofs`:

- `SchemaTypeCorrect`, `DeployedIsShown`. `SchemaInv` strengthens `ShownIsDeployed`
  with `RequestInv`: an application that the operation passes over already shows the
  version it will be taken to have, whether the operation succeeds or is rolled back.
  For a rollback this is what makes it correct to start executions only for
  applications that are new or have another hash.
- `SucceededIsUpToDate`. `ProgressInv` adds what the executions have done: unless two
  of an application ran at a time (then it is in `overlapped`), only the latest one runs,
  and every statement it has got past has left its object, of the execution's version
  where the object is replaced. Only the latest execution's statements change objects, so
  nothing replaces them afterwards; a new execution has done nothing, and one that is
  rerun or redriven while another runs puts the application in `overlapped`. With
  `DeployedIsShown` that version is the stack's.

*Only model-checked.* Liveness, under fairness (TLAPS has no ENABLED here). Every safety
property of a run that passes is also stated by a theorem.

## 7. Not modelled

- *Pipelines.* Time zones of applications, plugin counters, the text of tags, creation of SNS rules
  and topics: no bearing on the properties, or one-line writes. The rest of the API (projects, users, metadata
  display names) is single-item reads and conditional writes.
- *Kafka connector* (`kafka-s3-sink-connector/index.ts`): one create, update or delete
  call in a stack operation, followed by a loop that waits for its result; no state
  is shared with another step.
- *Redshift custom resources* other than the schemas: `redshift-associate-iam-role`
  reads the list of roles of a cluster or namespace, writes it back with one more or
  less and waits; `create-redshift-namespace` and the data API user are single calls.
  The first is a read-modify-write, but a stack has one such resource and nothing in
  the repository runs two at a time.
- *Expired events*: one procedure, submitted and polled.
- *Refresh modes* `none` and `no_report`, and applications in different time zones.
- *Reporting* (`quicksight/sql-builder.ts`, `reporting/…`): text of SQL and calls to
  QuickSight, whose state is the service's. What a generated query computes is beyond
  a model of control.
- *Spark ETL*: apart from which objects it reads, a function of their content.
- *Web console*: React over the API; only the form of an update is modelled. *CDK
  stacks*: generated CloudFormation without run-time state, except for the state
  machines, which are modelled with the functions they run.

## 8. What could follow

1. `ActiveServesApps` with forced refreshes and form updates: it needs a bound on how
   old the record is that they write back, which `Calm` replaces.
2. Two schemas at a time, and the association of roles beside it, if the run's time
   limit allows.
