------------------------------ MODULE LoadData ------------------------------
(***************************************************************************)
(* The load-data workflow: the ledger of S3 files to load (a DynamoDB      *)
(* table and its index on job_status), the Step Functions executions that  *)
(* turn ledger items into manifests, and the Redshift statements that      *)
(* merge the files of one manifest.                                        *)
(*                                                                         *)
(* A main execution is started for every EMR job that succeeds.  It gives  *)
(* up when another one is running or nothing is pending; otherwise it runs *)
(* one sub-workflow per table until that table has no more work.  Every    *)
(* step of a sub-workflow is a Lambda function that may fail half way, and *)
(* that Step Functions may invoke again.                                   *)
(***************************************************************************)
EXTENDS Naturals, Sequences, FiniteSets

CONSTANTS
    Table,        \* REDSHIFT_TABLE_NAMES
    App,          \* application ids
    File,         \* s3_uri of the files that pass checkS3FileValidity
    TableOf,      \* the table a file belongs to (its prefix)
    AppOf,        \* the application a file belongs to (partition_app)
    Exec,         \* slots for main executions, reused when one has ended
    Limit,        \* QUERY_RESULT_LIMIT
    MaxRetry,     \* MAX_RETRY of check-load-status.ts
    MaxMishaps,   \* bound: failures and repeated deliveries of a behaviour
    PromptStop,   \* TRUE: a failed execution's sub-workflows stop with it
    BoundedLag,   \* TRUE: the index catches up within a Wait state
    Snapshot      \* TRUE: nothing happens between the queries of one function

ASSUME LoadAssumption ==
    /\ TableOf \in [File -> Table]
    /\ AppOf \in [File -> App]
    /\ Limit \in Nat \ {0}
    /\ MaxRetry \in Nat
    /\ MaxMishaps \in Nat
    /\ PromptStop \in BOOLEAN
    /\ BoundedLag \in BOOLEAN
    /\ Snapshot \in BOOLEAN

VARIABLES
    store,     \* the ledger: job_status of the item of each file
    index,     \* what the index on job_status shows, which lags the ledger
    arrived,   \* files whose creation event was handled (history)
    loaded,    \* files merged into their Redshift table (history)
    swallowed, \* files whose load failed inside sp_merge (history)
    main,      \* state of each main execution
    pc,        \* state of each sub-workflow <<execution, table>>
    asked,     \* how many queries of the index its function has made
    files,     \* files of the batch or manifest a sub-workflow works on
    queue,     \* manifests its Map state has still to process
    retry,     \* retryCount of the manifest in work
    stmt,      \* Redshift's view of the statement it polls
    orphans,   \* manifests of running statements nobody polls
    mishaps    \* failures and repeated deliveries so far

subVars == <<pc, asked, files, queue, retry, stmt>>
ledgerVars == <<store, index>>
historyVars == <<arrived, loaded, swallowed>>
vars == <<store, index, arrived, loaded, swallowed, main, pc, asked, files,
          queue, retry, stmt, orphans, mishaps>>

Sub == Exec \X Table

Indexed == {"NEW", "ENQUEUE", "PROCESSING"}
\* "GHOST": an item made by an update of a deleted key, without a timestamp.
ItemStatus == Indexed \cup {"absent", "GHOST"}
StatementStatus == {"none", "running", "finished", "conflict", "failed", "aborted"}
\* States of a running sub-workflow: the Lambda function it invokes next, or
\* "Wait and check again".
Working == {"manifest", "enqueue", "submit", "poll", "wait", "more"}

TypeOK ==
    /\ store \in [File -> ItemStatus]
    /\ index \in [File -> Indexed \cup {"absent"}]
    /\ arrived \subseteq File
    /\ loaded \subseteq File
    /\ swallowed \subseteq File
    /\ main \in [Exec -> {"idle", "counting", "listing", "skip", "loading", "views"}]
    /\ pc \in [Sub -> Working \cup {"idle", "succeeded", "failed"}]
    /\ asked \in [Exec \cup Sub -> Nat]
    /\ files \in [Sub -> SUBSET File]
    /\ queue \in [Sub -> SUBSET SUBSET File]
    /\ retry \in [Sub -> Nat]
    /\ stmt \in [Sub -> StatementStatus]
    /\ orphans \subseteq SUBSET File
    /\ mishaps \in Nat

Init ==
    /\ store = [f \in File |-> "absent"]
    /\ index = [f \in File |-> "absent"]
    /\ arrived = {} /\ loaded = {} /\ swallowed = {}
    /\ main = [e \in Exec |-> "idle"]
    /\ pc = [s \in Sub |-> "idle"]
    /\ asked = [i \in Exec \cup Sub |-> 0]
    /\ files = [s \in Sub |-> {}]
    /\ queue = [s \in Sub |-> {}]
    /\ retry = [s \in Sub |-> 0]
    /\ stmt = [s \in Sub |-> "none"]
    /\ orphans = {}
    /\ mishaps = 0

Mishap ==
    /\ mishaps < MaxMishaps
    /\ mishaps' = mishaps + 1

-----------------------------------------------------------------------------
(* The ledger.                                                             *)

Stored == {f \in File : store[f] # "absent"}

\* updateItem: SET job_status on a key; an absent key becomes an item that
\* has no timestamp, and stays one.
Marked(S, status) ==
    [f \in File |-> IF f \notin S THEN store[f]
                    ELSE IF store[f] \in Indexed THEN status ELSE "GHOST"]

Deleted(S) == [f \in File |-> IF f \in S THEN "absent" ELSE store[f]]

\* Mutant: the index also holds items that have no timestamp.
InIndexWithoutSortKey(f) == store[f]

\* An item without the sort key timestamp is not in the index.
InIndex(f) == IF store[f] = "GHOST" THEN "absent" ELSE store[f]

\* The items of table t that a query of the index returns for a status.
Items(t, status) == {f \in File : TableOf[f] = t /\ index[f] = status}

TableNames ==
    CHOOSE names \in [1 .. Cardinality(Table) -> Table] :
        \A t \in Table : \E n \in DOMAIN names : names[n] = t

\* A function makes its queries one after the other; unless Snapshot, the ledger
\* and the index move on in between.
Asked(i, queries) ==
    {n \in DOMAIN queries : n > asked[i] /\ (Snapshot \/ n = asked[i] + 1)}
LastAsked(i, queries) == Len(queries) \in Asked(i, queries)
Result(query) == Items(query.table, query.status)
Answer(i, queries) == UNION {Result(queries[n]) : n \in Asked(i, queries)}

\* over: what the function found makes no more queries matter, or it has none.
Asks(i, over) == asked' = [asked EXCEPT ![i] = IF over THEN 0 ELSE @ + 1]

\* EventBridge delivers the creation event of f to put-ods-source-to-store.
ObjectCreated(f) ==
    /\ f \notin arrived
    /\ arrived' = arrived \cup {f}
    /\ store' = [store EXCEPT ![f] = "NEW"]
    /\ UNCHANGED <<index, loaded, swallowed, main, subVars, orphans, mishaps>>

\* ... and may deliver it again: the handler replaces whatever item is there.
ObjectCreatedAgain(f) ==
    /\ Mishap
    /\ f \in arrived
    /\ store' = [store EXCEPT ![f] = "NEW"]
    /\ UNCHANGED <<index, historyVars, main, subVars, orphans>>

Propagate(f) ==
    /\ index[f] # InIndex(f)
    /\ index' = [index EXCEPT ![f] = InIndex(f)]
    /\ UNCHANGED <<store, historyVars, main, subVars, orphans, mishaps>>

-----------------------------------------------------------------------------
(* The main execution.                                                     *)

\* An EMR job succeeds and the rule starts a new execution.
Trigger(e) ==
    /\ main[e] = "idle"
    /\ \A t \in Table : pc[<<e, t>>] = "idle"
    /\ main' = [main EXCEPT ![e] = "counting"]
    /\ UNCHANGED <<ledgerVars, historyVars, subVars, orphans, mishaps>>

\* Mutant: only NEW items are pending.
CountPendingNewOnly(e) ==
    /\ main[e] = "counting"
    /\ main' = [main EXCEPT ![e] =
                  IF \E f \in File : index[f] = "NEW" THEN "listing" ELSE "skip"]
    /\ UNCHANGED <<ledgerVars, historyVars, subVars, orphans, mishaps>>

CountQueries ==
    [n \in 1 .. 3 * Len(TableNames) |->
        [table |-> TableNames[((n - 1) \div 3) + 1],
         status |-> <<"ENQUEUE", "PROCESSING", "NEW">>[((n - 1) % 3) + 1]]]

\* The skip check first counts the pending items of every table by status; one
\* that it finds decides it ...
CountPending(e) ==
    /\ main[e] = "counting"
    /\ LET found == Answer(e, CountQueries) # {}
           last == LastAsked(e, CountQueries)
       IN /\ Asks(e, found \/ last)
          /\ main' = [main EXCEPT ![e] = IF found THEN "listing"
                                        ELSE IF last THEN "skip" ELSE @]
    /\ UNCHANGED <<ledgerVars, historyVars, pc, files, queue, retry, stmt, orphans, mishaps>>

\* Mutant: executions that are still in their own skip check are not counted,
\* nor are those that have loaded their tables.
ListExecutionsLoadingOnly(e) ==
    /\ main[e] = "listing"
    /\ IF \E other \in Exec \ {e} : main[other] = "loading"
       THEN main' = [main EXCEPT ![e] = "skip"] /\ UNCHANGED pc
       ELSE /\ main' = [main EXCEPT ![e] = "loading"]
            /\ pc' = [s \in Sub |-> IF s[1] = e THEN "manifest" ELSE pc[s]]
    /\ UNCHANGED <<ledgerVars, historyVars, asked, files, queue, retry, stmt, orphans, mishaps>>

\* ... then lists the running executions, itself left out.
ListExecutions(e) ==
    /\ main[e] = "listing"
    /\ IF \E other \in Exec \ {e} : main[other] # "idle"
       THEN main' = [main EXCEPT ![e] = "skip"] /\ UNCHANGED pc
       ELSE /\ main' = [main EXCEPT ![e] = "loading"]
            /\ pc' = [s \in Sub |-> IF s[1] = e THEN "manifest" ELSE pc[s]]
    /\ UNCHANGED <<ledgerVars, historyVars, asked, files, queue, retry, stmt, orphans, mishaps>>

\* Ignore Running, or the steps after the load (refresh of the views, start of
\* the next state machines) have ended.
EndExecution(e) ==
    /\ main[e] \in {"skip", "views"}
    /\ main' = [main EXCEPT ![e] = "idle"]
    /\ UNCHANGED <<ledgerVars, historyVars, subVars, orphans, mishaps>>

\* The sub-workflows in S end; the statements they were polling go on running.
Stop(S, next) ==
    /\ pc' = [s \in Sub |-> IF s \in S THEN next ELSE pc[s]]
    /\ asked' = [i \in Exec \cup Sub |-> IF i \in S THEN 0 ELSE asked[i]]
    /\ files' = [s \in Sub |-> IF s \in S THEN {} ELSE files[s]]
    /\ queue' = [s \in Sub |-> IF s \in S THEN {} ELSE queue[s]]
    /\ retry' = [s \in Sub |-> IF s \in S THEN 0 ELSE retry[s]]
    /\ stmt' = [s \in Sub |-> IF s \in S THEN "none" ELSE stmt[s]]

Unpolled(S) == {files[s] : s \in {r \in S : stmt[r] = "running"}}

AllBranchesSucceeded(e) ==
    /\ main[e] = "loading"
    /\ \A t \in Table : pc[<<e, t>>] = "succeeded"
    /\ main' = [main EXCEPT ![e] = "views"]
    /\ Stop({e} \X Table, "idle")
    /\ UNCHANGED <<ledgerVars, historyVars, orphans, mishaps>>

\* Mutant: the branches that have not failed go on.
BranchFailedAlone(e) ==
    /\ main[e] = "loading"
    /\ \E t \in Table : pc[<<e, t>>] = "failed"
    /\ main' = [main EXCEPT ![e] = "idle"]
    /\ LET ended == {s \in {e} \X Table : pc[s] = "failed"}
       IN Stop(ended, "idle") /\ orphans' = orphans \cup Unpolled(ended)
    /\ UNCHANGED <<ledgerVars, historyVars, mishaps>>

\* One branch failed, so the Parallel state and the execution fail.  The other
\* branches are stopped, at once or by AbortLeftover.
BranchFailed(e) ==
    /\ main[e] = "loading"
    /\ \E t \in Table : pc[<<e, t>>] = "failed"
    /\ main' = [main EXCEPT ![e] = "idle"]
    /\ LET ended == {s \in {e} \X Table : PromptStop \/ pc[s] \in {"failed", "succeeded"}}
       IN Stop(ended, "idle") /\ orphans' = orphans \cup Unpolled(ended)
    /\ UNCHANGED <<ledgerVars, historyVars, mishaps>>

AbortLeftover(s) ==
    /\ main[s[1]] = "idle"
    /\ pc[s] # "idle"
    /\ Stop({s}, "idle")
    /\ orphans' = orphans \cup Unpolled({s})
    /\ UNCHANGED <<ledgerVars, historyVars, main, mishaps>>

-----------------------------------------------------------------------------
(* The sub-workflow of one table.                                          *)

CandidateQueries ==
    [t \in Table |-> <<[table |-> t, status |-> "NEW"], [table |-> t, status |-> "PROCESSING"],
                      [table |-> t, status |-> "ENQUEUE"]>>]

\* S joins the files found so far: all that was found now, or as many as make
\* a batch of Limit, the earlier queries' first.
FirstOfThem(s, S) ==
    LET queries == CandidateQueries[s[2]]
        size == Cardinality(files[s]) + Cardinality(S)
    IN /\ size = Limit \/ (size < Limit /\ S = Answer(s, queries))
       /\ \A n, m \in Asked(s, queries) :
             m < n /\ S \cap Result(queries[n]) # {} => Result(queries[m]) \subseteq S

\* create-load-manifest queries the index for NEW items of the table, then
\* PROCESSING, then ENQUEUE ones; the first Limit of them are the batch ...
QueryCandidates(s) ==
    /\ pc[s] = "manifest"
    /\ LET last == LastAsked(s, CandidateQueries[s[2]])
       IN \E S \in SUBSET Answer(s, CandidateQueries[s[2]]) :
             /\ FirstOfThem(s, S)
             /\ Asks(s, last)
             /\ files' = [files EXCEPT ![s] = @ \cup S]
             /\ pc' = [pc EXCEPT ![s] = IF ~last THEN @
                                       ELSE IF files[s] \cup S = {} THEN "wait" ELSE "enqueue"]
    /\ UNCHANGED <<ledgerVars, historyVars, main, queue, retry, stmt, orphans, mishaps>>

\* A Wait state (10 seconds at least) has passed.
Waited == BoundedLag => \A f \in File : index[f] = InIndex(f)

WaitAndCheckAgain(s) ==
    /\ pc[s] = "wait"
    /\ Waited
    /\ pc' = [pc EXCEPT ![s] = "more"]
    /\ UNCHANGED <<ledgerVars, historyVars, main, asked, files, queue, retry, stmt, orphans, mishaps>>

\* One manifest per application.
Manifests(S) == {{f \in S : AppOf[f] = a} : a \in App} \ {{}}

\* The Map state takes the next of the manifests in q, with retryCount 0.
NextManifest(s, q) ==
    /\ retry' = [retry EXCEPT ![s] = 0]
    /\ stmt' = [stmt EXCEPT ![s] = "none"]
    /\ asked' = asked
    /\ \/ /\ q = {}
          /\ pc' = [pc EXCEPT ![s] = "more"]
          /\ files' = [files EXCEPT ![s] = {}]
          /\ queue' = [queue EXCEPT ![s] = {}]
       \/ \E m \in q :
             /\ pc' = [pc EXCEPT ![s] = "submit"]
             /\ files' = [files EXCEPT ![s] = m]
             /\ queue' = [queue EXCEPT ![s] = q \ {m}]

\* ... and moves every candidate to ENQUEUE, if all of them still exist.
Enqueue(s) ==
    /\ pc[s] = "enqueue"
    /\ files[s] \subseteq Stored
    /\ store' = Marked(files[s], "ENQUEUE")
    /\ NextManifest(s, Manifests(files[s]))
    /\ UNCHANGED <<index, historyVars, main, orphans, mishaps>>

\* attribute_exists(s3_uri) fails for a candidate the index still showed: the
\* function throws, with some of the other updates done.
EnqueueRefused(s) ==
    /\ pc[s] = "enqueue"
    /\ ~ files[s] \subseteq Stored
    /\ \E S \in SUBSET (files[s] \cap Stored) : store' = Marked(S, "ENQUEUE")
    /\ Stop({s}, "failed")
    /\ UNCHANGED <<index, historyVars, main, orphans, mishaps>>

\* Mutant: the items leave the ledger when their statement is submitted.
SubmitDequeues(s) ==
    /\ pc[s] = "submit"
    /\ store' = Deleted(files[s])
    /\ stmt' = [stmt EXCEPT ![s] = "running"]
    /\ pc' = [pc EXCEPT ![s] = "poll"]
    /\ UNCHANGED <<index, historyVars, main, asked, files, queue, retry, orphans, mishaps>>

\* Mutant: the items stay ENQUEUE while their statement runs.
SubmitUnmarked(s) ==
    /\ pc[s] = "submit"
    /\ stmt' = [stmt EXCEPT ![s] = "running"]
    /\ pc' = [pc EXCEPT ![s] = "poll"]
    /\ UNCHANGED <<ledgerVars, historyVars, main, asked, files, queue, retry, orphans, mishaps>>

\* load-manifest-to-redshift moves the files to PROCESSING, with no condition,
\* and submits CALL sp_merge.
Submit(s) ==
    /\ pc[s] = "submit"
    /\ store' = Marked(files[s], "PROCESSING")
    /\ stmt' = [stmt EXCEPT ![s] = "running"]
    /\ pc' = [pc EXCEPT ![s] = "poll"]
    /\ UNCHANGED <<index, historyVars, main, asked, files, queue, retry, orphans, mishaps>>

\* check-load-status finds FINISHED: it deletes the items of the manifest.
PollFinished(s) ==
    /\ pc[s] = "poll" /\ stmt[s] = "finished" /\ Waited
    /\ store' = Deleted(files[s])
    /\ NextManifest(s, queue[s])
    /\ UNCHANGED <<index, historyVars, main, orphans, mishaps>>

\* It finds FAILED: a conflict is submitted again while retries are left.
PollConflict(s) ==
    /\ pc[s] = "poll" /\ stmt[s] = "conflict" /\ retry[s] < MaxRetry /\ Waited
    /\ retry' = [retry EXCEPT ![s] = @ + 1]
    /\ stmt' = [stmt EXCEPT ![s] = "none"]
    /\ pc' = [pc EXCEPT ![s] = "submit"]
    /\ UNCHANGED <<ledgerVars, historyVars, main, asked, files, queue, orphans, mishaps>>

\* Mutant: the items of a manifest whose load failed are deleted as well.
PollFailedDeletes(s) ==
    /\ pc[s] = "poll" /\ Waited
    /\ \/ stmt[s] \in {"failed", "aborted"}
       \/ stmt[s] = "conflict" /\ retry[s] >= MaxRetry
    /\ store' = Deleted(files[s])
    /\ Stop({s}, "failed")
    /\ UNCHANGED <<index, historyVars, main, orphans, mishaps>>

\* It finds ABORTED, or FAILED with no retry: Job fails.
PollFailed(s) ==
    /\ pc[s] = "poll" /\ Waited
    /\ \/ stmt[s] \in {"failed", "aborted"}
       \/ stmt[s] = "conflict" /\ retry[s] >= MaxRetry
    /\ Stop({s}, "failed")
    /\ UNCHANGED <<ledgerVars, historyVars, main, orphans, mishaps>>

\* Mutant: NEW items of any table are work for this one.
CheckMoreWorkAnyNew(s) ==
    /\ pc[s] = "more"
    /\ pc' = [pc EXCEPT ![s] =
                IF \E t \in Table : Items(t, "NEW") \cup Items(t, "PROCESSING") # {}
                THEN "manifest" ELSE "succeeded"]
    /\ UNCHANGED <<ledgerVars, historyVars, main, asked, files, queue, retry, stmt, orphans,
                   mishaps>>

MoreWorkQueries ==
    [t \in Table |-> [n \in 1 .. 1 + Len(TableNames) |->
        IF n = 1 THEN [table |-> t, status |-> "NEW"]
        ELSE [table |-> TableNames[n - 1], status |-> "PROCESSING"]]]

\* has-more-job-new asks for NEW items of this table, then for PROCESSING items
\* of one table after the other; one that it finds decides it.
CheckMoreWork(s) ==
    /\ pc[s] = "more"
    /\ LET found == Answer(s, MoreWorkQueries[s[2]]) # {}
           last == LastAsked(s, MoreWorkQueries[s[2]])
       IN /\ Asks(s, found \/ last)
          /\ pc' = [pc EXCEPT ![s] = IF found THEN "manifest"
                                    ELSE IF last THEN "succeeded" ELSE @]
    /\ UNCHANGED <<ledgerVars, historyVars, main, files, queue, retry, stmt, orphans, mishaps>>

\* What a Lambda function has done to the ledger when it is cut short; sent:
\* it had submitted the statement, whose id is lost.
CutShort(s, sent) ==
    \/ /\ pc[s] \in {"manifest", "more"} \/ (pc[s] = "poll" /\ stmt[s] # "finished")
       /\ ~ sent /\ UNCHANGED store
    \/ /\ pc[s] = "enqueue" /\ ~ sent
       /\ \E S \in SUBSET (files[s] \cap Stored) : store' = Marked(S, "ENQUEUE")
    \/ /\ pc[s] = "submit"
       /\ \E S \in SUBSET files[s] :
             store' = Marked(S, "PROCESSING") /\ (sent => S = files[s])
    \/ /\ pc[s] = "poll" /\ stmt[s] = "finished" /\ ~ sent
       /\ \E S \in SUBSET files[s] : store' = Deleted(S)

\* An error of the function: no state catches it, the sub-workflow fails.
LambdaFails(s) ==
    /\ Mishap
    /\ \E sent \in BOOLEAN :
          /\ CutShort(s, sent)
          /\ orphans' = orphans \cup Unpolled({s}) \cup (IF sent THEN {files[s]} ELSE {})
    /\ Stop({s}, "failed")
    /\ UNCHANGED <<index, historyVars, main>>

\* An error of the Lambda service: Step Functions invokes the function again,
\* from its first query on.
LambdaRepeats(s) ==
    /\ Mishap
    /\ \E sent \in BOOLEAN :
          /\ CutShort(s, sent)
          /\ orphans' = orphans \cup (IF sent THEN {files[s]} ELSE {})
    /\ asked' = [asked EXCEPT ![s] = 0]
    /\ files' = [files EXCEPT ![s] = IF pc[s] = "manifest" THEN {} ELSE @]
    /\ UNCHANGED <<index, historyVars, main, pc, queue, retry, stmt>>

-----------------------------------------------------------------------------
(* Redshift.                                                               *)

StatementMerges(s) ==
    /\ stmt[s] = "running"
    /\ stmt' = [stmt EXCEPT ![s] = "finished"]
    /\ loaded' = loaded \cup files[s]
    /\ UNCHANGED <<ledgerVars, arrived, swallowed, main, pc, asked, files, queue, retry, orphans,
                   mishaps>>

\* sp_merge is NONATOMIC and its handler only logs: after an error inside it
\* the statement is FINISHED all the same.
StatementSwallowsError(s) ==
    /\ Mishap
    /\ stmt[s] = "running"
    /\ stmt' = [stmt EXCEPT ![s] = "finished"]
    /\ swallowed' = swallowed \cup files[s]
    /\ UNCHANGED <<ledgerVars, arrived, loaded, main, pc, asked, files, queue, retry, orphans>>

StatementFails(s) ==
    /\ Mishap
    /\ stmt[s] = "running"
    /\ \E status \in {"conflict", "failed", "aborted"} :
          stmt' = [stmt EXCEPT ![s] = status]
    /\ UNCHANGED <<ledgerVars, historyVars, main, pc, asked, files, queue, retry, orphans>>

OrphanEnds(m) ==
    /\ orphans' = orphans \ {m}
    /\ loaded' \in {loaded, loaded \cup m}
    /\ UNCHANGED <<ledgerVars, arrived, swallowed, main, subVars, mishaps>>

-----------------------------------------------------------------------------
SubStep(s) ==
    \/ QueryCandidates(s) \/ WaitAndCheckAgain(s)
    \/ Enqueue(s) \/ EnqueueRefused(s) \/ Submit(s)
    \/ PollFinished(s) \/ PollConflict(s) \/ PollFailed(s) \/ CheckMoreWork(s)
    \/ StatementMerges(s)

MainStep(e) ==
    \/ CountPending(e) \/ ListExecutions(e) \/ EndExecution(e)
    \/ AllBranchesSucceeded(e) \/ BranchFailed(e)

Next ==
    \/ \E f \in File : ObjectCreated(f) \/ ObjectCreatedAgain(f) \/ Propagate(f)
    \/ \E e \in Exec : Trigger(e) \/ MainStep(e)
    \/ \E s \in Sub : \/ SubStep(s) \/ AbortLeftover(s)
                      \/ LambdaFails(s) \/ LambdaRepeats(s)
                      \/ StatementSwallowsError(s) \/ StatementFails(s)
    \/ \E m \in orphans : OrphanEnds(m)

Spec == Init /\ [][Next]_vars

\* The services go on: the index catches up, Step Functions takes every step
\* it can, Redshift ends every statement, EMR jobs keep succeeding.
Fairness ==
    /\ \A f \in File : WF_vars(Propagate(f))
    /\ \A e \in Exec : WF_vars(Trigger(e)) /\ WF_vars(MainStep(e))
    /\ \A s \in Sub : WF_vars(SubStep(s)) /\ WF_vars(AbortLeftover(s))

FairSpec == Spec /\ Fairness

-----------------------------------------------------------------------------
(* Properties.                                                             *)

Recorded == {f \in File : store[f] \in Indexed}

\* Files whose load Redshift reported as FINISHED, or did finish.
Done == loaded \cup swallowed

\* A file whose creation event was handled is on the ledger, where the query
\* of a later execution finds it, or a statement with its manifest finished:
\* no failure of a function, repeated invocation or leftover sub-workflow can
\* take it away (put-ods-source-to-store, create-load-manifest,
\* load-manifest-to-redshift and check-load-status all write the same item).
NothingForgotten == arrived \subseteq Recorded \cup Done

\* "Any failure won't lose any data for loading into Redshift"
\* (docs/en/faq.md:74): a file that is no longer on the ledger was merged.
NoDataLost == arrived \subseteq Recorded \cup loaded

\* The skip check lets one execution at a time past it, although it lists the
\* running executions some time after it counted and before it is obeyed.
OneLoading ==
    \A e1, e2 \in Exec :
        {main[e1], main[e2]} \subseteq {"loading", "views"} => e1 = e2

\* When a failed execution takes its branches with it, no two sub-workflows
\* work on one table, so a table has at most one statement that is polled.
OneLoaderPerTable ==
    \A s1, s2 \in Sub :
        s1[2] = s2[2] /\ pc[s1] # "idle" /\ pc[s2] # "idle" => s1 = s2

\* ... and a file stays PROCESSING (or NEW again, if its event is repeated)
\* from the submission of its statement until the end of the statement is
\* acted upon: has-more-job-new of every table counts on it to keep waiting.
InFlightOnLedger ==
    \A s \in Sub : stmt[s] # "none" =>
        \A f \in files[s] : store[f] \in {"PROCESSING", "NEW"} \/ stmt[s] = "finished"

\* A recorded file is loaded in the end, through failures, retries and ENQUEUE
\* items that an execution left behind, if EMR jobs keep succeeding.
EventuallyLoaded ==
    \A f \in File : f \in arrived ~> f \in Done

\* An execution ends: the sub-workflow of one table, which loops while items of
\* any table are PROCESSING, does not wait for ever (and with it, as the skip
\* check sees it running, every later execution).
ExecutionsEnd ==
    \A e \in Exec : main[e] # "idle" ~> main[e] = "idle"

\* The ledger, as what it promises: an at-least-once queue of files.
Ledger == INSTANCE FileLedger WITH
    known <- arrived,
    recorded <- Recorded,
    done <- Done

LedgerSpec == Ledger!Spec
=============================================================================
