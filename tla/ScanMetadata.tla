---------------------------- MODULE ScanMetadata ----------------------------
(***************************************************************************)
(* The metadata scan workflow.  After a load, and when an operator asks    *)
(* for it, an execution scans a window of whole days of events in Redshift *)
(* application by application, merges what it finds into the metadata      *)
(* items of DynamoDB, and, when all applications are done, records where   *)
(* the next window starts.                                                 *)
(*                                                                         *)
(* An item holds one month.  The item of the newest month lies under the   *)
(* sort key 'latest', older ones under their month.  One id per            *)
(* application stands for all its events and properties; the items of ids  *)
(* are independent of one another.                                         *)
(***************************************************************************)
EXTENDS AppEvents

CONSTANTS
    DayOf,       \* the day of each event
    MonthDays,   \* days of a month
    LastDay,     \* bound: the last day
    Exec,        \* bound: executions of the workflow at a time
    MaxManual,   \* bound: executions that operators start
    MaxMishaps   \* bound: failed steps and repeated invocations

ASSUME ScanMetadataAssumption ==
    /\ IsFiniteSet(Exec)
    /\ DayOf \in [Event -> Nat]
    /\ MonthDays \in Nat \ {0}
    /\ LastDay \in Nat /\ MaxManual \in Nat /\ MaxMishaps \in Nat

VARIABLES
    today,
    jobDay,      \* the date in the job information under 'latest'
    loaded,      \* events in Redshift
    info,        \* workflow-job-info.json on S3
    scan,        \* the executions
    found,       \* what the procedure left in the tables of each application
    calls,       \* procedures that run on though their execution has failed
    meta,        \* the items in DynamoDB: application -> sort key -> item
    late,        \* events loaded after the scan of their day (history)
    torn,        \* applications whose store broke off; TRUE: by hand, or with items
                 \* that were left unwritten, so that no scan makes up for it (history)
    manuals, faults

scanVars == <<today, jobDay, loaded, info, scan, found, calls, meta, late, torn,
              manuals, faults>>
tableVars == <<found, calls>>

Never == -1
Days == 0..LastDay
Interval == 1  \* WORKFLOW_MIN_INTERVAL: 1440 minutes

Month(d) == d \div MonthDays
Months == 0..Month(LastDay)
Latest == Month(LastDay) + 1  \* sorts after every month, as 'latest' does
Keys == Months \cup {Latest}

NoItem == [origin |-> Never, seen |-> {}]
NoDraft == [key |-> Never, seen |-> {}]
NoDrafts == [m \in Months |-> NoDraft]

Off == [step |-> "off", manual |-> FALSE, at |-> Never, start |-> Never, end |-> Never,
        todo |-> {}, app |-> {}, rows |-> {}, left |-> {}, drafts |-> NoDrafts,
        new |-> {}, marked |-> Never]

\* Everything that the items of an application tell.
Seen(a) == UNION {meta[a][k].seen : k \in Keys}

ScanTypeOK ==
    /\ today \in Days /\ jobDay \in Days
    /\ loaded \subseteq Event
    /\ info \in [at : Days \cup {Never}, end : Days \cup {Never}]
    /\ scan \in [Exec -> [step : {"off", "check", "skip", "apps", "store", "rows"},
                          manual : BOOLEAN, at : Days \cup {Never},
                          start : Days \cup {Never}, end : Days \cup {Never},
                          todo : SUBSET App, app : SUBSET App, rows : SUBSET Event,
                          left : SUBSET Days,
                          drafts : [Months -> [key : Keys \cup {Never},
                                               seen : SUBSET Event]],
                          new : SUBSET Months, marked : Months \cup {Never}]]
    /\ found \in [App -> SUBSET Event]
    /\ calls \subseteq [app : App, start : Days \cup {Never}, end : Days \cup {Never}]
    /\ meta \in [App -> [Keys -> [origin : Months \cup {Never}, seen : SUBSET Event]]]
    /\ late \subseteq Event
    /\ torn \subseteq App \X BOOLEAN
    /\ manuals \in 0..MaxManual
    /\ faults \in 0..MaxMishaps

ScanInit ==
    /\ today = 0 /\ jobDay = 0
    /\ loaded = {}
    /\ info = [at |-> Never, end |-> Never]
    /\ scan = [x \in Exec |-> Off]
    /\ found = [a \in App |-> {}]
    /\ calls = {}
    /\ meta = [a \in App |-> [k \in Keys |-> NoItem]]
    /\ late = {}
    /\ torn = {}
    /\ manuals = 0
    /\ faults = 0

Fault ==
    /\ faults < MaxMishaps
    /\ faults' = faults + 1

Storing(x) == scan[x].step = "rows"
Active(x) == scan[x].step \in {"apps", "store"} \/ Storing(x)

-----------------------------------------------------------------------------
(* What goes on around the workflow.                                       *)

Pass ==
    /\ today < LastDay
    /\ today' = today + 1
    /\ UNCHANGED <<tableVars, jobDay, loaded, info, scan, meta, late, torn, manuals, faults>>

\* A job is submitted for the data until now: it is the latest.
JobEnds ==
    /\ jobDay < today
    /\ jobDay' = today
    /\ UNCHANGED <<tableVars, today, loaded, info, scan, meta, late, torn, manuals, faults>>

\* The day of e is covered by a scheduled window that was recorded or has
\* already been read.
Closed(e) ==
    \/ DayOf[e] < info.end
    \/ \E x \in Exec : /\ Active(x) /\ ~scan[x].manual
                       /\ AppOf[e] \notin scan[x].todo \/ AppOf[e] \in scan[x].app
                       /\ DayOf[e] < scan[x].end

LoadEvent(e) ==
    /\ e \notin loaded
    /\ DayOf[e] <= today
    /\ loaded' = loaded \cup {e}
    /\ late' = IF Closed(e) THEN late \cup {e} ELSE late
    /\ UNCHANGED <<tableVars, today, jobDay, info, scan, meta, torn, manuals, faults>>

-----------------------------------------------------------------------------
(* The start of an execution.                                              *)

\* A load ends and starts the workflow.  Loads end far enough apart for one
\* execution to have made its check before the next load starts another.
StartAfterLoad(x) ==
    /\ scan[x].step = "off"
    /\ loaded # {}
    /\ \A y \in Exec : scan[y].step \in {"check", "skip"} => scan[y].manual
    /\ scan' = [scan EXCEPT ![x] = [Off EXCEPT !.step = "check"]]
    /\ UNCHANGED <<tableVars, today, jobDay, loaded, info, meta, late, torn, manuals, faults>>

\* An operator starts it, for the days from 'from' to before 'to'; a later end
\* is cut to today.
StartByHand(x, from, to) ==
    /\ manuals < MaxManual
    /\ scan[x].step = "off"
    /\ from < to /\ to <= today
    /\ scan' = [scan EXCEPT ![x] =
          [Off EXCEPT !.step = "check", !.manual = TRUE, !.start = from, !.end = to]]
    /\ manuals' = manuals + 1
    /\ UNCHANGED <<tableVars, today, jobDay, loaded, info, meta, late, torn, faults>>

Continue(x, start, end) ==
    [Off EXCEPT !.step = "apps", !.manual = scan[x].manual, !.at = today,
                !.start = start, !.end = end, !.todo = App]

\* A day or more since the last execution began.  At the last instant time
\* goes on but is no longer counted.
IntervalIsOver == info.at = Never \/ today - info.at >= Interval \/ today = LastDay

\* Mutant: executions that operators started are not seen.
HasOtherScheduledExecutions(x) ==
    \E y \in Exec \ {x} : scan[y].step # "off" /\ ~scan[y].manual

\* The check lists the RUNNING executions, those that are about to skip too.
HasOtherRunningExecutions(x) == \E y \in Exec \ {x} : scan[y].step # "off"

\* Mutant: the next window starts at the day on which the last scan began.
WindowFromStart == info.at

\* The day before which the last recorded window ended, if there is one.
WindowFrom == info.end

\* Mutant: the end is rounded up to the next day.
LatestJobEndRoundedUp == jobDay + 1

\* getMaxScanEndDate
LatestJobEnd == jobDay

CheckWorkflowStart(x) ==
    /\ scan[x].step = "check"
    /\ scan' = [scan EXCEPT ![x] =
          IF HasOtherRunningExecutions(x) \/ ~(scan[x].manual \/ IntervalIsOver)
          THEN [Off EXCEPT !.step = "skip"]
          ELSE IF scan[x].manual THEN Continue(x, scan[x].start, scan[x].end)
          ELSE Continue(x, WindowFrom, LatestJobEnd)]
    /\ UNCHANGED <<tableVars, today, jobDay, loaded, info, meta, late, torn, manuals, faults>>

Skip(x) ==
    /\ scan[x].step = "skip"
    /\ scan' = [scan EXCEPT ![x] = Off]
    /\ UNCHANGED <<tableVars, today, jobDay, loaded, info, meta, late, torn, manuals, faults>>

-----------------------------------------------------------------------------
(* One application: the stored procedure, then the store function.         *)

\* What sp_scan_metadata finds: the loaded events from day start to before day end.
InWindow(a, start, end) == {e \in loaded : AppOf[e] = a /\ start <= DayOf[e] /\ DayOf[e] < end}

\* getExistingItemsFromDDB, for the months of the rows: of two copies of a
\* month the one that sorts first is read last and stays.
Existing(a, rows) ==
    [m \in Months |->
        LET copies == {k \in Keys : meta[a][k].origin = m}
        IN IF copies = {} \/ \A e \in rows : Month(DayOf[e]) # m THEN NoDraft
           ELSE LET k == CHOOSE k \in copies : \A l \in copies : k <= l
                IN [key |-> k, seen |-> meta[a][k].seen]]

\* Months of the rows without an item yet.
New(a, rows) ==
    {m \in {Month(DayOf[e]) : e \in rows} : \A k \in Keys : meta[a][k].origin # m}

StoreBegins(x, a, rows) ==
    [scan[x] EXCEPT !.step = "rows", !.app = {a}, !.rows = rows,
                    !.left = {DayOf[e] : e \in rows},
                    !.drafts = Existing(a, rows), !.new = New(a, rows), !.marked = Never]

\* The procedure drops the tables of the application, which it holds from then
\* on, and fills them anew; one that still runs is waited for.
ScanApp(x, a) ==
    /\ scan[x].step = "apps"
    /\ a \in scan[x].todo
    /\ \A call \in calls : call.app # a
    /\ found' = [found EXCEPT ![a] = InWindow(a, scan[x].start, scan[x].end)]
    /\ scan' = [scan EXCEPT ![x].step = "store", ![x].app = {a}]
    /\ UNCHANGED <<today, jobDay, loaded, info, calls, meta, late, torn, manuals, faults>>

\* A procedure that nobody polls any more ends, or fails and leaves the tables
\* as they were.
CallEnds(call) ==
    /\ calls' = calls \ {call}
    /\ \/ found' = [found EXCEPT ![call.app] = InWindow(call.app, call.start, call.end)]
       \/ found' = found
    /\ UNCHANGED <<today, jobDay, loaded, info, scan, meta, late, torn, manuals, faults>>

\* The store function reads what the tables hold and the items of their months.
StoreApp(x, a) ==
    /\ scan[x].step = "store" /\ scan[x].app = {a}
    /\ scan' = [scan EXCEPT ![x] = StoreBegins(x, a, found[a])]
    /\ UNCHANGED <<tableVars, today, jobDay, loaded, info, meta, late, torn, manuals, faults>>

\* checkLatestMonthWithDDB and checkLatestMonthWithMemory: the sort key of a
\* row of month m, and the month that is then taken for the latest.
Draft(x, m, d, key) ==
    [key |-> key,
     seen |-> scan[x].drafts[m].seen \cup {e \in scan[x].rows : DayOf[e] = d}]

\* Mutant: the old 'latest' item is not copied to its month.
StoreRowNoCopy(x, a, d) ==
    LET m == Month(d)
        latest == meta[a][Latest]
    IN
    /\ scan[x].step = "rows" /\ scan[x].app = {a} /\ d \in scan[x].left
    /\ scan[x].marked = Never
    /\ scan' = [scan EXCEPT ![x].left = @ \ {d},
          ![x].marked = IF m < latest.origin THEN latest.origin ELSE m,
          ![x].drafts[m] = Draft(x, m, d, IF m < latest.origin THEN m ELSE Latest)]
    /\ UNCHANGED <<tableVars, today, jobDay, loaded, info, meta, late, torn, manuals, faults>>

\* The first row of the id: the item under 'latest' decides.  If it is older
\* than m, it is put under its own month, before anything else is written.
StoreRow(x, a, d) ==
    LET m == Month(d)
        latest == meta[a][Latest]
    IN
    /\ scan[x].step = "rows" /\ scan[x].app = {a} /\ d \in scan[x].left
    /\ scan[x].marked = Never
    /\ scan' = [scan EXCEPT ![x].left = @ \ {d},
          ![x].marked = IF m < latest.origin THEN latest.origin ELSE m,
          ![x].drafts[m] = Draft(x, m, d, IF m < latest.origin THEN m ELSE Latest)]
    /\ meta' = IF latest.origin # Never /\ latest.origin < m
               THEN [meta EXCEPT ![a][latest.origin] = latest] ELSE meta
    /\ UNCHANGED <<tableVars, today, jobDay, loaded, info, late, torn, manuals, faults>>

\* Mutant: the month that was the latest so far keeps the key 'latest'.
StoreNextRowKeepsKey(x, a, d) ==
    LET m == Month(d)
        marked == scan[x].marked
    IN
    /\ scan[x].step = "rows" /\ scan[x].app = {a} /\ d \in scan[x].left
    /\ marked # Never
    /\ m > marked => scan[x].drafts[marked] # NoDraft
    /\ scan' = [scan EXCEPT ![x].left = @ \ {d},
          ![x].marked = IF m < marked THEN marked ELSE m,
          ![x].drafts[m] = Draft(x, m, d, IF m < marked THEN m ELSE Latest)]
    /\ UNCHANGED <<tableVars, today, jobDay, loaded, info, meta, late, torn, manuals, faults>>

\* Any other row: what has been marked decides, and a month that is no longer
\* the latest gets its own key.
StoreNextRow(x, a, d) ==
    LET m == Month(d)
        marked == scan[x].marked
        drafts == IF m > marked THEN [scan[x].drafts EXCEPT ![marked].key = marked]
                  ELSE scan[x].drafts
    IN
    /\ scan[x].step = "rows" /\ scan[x].app = {a} /\ d \in scan[x].left
    /\ marked # Never
    /\ m > marked => scan[x].drafts[marked] # NoDraft
    /\ scan' = [scan EXCEPT ![x].left = @ \ {d},
          ![x].marked = IF m < marked THEN marked ELSE m,
          ![x].drafts = [drafts EXCEPT ![m] =
                            Draft(x, m, d, IF m < marked THEN m ELSE Latest)]]
    /\ UNCHANGED <<tableVars, today, jobDay, loaded, info, meta, late, torn, manuals, faults>>

\* All rows are merged: the items are written in batches, those that were
\* read from DynamoDB before new ones.
BatchWrite(x, a, m) ==
    LET draft == scan[x].drafts[m] IN
    /\ scan[x].step = "rows" /\ scan[x].left = {} /\ scan[x].app = {a}
    /\ draft # NoDraft
    /\ m \in scan[x].new => scan[x].new = {n \in Months : scan[x].drafts[n] # NoDraft}
    /\ meta' = [meta EXCEPT ![a][draft.key] = [origin |-> m, seen |-> draft.seen]]
    /\ scan' = [scan EXCEPT ![x].drafts[m] = NoDraft, ![x].new = @ \ {m}]
    /\ UNCHANGED <<tableVars, today, jobDay, loaded, info, late, torn, manuals, faults>>

\* DynamoDB has no capacity for an item: it answers with the item unprocessed,
\* which nobody looks at.
BatchLeaves(x, a, m) ==
    /\ Fault
    /\ scan[x].step = "rows" /\ scan[x].left = {} /\ scan[x].app = {a}
    /\ scan[x].drafts[m] # NoDraft
    /\ scan' = [scan EXCEPT ![x].drafts[m] = NoDraft, ![x].new = @ \ {m}]
    /\ torn' = torn \cup {<<a, TRUE>>}
    /\ UNCHANGED <<tableVars, today, jobDay, loaded, info, meta, late, manuals>>

AppDone(x, a) ==
    /\ scan[x].step = "rows" /\ scan[x].left = {} /\ scan[x].app = {a}
    /\ scan[x].drafts = NoDrafts
    /\ scan' = [scan EXCEPT ![x] =
          [Continue(x, scan[x].start, scan[x].end) EXCEPT
              !.at = scan[x].at, !.todo = scan[x].todo \ {a}]]
    /\ UNCHANGED <<tableVars, today, jobDay, loaded, info, meta, late, torn, manuals, faults>>

\* Lambda invokes the store function once more, which reads the tables again.
StoreRepeats(x, a) ==
    /\ Fault
    /\ Storing(x) /\ scan[x].app = {a}
    /\ scan' = [scan EXCEPT ![x] = StoreBegins(x, a, found[a])]
    /\ UNCHANGED <<tableVars, today, jobDay, loaded, info, meta, late, torn, manuals>>

\* The procedure that x waits for, if it has called one.
Called(x) == [app : IF scan[x].step = "apps" THEN scan[x].todo ELSE {},
              start : {scan[x].start}, end : {scan[x].end}]

\* The check, the procedure, a poll of it or the store fails, or a draft is
\* missing, and with it the execution; the procedure may run on.
ExecutionFails(x) ==
    /\ Fault
    /\ scan[x].step = "check" \/ Active(x)
    /\ scan' = [scan EXCEPT ![x] = Off]
    /\ torn' = IF Storing(x) THEN torn \cup (scan[x].app \X {scan[x].manual}) ELSE torn
    /\ calls' \in {calls} \cup {calls \cup {call} : call \in Called(x)}
    /\ UNCHANGED <<today, jobDay, loaded, info, found, meta, late, manuals>>

\* Mutant: a manual scan is recorded too.
UpdateWorkflowInfoAlways(x) ==
    /\ scan[x].step = "apps" /\ scan[x].todo = {}
    /\ info' = [at |-> scan[x].at, end |-> scan[x].end]
    /\ scan' = [scan EXCEPT ![x] = Off]
    /\ UNCHANGED <<tableVars, today, jobDay, loaded, meta, late, torn, manuals, faults>>

UpdateWorkflowInfo(x) ==
    /\ scan[x].step = "apps" /\ scan[x].todo = {}
    /\ info' = IF scan[x].manual THEN info
               ELSE [at |-> scan[x].at, end |-> scan[x].end]
    /\ scan' = [scan EXCEPT ![x] = Off]
    /\ UNCHANGED <<tableVars, today, jobDay, loaded, meta, late, torn, manuals, faults>>

-----------------------------------------------------------------------------

\* What an execution does by itself.
Proceed(x) ==
    \/ CheckWorkflowStart(x)
    \/ Skip(x)
    \/ UpdateWorkflowInfo(x)
    \/ \E a \in App :
          \/ ScanApp(x, a) \/ StoreApp(x, a)
          \/ \E d \in Days : StoreRow(x, a, d) \/ StoreNextRow(x, a, d)
          \/ \E m \in Months : BatchWrite(x, a, m)
          \/ AppDone(x, a)

ScanNext ==
    \/ Pass \/ JobEnds
    \/ \E e \in Event : LoadEvent(e)
    \/ \E call \in calls : CallEnds(call)
    \/ \E x \in Exec :
          \/ StartAfterLoad(x)
          \/ \E from, to \in Days : StartByHand(x, from, to)
          \/ Proceed(x)
          \/ \E a \in App : \/ StoreRepeats(x, a)
                            \/ \E m \in Months : BatchLeaves(x, a, m)
          \/ ExecutionFails(x)

ScanSpec == ScanInit /\ [][ScanNext]_scanVars

\* Time passes, loads go on, Redshift ends every statement, and executions
\* proceed.
ScanFairness ==
    /\ WF_scanVars(Pass) /\ WF_scanVars(JobEnds)
    /\ WF_scanVars(\E x \in Exec : StartAfterLoad(x))
    /\ WF_scanVars(\E call \in calls : CallEnds(call))
    /\ \A x \in Exec : WF_scanVars(Proceed(x))

ScanFairSpec == ScanSpec /\ ScanFairness

-----------------------------------------------------------------------------
(* What the workflow promises.                                             *)

\* One execution at a time is past the check, so no two of them drop and
\* fill the same tables or merge into the same items.  (A procedure of one that
\* has failed may still run: that of the next waits for the tables.)
OneScan == \A x, y \in Exec : Active(x) /\ Active(y) => x = y

\* The windows that were recorded tile the days: whatever executions failed,
\* were skipped or were started by hand, every event that was there when the
\* window of its day was scanned is in the metadata.  What the store reads is
\* what the procedure of its own execution has found, whatever else still ran.
\* (Not so for an application that a manual scan left half stored, or with an
\* item that DynamoDB left unprocessed.)
NothingSkipped ==
    \A e \in loaded \ late :
        DayOf[e] < info.end /\ <<AppOf[e], TRUE>> \notin torn => e \in Seen(AppOf[e])

\* No store of a was given up half-way.
Whole(a) == torn \cap ({a} \X BOOLEAN) = {}

\* The items of a and the drafts in store x, by sort key, agree with the
\* order of the months.
InOrder(a) ==
    /\ \A m \in Months : meta[a][m] # NoItem => meta[a][m].origin = m
    /\ \A k \in Keys : meta[a][k].origin <= meta[a][Latest].origin

\* Between stores 'latest' is the newest month and every other item lies
\* under its own month; no batch holds two items with one key, which
\* DynamoDB would refuse.
LatestIsNewest ==
    /\ \A a \in App : (\A x \in Exec : Storing(x) => scan[x].app # {a}) /\ Whole(a)
          => InOrder(a)
    /\ \A x \in Exec : Storing(x) /\ scan[x].left = {} =>
          \A m, n \in Months : scan[x].drafts[m] # NoDraft /\ scan[x].drafts[n] # NoDraft
              /\ scan[x].drafts[m].key = scan[x].drafts[n].key => m = n

\* The rows that a store of a is about to merge.
Merging(a) == UNION {scan[x].rows : x \in {y \in Exec : Storing(y) /\ scan[y].app = {a}}}

\* Metadata once stored is never lost: not when a month is moved, and not
\* when a store stops anywhere and is invoked again.  What the store under way
\* has rows of may be away until it is done: invoked again, it may copy
\* 'latest' over the month that its first invocation had written already.  (A
\* store that is given up half-way may leave two copies of a month, or months
\* without 'latest'.)
MetadataStays ==
    [][\A a \in App : Whole(a) => (Seen(a) \ Merging(a)) \subseteq Seen(a)']_scanVars

\* Again and again every loaded event of a finished day is in the metadata,
\* unless it came after the scan of its day or the store of its application
\* left something out that no scan makes up for.
EventuallyScanned ==
    []<>(\A e \in loaded : DayOf[e] < LastDay /\ <<AppOf[e], TRUE>> \notin torn
                                => e \in Seen(AppOf[e]) \cup late)
=============================================================================
