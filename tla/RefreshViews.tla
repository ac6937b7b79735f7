---------------------------- MODULE RefreshViews ----------------------------
(***************************************************************************)
(* The refresh of the base view and of the reports.  The end of a load,    *)
(* when the interval is over, or an operator starts an execution.  For one *)
(* application after the other it merges new events into the base view and *)
(* has the report procedures, one after the other, count again the last    *)
(* days from the view.  After the last report the day is marked, and a     *)
(* scheduled execution passes over days that are marked.                   *)
(*                                                                         *)
(* Time goes in ticks, TicksPerDay to a day of the application.            *)
(***************************************************************************)
EXTENDS AppEvents

CONSTANTS
    TimeOf,       \* the timestamp of each event
    TicksPerDay,
    RefreshInterval,  \* REFRESH_INTERVAL_MINUTES
    Freshness,    \* DATA_REFRESHNESS_IN_HOUR
    ReportDays,   \* REFRESH_SP_DAYS
    Reports,      \* the number of report procedures
    Execution,    \* bound: executions at a time
    LastTick,     \* bound: time
    MaxManualRuns,\* bound: executions that operators start
    MaxFailures   \* bound: functions and statements that fail

ASSUME RefreshViewsAssumption ==
    /\ IsFiniteSet(Execution)
    /\ TimeOf \in [Event -> Nat]
    /\ TicksPerDay \in Nat \ {0} /\ RefreshInterval \in Nat \ {0}
    /\ Freshness \in Nat /\ ReportDays \in Nat \ {0} /\ Reports \in Nat \ {0}
    /\ LastTick \in Nat /\ MaxManualRuns \in Nat /\ MaxFailures \in Nat

VARIABLES
    now,
    created,      \* created_time of each event: the place of its load among all
    loading,      \* events whose load statement runs
    table,        \* events committed to event_v2
    lastRefresh,  \* lastRefreshTime on S3
    trigger,      \* the function at the end of a load
    refresh,      \* the executions
    unpolled,     \* statements that run on though their execution has failed
    view,         \* events in the base view
    report,       \* events that each report has counted
    marked,       \* days in refresh_mv_sp_status that the workflow triggered
    manualRuns, failures

refreshVars == <<now, created, loading, table, lastRefresh, trigger, refresh,
                 unpolled, view, report, marked, manualRuns, failures>>

None == -1
Ticks == 0..LastTick
Day(t) == t \div TicksPerDay
Dates == (-ReportDays - 1)..Day(LastTick)
LastDates == (-2)..Day(LastTick)
DayOfEvent(e) == Day(TimeOf[e])

\* The statement of report sp, or for 0 that of the base view.
Statement == [app : App, sp : 0..Reports, from : Dates, to : LastDates, ago : Int]

Ended == [step |-> "off", manual |-> FALSE, from |-> None, to |-> None,
          todo |-> {}, app |-> {}, due |-> {}, sp |-> 0]

RefreshTypeOK ==
    /\ now \in Ticks
    /\ created \in [Event -> 0..Cardinality(Event)]
    /\ loading \subseteq Event
    /\ table \subseteq Event
    /\ lastRefresh \in Ticks \cup {None}
    /\ trigger \in {"idle", "started", "again"}
    /\ refresh \in [Execution ->
          [step : {"off", "check", "skip", "apps", "start sp", "sp", "done"},
           manual : BOOLEAN, from : Dates, to : LastDates, todo : SUBSET App,
           app : SUBSET App, due : SUBSET Event, sp : 0..Reports]]
    /\ unpolled \subseteq Statement
    /\ view \subseteq table
    /\ report \in [1..Reports -> SUBSET Event]
    /\ marked \in [App -> SUBSET Dates]
    /\ manualRuns \in 0..MaxManualRuns
    /\ failures \in 0..MaxFailures

RefreshInit ==
    /\ now = 0
    /\ created = [e \in Event |-> 0]
    /\ loading = {}
    /\ table = {}
    /\ lastRefresh = None
    /\ trigger = "idle"
    /\ refresh = [x \in Execution |-> Ended]
    /\ unpolled = {}
    /\ view = {}
    /\ report = [n \in 1..Reports |-> {}]
    /\ marked = [a \in App |-> {}]
    /\ manualRuns = 0
    /\ failures = 0

Fails ==
    /\ failures < MaxFailures
    /\ failures' = failures + 1

Refreshing(x) == refresh[x].step \in {"apps", "start sp", "sp", "done"}

-----------------------------------------------------------------------------
(* What goes on around the workflow.                                       *)

PassTick ==
    /\ now < LastTick
    /\ now' = now + 1
    /\ UNCHANGED <<created, loading, table, lastRefresh, trigger, refresh, unpolled, view,
                   report, marked, manualRuns, failures>>

\* Mutant: a second load of the same table may run.
LoadStartsAnyTime(e) ==
    /\ created[e] = 0 /\ TimeOf[e] <= now
    /\ created' = [created EXCEPT ![e] = Cardinality({f \in Event : created[f] # 0}) + 1]
    /\ loading' = loading \cup {e}
    /\ UNCHANGED <<now, table, lastRefresh, trigger, refresh, unpolled, view,
                   report, marked, manualRuns, failures>>

\* created_time is the time at which the merge procedure starts.  The load
\* workflow runs one at a time per table.
LoadStarts(e) ==
    /\ created[e] = 0 /\ TimeOf[e] <= now
    /\ \A f \in loading : AppOf[f] # AppOf[e]
    /\ created' = [created EXCEPT ![e] = Cardinality({f \in Event : created[f] # 0}) + 1]
    /\ loading' = loading \cup {e}
    /\ UNCHANGED <<now, table, lastRefresh, trigger, refresh, unpolled, view,
                   report, marked, manualRuns, failures>>

LoadCommits(e) ==
    /\ e \in loading
    /\ loading' = loading \ {e}
    /\ table' = table \cup {e}
    /\ UNCHANGED <<now, created, lastRefresh, trigger, refresh, unpolled, view,
                   report, marked, manualRuns, failures>>

-----------------------------------------------------------------------------
(* The start of an execution.                                              *)

\* At the last tick time goes on but is no longer counted.
RefreshDue ==
    lastRefresh = None \/ now - lastRefresh >= RefreshInterval \/ now = LastTick

\* The day on which the latest EMR job's window ends: today, or before today's
\* first job the day before.  (The last tick begins with its jobs done.)
LatestJobDay == IF now \in {0, LastTick} THEN {Day(now)} ELSE {Day(now) - 1, Day(now)}

Started(manual, to) ==
    [step |-> "check", manual |-> manual, from |-> None, to |-> to,
     todo |-> {}, app |-> {}, due |-> {}, sp |-> 0]

\* A load ends.  The refresh goes up to the day before the latest job's.  Loads
\* end far enough apart for one execution to have made its check before the
\* next is started.
TriggerRefresh(x) ==
    /\ RefreshDue
    /\ \/ trigger = "again"
       \/ /\ trigger = "idle"
          /\ \A y \in Execution : refresh[y].step \in {"check", "skip"} => refresh[y].manual
    /\ refresh[x].step = "off"
    /\ \E end \in LatestJobDay :
          refresh' = [refresh EXCEPT ![x] = Started(FALSE, end - 1)]
    /\ trigger' = "started"
    /\ UNCHANGED <<now, created, loading, table, lastRefresh, unpolled, view,
                   report, marked, manualRuns, failures>>

StampRefresh ==
    /\ trigger = "started"
    /\ lastRefresh' = now
    /\ trigger' = "idle"
    /\ UNCHANGED <<now, created, loading, table, refresh, unpolled, view, report,
                   marked, manualRuns, failures>>

\* The function fails before it has stored the time; it may be invoked again
\* at once.
TriggerFails ==
    /\ Fails
    /\ trigger = "started"
    /\ trigger' \in {"idle", "again"}
    /\ UNCHANGED <<now, created, loading, table, lastRefresh, refresh, unpolled,
                   view, report, marked, manualRuns>>

\* An operator has historical days counted again.
RecalculateByHand(x) ==
    /\ manualRuns < MaxManualRuns /\ now >= Freshness
    /\ refresh[x].step = "off"
    /\ refresh' = [refresh EXCEPT ![x] = Started(TRUE, None)]
    /\ manualRuns' = manualRuns + 1
    /\ UNCHANGED <<now, created, loading, table, lastRefresh, trigger, unpolled,
                   view, report, marked, failures>>

\* The days of a run: those of its input, which the model chooses only here.
\* A manual run begins with a day that the view no longer reaches by itself.
DaysOf(x) ==
    IF refresh[x].manual
    THEN {d \in (0..Day(now)) \X (0..Day(now)) :
             d[1] <= d[2] /\ d[1] * TicksPerDay <= now - Freshness}
    ELSE {<<refresh[x].to - ReportDays + 1, refresh[x].to>>}

\* Mutant: executions that operators started are not seen.
HasOtherScheduledRefresh(x) ==
    \E y \in Execution \ {x} : refresh[y].step # "off" /\ ~refresh[y].manual

\* The RUNNING executions, those that are about to skip too.
HasOtherRunningRefresh(x) == \E y \in Execution \ {x} : refresh[y].step # "off"

Continued(x, days) ==
    [step |-> "apps", manual |-> refresh[x].manual, from |-> days[1], to |-> days[2],
     todo |-> App, app |-> {}, due |-> {}, sp |-> 0]

CheckRefreshStart(x) ==
    /\ refresh[x].step = "check"
    /\ IF HasOtherRunningRefresh(x)
       THEN refresh' = [refresh EXCEPT ![x].step = "skip"]
       ELSE \E days \in DaysOf(x) : refresh' = [refresh EXCEPT ![x] = Continued(x, days)]
    /\ UNCHANGED <<now, created, loading, table, lastRefresh, trigger, unpolled,
                   view, report, marked, manualRuns, failures>>

\* An execution that skips, or has done all applications.
RefreshEnds(x) ==
    /\ \/ refresh[x].step = "skip"
       \/ refresh[x].step = "apps" /\ refresh[x].todo = {}
    /\ refresh' = [refresh EXCEPT ![x] = Ended]
    /\ UNCHANGED <<now, created, loading, table, lastRefresh, trigger, unpolled,
                   view, report, marked, manualRuns, failures>>

-----------------------------------------------------------------------------
(* One application: its base view, then its reports.                       *)

\* The execution at a step of an application.
At(x, step, app, due, sp) ==
    [step |-> step, manual |-> refresh[x].manual, from |-> refresh[x].from,
     to |-> refresh[x].to, todo |-> refresh[x].todo, app |-> app, due |-> due, sp |-> sp]

\* How far back the base view is refreshed: a manual run goes to its start.
HoursAgo(x) == IF refresh[x].manual THEN now - refresh[x].from * TicksPerDay ELSE Freshness

Fresh(e, ago) == TimeOf[e] >= now - ago

\* Mutant: rows that are not committed yet are read.
NewEventsOfLoads(a, ago) ==
    {e \in table \cup loading :
        /\ AppOf[e] = a /\ Fresh(e, ago)
        /\ \A f \in view : AppOf[f] = a /\ Fresh(f, ago) => created[e] >= created[f]}

\* clickstream_event_base_view_sp: events created since the newest of the view.
NewEvents(a, ago) ==
    {e \in table :
        /\ AppOf[e] = a /\ Fresh(e, ago)
        /\ \A f \in view : AppOf[f] = a /\ Fresh(f, ago) => created[e] >= created[f]}

\* The days that the reports count.
Counted(x) == refresh[x].from..refresh[x].to

\* What the execution owes the reports: the events that are there, of its days,
\* as far back as the view goes.
Due(x, a) == {e \in table : /\ AppOf[e] = a /\ Fresh(e, HoursAgo(x))
                            /\ DayOfEvent(e) \in Counted(x)}

RefreshBasicView(x, a) ==
    /\ refresh[x].step = "apps" /\ a \in refresh[x].todo
    /\ view' = view \cup NewEvents(a, HoursAgo(x))
    /\ refresh' = [refresh EXCEPT ![x] = At(x, "start sp", {a}, Due(x, a), 0)]
    /\ UNCHANGED <<now, created, loading, table, lastRefresh, trigger, unpolled,
                   report, marked, manualRuns, failures>>

\* Mutant: no day is reported once some day was marked.
IsSkipSpRefreshOnceMarked(x, a) == ~refresh[x].manual /\ marked[a] # {}

\* A scheduled run passes over the reports when a day not before its own is
\* marked.
IsSkipSpRefresh(x, a) == ~refresh[x].manual /\ \E d \in marked[a] : d >= refresh[x].to

NextApp(x, a) ==
    [At(x, "apps", {}, {}, 0) EXCEPT !.todo = @ \ {a}]

CheckStartSp(x, a) ==
    /\ refresh[x].step = "start sp" /\ refresh[x].app = {a}
    /\ refresh' = [refresh EXCEPT ![x] =
          IF IsSkipSpRefresh(x, a) THEN NextApp(x, a) ELSE [@ EXCEPT !.step = "sp"]]
    /\ UNCHANGED <<now, created, loading, table, lastRefresh, trigger, unpolled,
                   view, report, marked, manualRuns, failures>>

OfDays(S, a, days) == {e \in S : AppOf[e] = a /\ DayOfEvent(e) \in days}

\* A report procedure deletes its counts of these days and counts again.
CountsAgain(n, a, days) ==
    report' = [report EXCEPT ![n] = (@ \ OfDays(@, a, days)) \cup OfDays(view, a, days)]

\* The next report is counted.
RefreshSp(x, a) ==
    /\ refresh[x].step = "sp" /\ refresh[x].app = {a} /\ refresh[x].sp < Reports
    /\ LET n == refresh[x].sp + 1
       IN /\ CountsAgain(n, a, Counted(x))
          /\ refresh' = [refresh EXCEPT ![x] =
                At(x, IF n = Reports THEN "done" ELSE "sp", {a}, refresh[x].due, n)]
    /\ UNCHANGED <<now, created, loading, table, lastRefresh, trigger, unpolled, view,
                   marked, manualRuns, failures>>

\* The last report is done: the day is marked, if the run was scheduled.
MarkRefreshed(x, a) ==
    /\ refresh[x].step = "done" /\ refresh[x].app = {a}
    /\ marked' = IF refresh[x].manual THEN marked
                 ELSE [marked EXCEPT ![a] = @ \cup {refresh[x].to}]
    /\ refresh' = [refresh EXCEPT ![x] = NextApp(x, a)]
    /\ UNCHANGED <<now, created, loading, table, lastRefresh, trigger, unpolled,
                   view, report, manualRuns, failures>>

\* The statement that marks the day is not waited for, and fails.
MarkIsLost(x, a) ==
    /\ Fails
    /\ refresh[x].step = "done" /\ refresh[x].app = {a}
    /\ refresh' = [refresh EXCEPT ![x] = NextApp(x, a)]
    /\ UNCHANGED <<now, created, loading, table, lastRefresh, trigger, unpolled,
                   view, report, marked, manualRuns>>

-----------------------------------------------------------------------------
(* Failures.                                                               *)

\* The statements that x may be waiting for.
Submitted(x) ==
    [app : IF refresh[x].step = "apps" THEN refresh[x].todo ELSE refresh[x].app,
     sp : {n \in 0..Reports : \/ refresh[x].step = "apps" /\ n = 0
                              \/ refresh[x].step = "sp" /\ n = refresh[x].sp + 1},
     from : {refresh[x].from}, to : {refresh[x].to}, ago : {HoursAgo(x)}]

\* A function or a statement fails, and with it the whole execution: the
\* applications that are left get no refresh.  If it was a function, the
\* statement it was to poll runs on.
RefreshFails(x) ==
    /\ Fails
    /\ refresh[x].step = "check" \/ Refreshing(x)
    /\ refresh' = [refresh EXCEPT ![x] = Ended]
    /\ unpolled' \in {unpolled} \cup {unpolled \cup {s} : s \in Submitted(x)}
    /\ UNCHANGED <<now, created, loading, table, lastRefresh, trigger, view, report,
                   marked, manualRuns>>

\* A statement that nobody polls any more commits, or fails.
UnpolledEnds(s) ==
    /\ unpolled' = unpolled \ {s}
    /\ \/ UNCHANGED <<view, report>>
       \/ s.sp = 0 /\ view' = view \cup NewEvents(s.app, s.ago) /\ UNCHANGED report
       \/ s.sp # 0 /\ CountsAgain(s.sp, s.app, s.from..s.to) /\ UNCHANGED view
    /\ UNCHANGED <<now, created, loading, table, lastRefresh, trigger, refresh, marked,
                   manualRuns, failures>>

-----------------------------------------------------------------------------

\* What an execution does by itself.
Refreshes(x) ==
    \/ CheckRefreshStart(x)
    \/ RefreshEnds(x)
    \/ \E a \in App : \/ RefreshBasicView(x, a)
                      \/ CheckStartSp(x, a)
                      \/ RefreshSp(x, a)
                      \/ MarkRefreshed(x, a)

RefreshNext ==
    \/ PassTick
    \/ \E e \in Event : LoadStarts(e) \/ LoadCommits(e)
    \/ StampRefresh \/ TriggerFails
    \/ \E s \in unpolled : UnpolledEnds(s)
    \/ \E x \in Execution :
          \/ TriggerRefresh(x)
          \/ RecalculateByHand(x)
          \/ Refreshes(x)
          \/ \E a \in App : MarkIsLost(x, a)
          \/ RefreshFails(x)

RefreshSpec == RefreshInit /\ [][RefreshNext]_refreshVars

\* Time passes, jobs and loads go on, and executions proceed.
RefreshFairness ==
    /\ WF_refreshVars(PassTick)
    /\ WF_refreshVars(\E e \in Event : LoadCommits(e))
    /\ WF_refreshVars(\E x \in Execution : TriggerRefresh(x))
    /\ WF_refreshVars(StampRefresh)
    /\ \A x \in Execution : WF_refreshVars(Refreshes(x))

RefreshFairSpec == RefreshSpec /\ RefreshFairness

-----------------------------------------------------------------------------
(* What the workflow promises.                                             *)

\* When a day is marked, every report has counted what the execution owed: the
\* events of its days that were in the table, and no older than the view goes
\* back, when the execution refreshed the view.  Whatever failed before, runs
\* on unpolled, or was loaded meanwhile, no event falls between two refreshes.
ReportsComplete == [][\A a \in App : marked'[a] # marked[a] =>
    \A x \in Execution : refresh[x].app = {a} =>
        \A n \in 1..Reports : refresh[x].due \subseteq report[n]]_refreshVars

\* Two executions never count at once: a procedure that deletes what another
\* has just counted would fail, or count twice.  (Beside one statement that an
\* execution left running when it failed, the next one may count.)
OneRefresh == \A x, y \in Execution : Refreshing(x) /\ Refreshing(y) => x = y

\* The day before the last is reported for every application in the end,
\* whichever executions were skipped, failed or started twice.
EventuallyReported ==
    \A a \in App : (now = LastTick) ~> (Day(LastTick) - 1 \in marked[a])
=============================================================================
