------------------------------ MODULE DataJobs ------------------------------
(***************************************************************************)
(* The data-processing jobs: the Lambda function that submits an EMR       *)
(* Serverless job for every window of time, the input that the job reads   *)
(* in its window, the records of jobs on S3, and the Lambda function that  *)
(* puts the record of a failed job on a queue.                             *)
(*                                                                         *)
(* Windows are chained by one object, job-latest.json: a window starts     *)
(* where that record ends.  The record is written last, so a submission    *)
(* that breaks off makes the next one start from the same instant.         *)
(*                                                                         *)
(* Time is counted in ticks.  S3 keeps LastModified in seconds, the        *)
(* submitter computes in milliseconds, hence Second ticks to a second.     *)
(***************************************************************************)
EXTENDS Integers, FiniteSets

CONSTANTS
    Objects,     \* bound: objects that the ingestion writes
    Jobs,        \* bound: EMR job runs
    Second, Day, \* ticks of a second and of a day
    Buffered,    \* DATA_BUFFERED_SECONDS, in ticks
    Settle,      \* the longest an object takes from LastModified to be listed
    LateParts,   \* TRUE: an object may be written in the day before it is put
    Attempts,    \* invocations of the listener for one event
    Horizon,     \* bound: the last instant
    MaxMishaps   \* bound: failed calls, failed and cancelled jobs

ASSUME DataJobsAssumption ==
    /\ Objects \in Nat /\ Jobs \in Nat
    /\ Second \in Nat \ {0} /\ Day \in Nat \ {0}
    /\ Buffered \in Nat /\ Settle \in Nat
    /\ LateParts \in BOOLEAN
    /\ Attempts \in Nat \ {0}
    /\ Horizon \in Nat /\ MaxMishaps \in Nat

VARIABLES
    now,
    object,    \* of each object: LastModified, the day in its path, listed or not
    latest,    \* endTimestamp of job-latest.json
    origin,    \* start of the first window of that chain (history)
    work,      \* the invocation of the submitter that runs
    job,       \* state and window of each job run
    read,      \* the objects that a successful job had as its input
    recorded,  \* jobs with a job-<id>.json
    event,     \* attempts left to handle the state event of a job
    dlq,       \* jobs whose record is on the dead letter queue
    redone,    \* failed jobs that an operator has submitted again
    broken,    \* a submission broke off between StartJobRun and 'latest' (history)
    mishaps

jobVars == <<job, read>>
recordVars == <<latest, origin, recorded>>
listenerVars == <<event, dlq>>
vars == <<now, object, latest, origin, work, job, read, recorded, event, dlq,
          redone, broken, mishaps>>

faultVars == <<broken, mishaps>>

\* Objects and job runs are numbered in the order of their creation.
Object == 1..Objects
Job == 1..Jobs
NoJob == 0

Absent == -1
Time == 0..Horizon
Floor(t) == Second * (t \div Second)
DayOf(t) == t \div Day
Midnight(t) == Day * DayOf(t)

NoObject == [at |-> Absent, part |-> Absent, listed |-> FALSE]
Idle == [step |-> "idle", start |-> 0, end |-> 0, rerun |-> FALSE, id |-> NoJob]
NotStarted == [state |-> "none", start |-> 0, end |-> 0]

TypeOK ==
    /\ now \in Time
    /\ object \in [Object -> [at : Int, part : Int, listed : BOOLEAN]]
    /\ latest \in Time \cup {Absent}
    /\ origin \in Time
    /\ work \in [step : {"idle", "count", "start", "record", "latest"},
                 start : Time, end : Time, rerun : BOOLEAN, id : Job \cup {NoJob}]
    /\ work.step \in {"record", "latest"} => work.id \in Job
    /\ job \in [Job -> [state : {"none", "SUBMITTED", "SUCCESS", "FAILED",
                                 "CANCELLED"},
                        start : Time, end : Time]]
    /\ read \in [Job -> SUBSET Object]
    /\ recorded \subseteq Job
    /\ event \in [Job -> 0..Attempts]
    /\ dlq \subseteq Job
    /\ redone \subseteq Job
    /\ broken \in BOOLEAN
    /\ mishaps \in 0..MaxMishaps

Init ==
    /\ now = 0
    /\ object = [o \in Object |-> NoObject]
    /\ latest = Absent
    /\ origin = 0
    /\ work = Idle
    /\ job = [j \in Job |-> NotStarted]
    /\ read = [j \in Job |-> {}]
    /\ recorded = {}
    /\ event = [j \in Job |-> 0]
    /\ dlq = {}
    /\ redone = {}
    /\ broken = FALSE
    /\ mishaps = 0

Mishap ==
    /\ mishaps < MaxMishaps
    /\ mishaps' = mishaps + 1

-----------------------------------------------------------------------------
(* Time, and the objects that the ingestion puts under the prefix of a day. *)

Pending(o) == object[o] # NoObject /\ ~object[o].listed

\* No object stays unlisted longer than Settle: the stable wait time that
\* DATA_BUFFERED_SECONDS stands for.
Tick ==
    /\ now < Horizon
    /\ \A o \in Object : Pending(o) => now - object[o].at < Settle
    /\ now' = now + 1
    /\ UNCHANGED <<object, recordVars, work, jobVars, listenerVars, redone, faultVars>>

\* Uploads end early enough for a window to pass them before the Horizon.
Upload(o) ==
    /\ object[o] = NoObject
    /\ \A p \in Object : p < o => object[p] # NoObject
    /\ now + Buffered + Second < Horizon
    /\ \E day \in (IF LateParts THEN DayOf(now) - 1 ELSE DayOf(now))..DayOf(now) :
          /\ day >= 0
          /\ object' = [object EXCEPT ![o] =
                [at |-> Floor(now), part |-> day, listed |-> FALSE]]
    /\ UNCHANGED <<now, recordVars, work, jobVars, listenerVars, redone, faultVars>>

Appear(o) ==
    /\ Pending(o)
    /\ object' = [object EXCEPT ![o].listed = TRUE]
    /\ UNCHANGED <<now, recordVars, work, jobVars, listenerVars, redone, faultVars>>

-----------------------------------------------------------------------------
(* The input of a window.                                                  *)

\* The prefixes of the days from start to end, end's own day included.
DatePrefixes(start, end) == DayOf(start)..DayOf(end)

InPrefixes(o, start, end) ==
    object[o].listed /\ object[o].part \in DatePrefixes(start, end)

\* The objects that the submitter counts: LastModified in [start, end).
Counted(start, end) ==
    {o \in Object : /\ InPrefixes(o, start, end)
                    /\ object[o].at >= start
                    /\ object[o].at < end}

\* The instants in the range of a Spark job: modifiedAfter is the start cut to
\* its second, modifiedBefore the end cut to its second plus a second, and
\* both are exclusive.
InRange(t, start, end) == Floor(start) < t /\ t < Floor(end) + Second

Input(start, end) ==
    {o \in Object : InPrefixes(o, start, end) /\ InRange(object[o].at, start, end)}

-----------------------------------------------------------------------------
(* The submitter: one invocation at a time (reservedConcurrentExecutions). *)

\* Mutant: the window ends at the current time.
WindowEndNow == now

WindowEnd == now - Buffered

\* Mutant: the first window after a pause starts at midnight.
WindowStartMidnight == Midnight(now)

\* The end of the previous window, else the start of today.
WindowStart == IF latest = Absent THEN Midnight(now) ELSE latest

\* Mutant: a window that ends before it starts is not refused.
InvokeUnchecked ==
    /\ work.step = "idle"
    /\ work' = [step |-> "count", start |-> WindowStart, end |-> WindowEnd,
                rerun |-> FALSE, id |-> NoJob]
    /\ UNCHANGED <<now, object, recordVars, jobVars, listenerVars, redone, faultVars>>

\* The schedule, or a retry of an invocation that failed: chooses a window;
\* throws when start > end.
Invoke ==
    /\ work.step = "idle"
    /\ WindowStart <= WindowEnd
    /\ work' = [step |-> "count", start |-> WindowStart, end |-> WindowEnd,
                rerun |-> FALSE, id |-> NoJob]
    /\ UNCHANGED <<now, object, recordVars, jobVars, listenerVars, redone, faultVars>>

\* An operator invokes it with the event, startTimestamp and endTimestamp of a
\* message of the queue, and reRunJob.
InvokeReRun(j) ==
    /\ work.step = "idle"
    /\ j \in dlq \ redone
    /\ work' = [step |-> "count", start |-> job[j].start, end |-> job[j].end,
                rerun |-> TRUE, id |-> NoJob]
    /\ redone' = redone \cup {j}
    /\ UNCHANGED <<now, object, recordVars, jobVars, listenerVars, faultVars>>

\* calculateObjects: nothing is submitted, and nothing recorded, for a window
\* without objects.
CalculateObjects ==
    /\ work.step = "count"
    /\ work' = IF Counted(work.start, work.end) = {} THEN Idle
               ELSE [work EXCEPT !.step = "start"]
    /\ UNCHANGED <<now, object, recordVars, jobVars, listenerVars, redone, faultVars>>

Started(j, start, end) ==
    /\ job[j].state = "none"
    /\ \A k \in Job : k < j => job[k].state # "none"
    /\ job' = [job EXCEPT ![j] = [state |-> "SUBMITTED", start |-> start, end |-> end]]
    /\ UNCHANGED read

StartJobRun(j) ==
    /\ work.step = "start"
    /\ Started(j, work.start, work.end)
    /\ work' = [step |-> "record", start |-> work.start, end |-> work.end,
                rerun |-> work.rerun, id |-> j]
    /\ UNCHANGED <<now, object, recordVars, listenerVars, redone, faultVars>>

\* Mutant: a re-run records itself as the latest job too.
RecordJobInfoAlways ==
    /\ work.step = "record"
    /\ recorded' = recorded \cup {work.id}
    /\ work' = [work EXCEPT !.step = "latest"]
    /\ UNCHANGED <<now, object, latest, origin, jobVars, listenerVars, redone, faultVars>>

\* recordJobInfo under the job's own id; a re-run records nothing else.
RecordJobInfo ==
    /\ work.step = "record"
    /\ recorded' = recorded \cup {work.id}
    /\ work' = IF work.rerun THEN Idle ELSE [work EXCEPT !.step = "latest"]
    /\ UNCHANGED <<now, object, latest, origin, jobVars, listenerVars, redone, faultVars>>

\* recordJobInfo under 'latest'.
RecordLatest ==
    /\ work.step = "latest"
    /\ latest' = work.end
    /\ origin' = IF latest = Absent THEN work.start ELSE origin
    /\ work' = Idle
    /\ UNCHANGED <<now, object, recorded, jobVars, listenerVars, redone, faultVars>>

\* A call of the invocation fails, or the invocation is cut off.
SubmitterFails ==
    /\ Mishap
    /\ work.step # "idle"
    /\ work' = Idle
    /\ broken' = (broken \/ work.step \in {"record", "latest"})
    /\ UNCHANGED <<now, object, recordVars, jobVars, listenerVars, redone>>

-----------------------------------------------------------------------------
(* The job runs of the EMR Serverless application.                         *)

\* A Spark job lists its input, at any time after it was submitted, and
\* succeeds.  The listener copies the record of the job and sends metrics;
\* nothing reads the copy.
JobSucceeds(j) ==
    /\ job[j].state = "SUBMITTED"
    /\ job' = [job EXCEPT ![j].state = "SUCCESS"]
    /\ read' = [read EXCEPT ![j] = Input(job[j].start, job[j].end)]
    /\ UNCHANGED <<now, object, recordVars, work, listenerVars, redone, faultVars>>

\* The rule passes the event FAILED to the listener.
JobFails(j) ==
    /\ Mishap
    /\ job[j].state = "SUBMITTED"
    /\ job' = [job EXCEPT ![j].state = "FAILED"]
    /\ event' = [event EXCEPT ![j] = Attempts]
    /\ UNCHANGED <<now, object, recordVars, work, read, dlq, redone, broken>>

\* Cancelled, by hand or at its execution timeout: no rule matches.
JobIsCancelled(j) ==
    /\ Mishap
    /\ job[j].state = "SUBMITTED"
    /\ job' = [job EXCEPT ![j].state = "CANCELLED"]
    /\ UNCHANGED <<now, object, recordVars, work, read, listenerVars, redone, broken>>

\* An operator clones a failed job in EMR Studio; the clone has no record.
Clone(j, k) ==
    /\ job[j].state = "FAILED"
    /\ j \notin redone
    /\ Started(k, job[j].start, job[j].end)
    /\ redone' = redone \cup {j}
    /\ UNCHANGED <<now, object, recordVars, work, listenerVars, faultVars>>

-----------------------------------------------------------------------------
(* The listener of job states.                                             *)

\* Mutant: the listener takes the failure of a job without a record as handled.
HandleFailureOnce(j) ==
    /\ event[j] > 0
    /\ dlq' = dlq \cup ({j} \cap recorded)
    /\ event' = [event EXCEPT ![j] = 0]
    /\ UNCHANGED <<now, object, recordVars, work, jobVars, redone, faultVars>>

\* FAILED: sends the job's record to the queue.  Without a record the send
\* throws, and the event is retried until its attempts are used up.  Retries
\* are minutes apart: a second attempt meets a submitter that has gone on.
HandleFailure(j) ==
    /\ event[j] > 0
    /\ IF j \in recorded
       THEN /\ dlq' = dlq \cup {j}
            /\ event' = [event EXCEPT ![j] = 0]
       ELSE /\ event[j] = Attempts \/ work.id # j
            /\ event' = [event EXCEPT ![j] = @ - 1]
            /\ UNCHANGED dlq
    /\ UNCHANGED <<now, object, recordVars, work, jobVars, redone, faultVars>>

\* A call of the listener fails before the message is sent.
ListenerFails(j) ==
    /\ Mishap
    /\ event[j] > 0
    /\ event' = [event EXCEPT ![j] = @ - 1]
    /\ UNCHANGED <<now, object, recordVars, work, jobVars, dlq, redone, broken>>

-----------------------------------------------------------------------------

Submitter ==
    \/ CalculateObjects
    \/ \E j \in Job : StartJobRun(j)
    \/ RecordJobInfo
    \/ RecordLatest

Next ==
    \/ Tick
    \/ \E o \in Object : Upload(o) \/ Appear(o)
    \/ Invoke
    \/ Submitter
    \/ SubmitterFails
    \/ \E j \in Job : \/ InvokeReRun(j)
                      \/ JobSucceeds(j) \/ JobFails(j) \/ JobIsCancelled(j)
                      \/ \E k \in Job : Clone(j, k)
                      \/ HandleFailure(j)
                      \/ ListenerFails(j)

Spec == Init /\ [][Next]_vars

\* The schedule keeps invoking the submitter, started work goes on, and what
\* EMR, S3 and EventBridge owe is delivered.
Fairness ==
    /\ WF_vars(Tick)
    /\ \A o \in Object : WF_vars(Appear(o))
    /\ WF_vars(Invoke)
    /\ WF_vars(Submitter)
    /\ \A j \in Job : /\ WF_vars(JobSucceeds(j) \/ JobFails(j))
                      /\ WF_vars(HandleFailure(j))

FairSpec == Spec /\ Fairness

-----------------------------------------------------------------------------
(* What the jobs promise.                                                  *)

\* Written in the prefix of the day it was put on.
OnTime(o) == object[o] # NoObject /\ object[o].part = DayOf(object[o].at)

\* The chain of windows has passed o, which was put after its beginning.
Passed(o) ==
    /\ latest # Absent
    /\ Floor(origin) < object[o].at
    /\ object[o].at < Floor(latest) + Second

\* Job j has o, will have it, or is known to have failed on it.
Answers(j, o) ==
    /\ InRange(object[o].at, job[j].start, job[j].end)
    /\ \/ job[j].state = "SUBMITTED" /\ object[o].listed
       \/ job[j].state = "SUCCESS" /\ o \in read[j]
       \/ job[j].state = "FAILED" /\ (j \in dlq \/ event[j] > 0)
       \/ job[j].state = "CANCELLED"

\* Every object that the chain of windows has passed is in the input of a job
\* that has read it or will, or that failed and whose window is on the queue
\* (or on its way to it): whatever step of the submitter, of a job or of the
\* listener broke off, job-latest.json never moves past unread objects.
NoObjectLost == \A o \in Object : OnTime(o) /\ Passed(o) => \E j \in Job : Answers(j, o)

\* Seconds and milliseconds do not disagree at the edge of a window: unless
\* a submission broke off an object is read by one successful job only, re-runs and clones of
\* failed jobs included.
ReadOnce ==
    ~broken =>
        \A o \in Object : \A j, k \in Job :
            /\ job[j].state = "SUCCESS" /\ o \in read[j]
            /\ job[k].state = "SUCCESS" /\ o \in read[k]
            => j = k

\* From the start of the first window to the end of the latest one every
\* instant is in the window of a job that has a record, without which the
\* failure of the job could not be queued.
NoGap ==
    latest # Absent =>
        \A t \in (Floor(origin) + 1)..(Floor(latest) + Second - 1) :
            \E j \in recorded : InRange(t, job[j].start, job[j].end)

\* An object put on time after the chain of windows has begun is in the end
\* read by a successful job, or its window is on the queue (or was cancelled).
EventuallyRead ==
    \A o \in Object :
        (Pending(o) /\ OnTime(o) /\ latest # Absent)
        ~> \E j \in Job :
              \/ job[j].state = "SUCCESS" /\ o \in read[j]
              \/ /\ j \in dlq \/ job[j].state = "CANCELLED"
                 /\ InRange(object[o].at, job[j].start, job[j].end)
=============================================================================
