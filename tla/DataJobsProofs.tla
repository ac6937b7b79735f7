--------------------------- MODULE DataJobsProofs ---------------------------
(***************************************************************************)
(* Theorems about the data-processing jobs, for any number of objects and  *)
(* jobs, any length of seconds and days, and any order of failures.        *)
(***************************************************************************)
EXTENDS DataJobs, TLAPS

LEMMA TimesMonotone ==
    ASSUME NEW d \in Nat, NEW a \in Int, NEW b \in Int, a <= b
    PROVE  d * a <= d * b
  BY SMTT(30)

LEMMA Euclid ==
    ASSUME NEW t \in Int, NEW d \in Nat \ {0}
    PROVE  /\ t \div d \in Int
           /\ d * (t \div d) \in Int
           /\ d * (t \div d) <= t
           /\ t < d * (t \div d) + d
  BY SMTT(30)

LEMMA FloorBounds ==
    ASSUME NEW t \in Int
    PROVE  Floor(t) \in Int /\ Floor(t) <= t /\ t < Floor(t) + Second
  BY Euclid, DataJobsAssumption DEF Floor

LEMMA QuotientMonotone ==
    ASSUME NEW d \in Nat \ {0}, NEW a \in Int, NEW b \in Int, a <= b
    PROVE  a \div d <= b \div d
<1>1. SUFFICES ASSUME b \div d < a \div d PROVE FALSE
  BY Euclid
<1>2. d * ((b \div d) + 1) <= d * (a \div d)
  BY <1>1, TimesMonotone, Euclid
<1>3. d * ((b \div d) + 1) = d * (b \div d) + d
  BY Euclid
<1> QED
  BY <1>2, <1>3, Euclid

LEMMA Quotients ==
    ASSUME NEW a \in Int, NEW b \in Int, NEW d \in Nat \ {0},
           d * a < d * b + d
    PROVE  d * a <= d * b
<1>1. SUFFICES ASSUME b + 1 <= a PROVE FALSE
  BY TimesMonotone
<1>2. d * (b + 1) <= d * a
  BY <1>1, TimesMonotone
<1>3. d * (b + 1) = d * b + d
  OBVIOUS
<1> QED
  BY <1>2, <1>3

\* Instants cut to their second are whole seconds apart.
LEMMA FloorOrder ==
    ASSUME NEW a \in Int, NEW b \in Int
    PROVE  /\ Floor(a) < Floor(b) + Second => Floor(a) <= b
           /\ Floor(b) < Floor(a) => b <= Floor(a)
<1>1. /\ Second \in Nat \ {0}
      /\ a \div Second \in Int
      /\ b \div Second \in Int
  BY Euclid, DataJobsAssumption
<1>2. Floor(a) < Floor(b) + Second => Floor(a) <= Floor(b)
  BY <1>1, Quotients DEF Floor
<1>3. Floor(a) < Floor(b) + Second \/ Floor(b) + Second <= Floor(a)
  BY FloorBounds, <1>1
<1>4. ASSUME Floor(b) < Floor(a)
      PROVE  Floor(b) + Second <= Floor(a)
  BY <1>2, <1>3, <1>4, FloorBounds, <1>1
<1> QED
  BY <1>1, <1>2, <1>4, FloorBounds
LEMMA MidnightBounds ==
    ASSUME NEW t \in Nat
    PROVE  Midnight(t) \in Nat /\ Midnight(t) <= t /\ DayOf(t) \in Nat
<1>1. Day \in Nat \ {0}
  BY DataJobsAssumption
<1>2. /\ t \div Day \in Int
      /\ Day * (t \div Day) \in Int
      /\ Day * (t \div Day) <= t
      /\ t < Day * (t \div Day) + Day
  BY <1>1, Euclid
<1>3. 0 <= t \div Day
  <2>1. SUFFICES ASSUME t \div Day <= -1 PROVE FALSE
    BY <1>2
  <2>2. Day * (t \div Day) <= Day * (-1)
    BY <1>1, <1>2, <2>1, TimesMonotone
  <2> QED
    BY <1>1, <1>2, <2>2
<1>4. Day * 0 <= Day * (t \div Day)
  BY <1>1, <1>2, <1>3, TimesMonotone
<1> QED
  BY <1>1, <1>2, <1>3, <1>4 DEF Midnight, DayOf

-----------------------------------------------------------------------------
(* Types.                                                                  *)

LEMMA TypeInit == Init => TypeOK
<1> SUFFICES ASSUME Init PROVE TypeOK
  OBVIOUS
<1>1. 0 \in Time /\ 0 \in 0..Attempts /\ 0 \in 0..MaxMishaps
  BY DataJobsAssumption DEF Time
<1>2. NoObject \in [at : Int, part : Int, listed : BOOLEAN]
  BY DEF NoObject, Absent
<1> QED
  BY <1>1, <1>2 DEF Init, TypeOK, Idle, NotStarted

LEMMA TypeStep == TypeOK /\ [Next]_vars => TypeOK'
<1> SUFFICES ASSUME TypeOK, [Next]_vars PROVE TypeOK'
  OBVIOUS
<1> USE DataJobsAssumption
<1>1. CASE Tick
  BY <1>1 DEF Tick, TypeOK, Time, recordVars, jobVars, listenerVars, faultVars
<1>2. ASSUME NEW o \in Object, Upload(o) PROVE TypeOK'
  <2>1. Floor(now) \in Int /\ DayOf(now) \in Int
    BY FloorBounds, MidnightBounds DEF TypeOK, Time
  <2> QED
    BY <1>2, <2>1 DEF Upload, TypeOK, recordVars, jobVars, listenerVars, faultVars
<1>3. ASSUME NEW o \in Object, Appear(o) PROVE TypeOK'
  BY ZenonT(60), <1>3 DEF Appear, TypeOK, recordVars, jobVars, listenerVars, faultVars
<1>4. CASE Invoke
  <2>1. WindowStart \in Time /\ WindowEnd \in Time
    BY <1>4, MidnightBounds DEF Invoke, WindowStart, WindowEnd, TypeOK, Time, Absent
  <2> QED
    BY <1>4, <2>1 DEF Invoke, TypeOK, recordVars, jobVars, listenerVars, faultVars
<1>5. CASE CalculateObjects
  BY <1>5 DEF CalculateObjects, TypeOK, Idle, Time, recordVars, jobVars, listenerVars, faultVars
<1>6. ASSUME NEW j \in Job, StartJobRun(j) PROVE TypeOK'
  BY <1>6 DEF StartJobRun, Started, TypeOK, recordVars, jobVars, listenerVars, faultVars
<1>7. CASE RecordJobInfo
  BY <1>7 DEF RecordJobInfo, TypeOK, Idle, Time, recordVars, jobVars, listenerVars, faultVars
<1>8. CASE RecordLatest
  BY <1>8 DEF RecordLatest, TypeOK, Idle, Time, recordVars, jobVars, listenerVars, faultVars
<1>9. CASE SubmitterFails
  BY <1>9 DEF SubmitterFails, Mishap, TypeOK, Idle, Time, recordVars, jobVars, listenerVars, faultVars
<1>10. ASSUME NEW j \in Job, InvokeReRun(j) PROVE TypeOK'
  BY <1>10 DEF InvokeReRun, TypeOK, recordVars, jobVars, listenerVars, faultVars
<1>11. ASSUME NEW j \in Job, JobSucceeds(j) PROVE TypeOK'
  BY <1>11 DEF JobSucceeds, Input, TypeOK, recordVars, jobVars, listenerVars, faultVars
<1>12. ASSUME NEW j \in Job, JobFails(j) PROVE TypeOK'
  BY <1>12 DEF JobFails, Mishap, TypeOK, recordVars, jobVars, listenerVars, faultVars
<1>13. ASSUME NEW j \in Job, JobIsCancelled(j) PROVE TypeOK'
  BY <1>13 DEF JobIsCancelled, Mishap, TypeOK, recordVars, jobVars, listenerVars, faultVars
<1>14. ASSUME NEW j \in Job, NEW k \in Job, Clone(j, k) PROVE TypeOK'
  BY <1>14 DEF Clone, Started, TypeOK, recordVars, jobVars, listenerVars, faultVars
<1>15. ASSUME NEW j \in Job, HandleFailure(j) PROVE TypeOK'
  BY <1>15 DEF HandleFailure, TypeOK, recordVars, jobVars, listenerVars, faultVars
<1>16. ASSUME NEW j \in Job, ListenerFails(j) PROVE TypeOK'
  BY <1>16 DEF ListenerFails, Mishap, TypeOK, recordVars, jobVars, listenerVars, faultVars
<1>17. CASE UNCHANGED vars
  BY <1>17 DEF vars, TypeOK
<1> QED
  BY <1>1, <1>2, <1>3, <1>4, <1>5, <1>6, <1>7, <1>8, <1>9, <1>10, <1>11, <1>12,
     <1>13, <1>14, <1>15, <1>16, <1>17 DEF Next, Submitter
-----------------------------------------------------------------------------
(* The windows, and what is known of them while work goes on.              *)

\* A window ends Buffered before the instant at which it was chosen.
WindowsInv ==
    /\ work.step # "idle" => work.end <= now - Buffered
    /\ \A j \in Job : job[j].state # "none" => job[j].end <= now - Buffered

\* The job that is being recorded has the window in work.
WorkInv ==
    work.step \in {"record", "latest"} =>
        /\ job[work.id].state # "none"
        /\ job[work.id].start = work.start
        /\ job[work.id].end = work.end

\* A window that is not a re-run starts where the latest record ends, and its
\* job is recorded before it becomes the latest.
ChainInv ==
    /\ work.step # "idle" /\ ~work.rerun /\ latest # Absent => work.start = latest
    /\ work.step = "latest" => ~work.rerun /\ work.id \in recorded

\* Only started jobs have records, only failed jobs are queued.
RecordsInv ==
    /\ \A j \in recorded : job[j].state # "none"
    /\ \A j \in Job : j \in dlq \/ event[j] > 0 => job[j].state = "FAILED"

PlanInv == TypeOK /\ WindowsInv /\ WorkInv /\ ChainInv /\ RecordsInv

LEMMA PlanInit == Init => PlanInv
<1> SUFFICES ASSUME Init PROVE PlanInv
  OBVIOUS
<1>1. TypeOK
  BY TypeInit
<1> QED
  BY <1>1 DEF Init, PlanInv, WindowsInv, WorkInv, ChainInv, RecordsInv, Idle, NotStarted

LEMMA WindowsStep == PlanInv /\ [Next]_vars => WindowsInv'
<1> SUFFICES ASSUME PlanInv, [Next]_vars PROVE WindowsInv'
  OBVIOUS
<1> USE DataJobsAssumption DEF PlanInv
<1>1. CASE Tick
  BY <1>1 DEF Tick, WindowsInv, TypeOK, Time, jobVars
<1>2. CASE Invoke
  <2>1. WindowEnd = now - Buffered
    BY DEF WindowEnd
  <2> QED
    BY <1>2, <2>1 DEF Invoke, WindowsInv, TypeOK, Time, jobVars
<1>3. CASE CalculateObjects
  BY <1>3 DEF CalculateObjects, WindowsInv, TypeOK, Idle, jobVars
<1>4. ASSUME NEW j \in Job, StartJobRun(j) PROVE WindowsInv'
  BY <1>4 DEF StartJobRun, Started, WindowsInv, TypeOK
<1>5. CASE RecordJobInfo
  BY <1>5 DEF RecordJobInfo, WindowsInv, TypeOK, Idle, jobVars
<1>6. CASE RecordLatest \/ SubmitterFails
  BY <1>6 DEF RecordLatest, SubmitterFails, WindowsInv, TypeOK, Idle, jobVars
<1>7. ASSUME NEW j \in Job, InvokeReRun(j) PROVE WindowsInv'
  BY <1>7 DEF InvokeReRun, WindowsInv, RecordsInv, TypeOK, jobVars
<1>8. ASSUME NEW j \in Job, JobSucceeds(j) \/ JobFails(j) \/ JobIsCancelled(j)
      PROVE  WindowsInv'
  <2>1. UNCHANGED <<now, work>> /\ job[j].state # "none"
    BY <1>8 DEF JobSucceeds, JobFails, JobIsCancelled
  <2>2. \A k \in Job : job'[k].end = job[k].end /\ (job'[k].state # "none" => job[k].state # "none")
    BY <1>8 DEF JobSucceeds, JobFails, JobIsCancelled, TypeOK
  <2> QED
    BY <2>1, <2>2 DEF WindowsInv
<1>9. ASSUME NEW j \in Job, NEW k \in Job, Clone(j, k) PROVE WindowsInv'
  BY <1>9 DEF Clone, Started, WindowsInv, TypeOK
<1>10. CASE UNCHANGED <<now, work, job>>
  BY <1>10 DEF WindowsInv
<1> QED
  BY <1>1, <1>2, <1>3, <1>4, <1>5, <1>6, <1>7, <1>8, <1>9, <1>10
  DEF Next, Submitter, Upload, Appear, HandleFailure, ListenerFails, jobVars, vars

LEMMA WorkStep == PlanInv /\ [Next]_vars => WorkInv'
<1> SUFFICES ASSUME PlanInv, [Next]_vars PROVE WorkInv'
  OBVIOUS
<1> USE DataJobsAssumption DEF PlanInv
<1>1. CASE Invoke \/ CalculateObjects \/ RecordLatest \/ SubmitterFails
  BY <1>1 DEF Invoke, CalculateObjects, RecordLatest, SubmitterFails, WorkInv, TypeOK, Idle
<1>2. ASSUME NEW j \in Job, InvokeReRun(j) PROVE WorkInv'
  BY <1>2 DEF InvokeReRun, WorkInv
<1>3. ASSUME NEW j \in Job, StartJobRun(j) PROVE WorkInv'
  BY <1>3 DEF StartJobRun, Started, WorkInv, TypeOK
<1>4. CASE RecordJobInfo
  BY <1>4 DEF RecordJobInfo, WorkInv, TypeOK, Idle, jobVars
<1>5. ASSUME NEW j \in Job, JobSucceeds(j) \/ JobFails(j) \/ JobIsCancelled(j)
      PROVE  WorkInv'
  BY <1>5 DEF JobSucceeds, JobFails, JobIsCancelled, WorkInv, TypeOK
<1>6. ASSUME NEW j \in Job, NEW k \in Job, Clone(j, k) PROVE WorkInv'
  BY <1>6 DEF Clone, Started, WorkInv, TypeOK
<1>7. CASE UNCHANGED <<work, job>>
  BY <1>7 DEF WorkInv
<1> QED
  BY <1>1, <1>2, <1>3, <1>4, <1>5, <1>6, <1>7
  DEF Next, Submitter, Tick, Upload, Appear, HandleFailure, ListenerFails, jobVars, vars

LEMMA ChainStep == PlanInv /\ [Next]_vars => ChainInv'
<1> SUFFICES ASSUME PlanInv, [Next]_vars PROVE ChainInv'
  OBVIOUS
<1> USE DataJobsAssumption DEF PlanInv
<1>1. CASE Invoke
  BY <1>1 DEF Invoke, WindowStart, ChainInv, recordVars
<1>2. CASE CalculateObjects
  BY <1>2 DEF CalculateObjects, ChainInv, TypeOK, Idle, recordVars
<1>3. ASSUME NEW j \in Job, StartJobRun(j) PROVE ChainInv'
  BY <1>3 DEF StartJobRun, ChainInv, TypeOK, recordVars
<1>4. CASE RecordJobInfo
  BY <1>4 DEF RecordJobInfo, ChainInv, TypeOK, Idle
<1>5. CASE RecordLatest \/ SubmitterFails
  BY <1>5 DEF RecordLatest, SubmitterFails, ChainInv, Idle
<1>6. ASSUME NEW j \in Job, InvokeReRun(j) PROVE ChainInv'
  BY <1>6 DEF InvokeReRun, ChainInv
<1>7. CASE UNCHANGED <<work, latest, recorded>>
  BY <1>7 DEF ChainInv
<1> QED
  BY <1>1, <1>2, <1>3, <1>4, <1>5, <1>6, <1>7
  DEF Next, Submitter, Tick, Upload, Appear, JobSucceeds, JobFails, JobIsCancelled, Clone,
      HandleFailure, ListenerFails, recordVars, vars

LEMMA RecordsStep == PlanInv /\ [Next]_vars => RecordsInv'
<1> SUFFICES ASSUME PlanInv, [Next]_vars PROVE RecordsInv'
  OBVIOUS
<1> USE DataJobsAssumption DEF PlanInv
<1>1. ASSUME NEW j \in Job, NEW s, NEW e, Started(j, s, e),
             UNCHANGED <<recorded, event, dlq>>
      PROVE  RecordsInv'
  BY <1>1 DEF Started, RecordsInv, TypeOK
<1>2. CASE RecordJobInfo
  BY <1>2 DEF RecordJobInfo, RecordsInv, WorkInv, TypeOK, jobVars, listenerVars
<1>3. ASSUME NEW j \in Job, JobSucceeds(j) PROVE RecordsInv'
  BY <1>3 DEF JobSucceeds, RecordsInv, TypeOK, recordVars, listenerVars
<1>4. ASSUME NEW j \in Job, JobFails(j) PROVE RecordsInv'
  BY <1>4 DEF JobFails, RecordsInv, TypeOK, recordVars
<1>5. ASSUME NEW j \in Job, JobIsCancelled(j) PROVE RecordsInv'
  BY <1>5 DEF JobIsCancelled, RecordsInv, TypeOK, recordVars, listenerVars
<1>6. ASSUME NEW j \in Job, HandleFailure(j) PROVE RecordsInv'
  BY <1>6 DEF HandleFailure, RecordsInv, TypeOK, recordVars, jobVars
<1>7. ASSUME NEW j \in Job, ListenerFails(j) PROVE RecordsInv'
  BY <1>7 DEF ListenerFails, RecordsInv, TypeOK, recordVars, jobVars
<1>8. CASE UNCHANGED <<job, recorded, event, dlq>>
  BY <1>8 DEF RecordsInv
<1> QED
  BY <1>1, <1>2, <1>3, <1>4, <1>5, <1>6, <1>7, <1>8
  DEF Next, Submitter, Tick, Upload, Appear, Invoke, CalculateObjects, StartJobRun,
      RecordLatest, SubmitterFails, InvokeReRun, Clone, recordVars,
      jobVars, listenerVars, vars
LEMMA PlanStep == PlanInv /\ [Next]_vars => PlanInv'
  BY TypeStep, WindowsStep, WorkStep, ChainStep, RecordsStep DEF PlanInv

-----------------------------------------------------------------------------
(* The windows leave no gap.                                               *)

LEMMA NoGapStep == PlanInv /\ NoGap /\ [Next]_vars => NoGap'
<1> SUFFICES ASSUME PlanInv, NoGap, [Next]_vars PROVE NoGap'
  OBVIOUS
<1> USE DataJobsAssumption DEF PlanInv
<1> DEFINE Same(j) == job'[j].start = job[j].start /\ job'[j].end = job[j].end
<1>1. CASE RecordLatest
  <2>1. /\ work.id \in recorded /\ ~work.rerun
        /\ job[work.id].start = work.start /\ job[work.id].end = work.end
        /\ latest # Absent => work.start = latest
        /\ latest' = work.end /\ work.end \in Time /\ work.start \in Time
        /\ origin' = IF latest = Absent THEN work.start ELSE origin
        /\ recorded' = recorded /\ job' = job
    BY <1>1 DEF RecordLatest, WorkInv, ChainInv, TypeOK, jobVars
  <2>2. Floor(work.start) \in Int /\ Floor(work.end) \in Int /\ Floor(origin) \in Int
    BY <2>1, FloorBounds DEF TypeOK, Time
  <2>3. SUFFICES ASSUME NEW t \in (Floor(origin') + 1)..(Floor(latest') + Second - 1)
                 PROVE  \E j \in recorded : InRange(t, job[j].start, job[j].end)
    BY <2>1 DEF NoGap, InRange, Floor
  <2>4. CASE Floor(work.start) < t
    <3>1. t < Floor(work.end) + Second
      BY <2>1, <2>2, <2>3
    <3> QED
      BY <2>1, <2>4, <3>1 DEF InRange
  <2>5. CASE ~(Floor(work.start) < t)
    <3>1. latest # Absent /\ work.start = latest /\ origin' = origin
      BY <2>1, <2>2, <2>3, <2>5
    <3>2. t \in (Floor(origin) + 1)..(Floor(latest) + Second - 1)
      BY <2>2, <2>3, <2>5, <3>1
    <3> QED
      BY <3>1, <3>2 DEF NoGap
  <2> QED
    BY <2>4, <2>5
<1>2. ASSUME UNCHANGED <<latest, origin>>, recorded \subseteq recorded',
             \A j \in recorded : Same(j)
      PROVE  NoGap'
  BY <1>2 DEF NoGap, InRange, Floor
<1>3. ASSUME NEW j \in Job, NEW s, NEW e, Started(j, s, e)
      PROVE  \A k \in recorded : Same(k)
  BY <1>3 DEF Started, RecordsInv, TypeOK
<1>4. ASSUME NEW j \in Job, JobSucceeds(j) \/ JobFails(j) \/ JobIsCancelled(j)
      PROVE  \A k \in recorded : Same(k)
  <2>1. \A s : job' = [job EXCEPT ![j].state = s] => \A k \in recorded : Same(k)
    BY DEF TypeOK
  <2> QED
    BY <1>4, <2>1 DEF JobSucceeds, JobFails, JobIsCancelled
<1>5. CASE ~RecordLatest
  <2>1. UNCHANGED <<latest, origin>> /\ recorded \subseteq recorded'
    BY <1>5 DEF Next, Submitter, Tick, Upload, Appear, Invoke, CalculateObjects, StartJobRun,
      RecordJobInfo, SubmitterFails, InvokeReRun, JobSucceeds, JobFails, JobIsCancelled, Clone,
      HandleFailure, ListenerFails, recordVars, vars
  <2>2. \/ job' = job
        \/ \E j \in Job : \/ \E s, e : Started(j, s, e)
                          \/ JobSucceeds(j) \/ JobFails(j) \/ JobIsCancelled(j)
    BY <1>5 DEF Next, Submitter, Tick, Upload, Appear, Invoke, CalculateObjects, StartJobRun,
      RecordJobInfo, SubmitterFails, InvokeReRun, Clone, HandleFailure, ListenerFails,
      jobVars, vars
  <2>3. \A j \in recorded : Same(j)
    BY <2>2, <1>3, <1>4
  <2> QED
    BY <2>1, <2>3, <1>2
<1> QED
  BY <1>1, <1>5
\* Type correctness: in particular an event is handled at most Attempts times,
\* windows lie in the past, and only started jobs are recorded.
THEOREM TypeCorrect == Spec => []TypeOK
<1>1. Init => PlanInv
  BY PlanInit
<1>2. PlanInv /\ [Next]_vars => PlanInv'
  BY PlanStep
<1>3. PlanInv => TypeOK
  BY DEF PlanInv
<1> QED
  BY <1>1, <1>2, <1>3, PTL DEF Spec

\* The windows of recorded jobs leave no gap, whatever steps of the submitter
\* break off and however jobs end: getJobTimestamps and recordJobInfo.
THEOREM WindowsTile == Spec => []NoGap
<1>1. Init => PlanInv /\ NoGap
  BY PlanInit DEF Init, NoGap
<1>2. PlanInv /\ NoGap /\ [Next]_vars => PlanInv' /\ NoGap'
  BY PlanStep, NoGapStep
<1> QED
  BY <1>1, <1>2, PTL DEF Spec

-----------------------------------------------------------------------------
(* No object is lost.                                                      *)

\* An object has a whole second of the past as LastModified, and is listed
\* before Settle has passed.
ObjectsInv ==
    \A o \in Object : object[o] # NoObject =>
        /\ \E u \in Time : u <= now /\ object[o].at = Floor(u)
        /\ ~object[o].listed => now - object[o].at <= Settle

LEMMA ObjectsStep ==
    PlanInv /\ ObjectsInv /\ [Next]_vars /\ Second <= Settle => ObjectsInv'
<1> SUFFICES ASSUME PlanInv, ObjectsInv, [Next]_vars, Second <= Settle PROVE ObjectsInv'
  OBVIOUS
<1> USE DataJobsAssumption DEF PlanInv
<1>1. CASE Tick
  BY <1>1 DEF Tick, ObjectsInv, Pending, TypeOK, Time
<1>2. ASSUME NEW o \in Object, Upload(o) PROVE ObjectsInv'
  <2>1. now \in Nat /\ now \in Time /\ now' = now
    BY <1>2 DEF Upload, TypeOK, Time
  <2>2. now - Floor(now) <= Settle
    BY <2>1, FloorBounds
  <2>3. PICK day : object' = [object EXCEPT ![o] =
                [at |-> Floor(now), part |-> day, listed |-> FALSE]]
    BY <1>2 DEF Upload
  <2> QED
    BY <2>1, <2>2, <2>3 DEF ObjectsInv, TypeOK
<1>3. ASSUME NEW o \in Object, Appear(o) PROVE ObjectsInv'
  <2>1. now' = now
    BY <1>3 DEF Appear
  <2>2. ASSUME NEW p \in Object
        PROVE  /\ object'[p].at = object[p].at
               /\ object'[p].listed = (p = o \/ object[p].listed)
               /\ object'[p] # NoObject => object[p] # NoObject
    BY ZenonT(60), <1>3 DEF Appear, Pending, TypeOK
  <2> QED
    BY <2>1, <2>2 DEF ObjectsInv
<1>4. CASE UNCHANGED <<now, object>>
  BY <1>4 DEF ObjectsInv
<1> QED
  BY <1>1, <1>2, <1>3, <1>4 DEF Next, Submitter, Invoke, CalculateObjects, StartJobRun,
     RecordJobInfo, RecordLatest, SubmitterFails, InvokeReRun, JobSucceeds, JobFails,
     JobIsCancelled, Clone, HandleFailure, ListenerFails, vars

\* A successful job has read every object of its range that is in the prefix of
\* the day it was put on.
ReadInv ==
    \A j \in Job, o \in Object :
        job[j].state = "SUCCESS" /\ OnTime(o)
            /\ InRange(object[o].at, job[j].start, job[j].end)
        => o \in read[j]

\* A failed job that is recorded, or is being recorded, is queued or its event
\* has attempts left: those used up are no more than the mishaps, of which the
\* failure itself is one.
FailureInv ==
    \A j \in Job : job[j].state = "FAILED" =>
        /\ mishaps >= 1
        /\ j \in dlq \/ (j \in recorded \/ work.id = j => event[j] + mishaps >= Attempts)

LossInv == PlanInv /\ NoGap /\ ObjectsInv /\ ReadInv /\ FailureInv

\* The objects in the range of a window that was chosen are all listed.
LEMMA Settled ==
    ASSUME PlanInv, ObjectsInv, Settle + Second <= Buffered,
           NEW j \in Job, NEW o \in Object,
           job[j].state # "none", object[o] # NoObject,
           InRange(object[o].at, job[j].start, job[j].end)
    PROVE  object[o].listed
<1> USE DataJobsAssumption
<1>1. /\ now \in Int /\ job[j].end \in Int /\ object[o].at \in Int
      /\ object[o].listed \in BOOLEAN
  BY DEF PlanInv, TypeOK, Time
<1>2. job[j].end <= now - Buffered
  BY DEF PlanInv, WindowsInv
<1>3. object[o].at < Floor(job[j].end) + Second /\ Floor(job[j].end) <= job[j].end
  BY <1>1, FloorBounds DEF InRange
<1>4. ~(now - object[o].at <= Settle)
  BY <1>1, <1>2, <1>3, FloorBounds
<1> QED
  BY <1>4 DEF ObjectsInv

\* ... and the days of its prefixes hold those that were put on time.
LEMMA Prefixed ==
    ASSUME PlanInv, ObjectsInv, Settle + Second <= Buffered,
           NEW j \in Job, NEW o \in Object,
           job[j].state # "none", OnTime(o),
           InRange(object[o].at, job[j].start, job[j].end)
    PROVE  o \in Input(job[j].start, job[j].end)
<1> USE DataJobsAssumption
<1> DEFINE s == job[j].start
           e == job[j].end
<1>1. s \in Int /\ e \in Int
  BY DEF PlanInv, TypeOK, Time
<1>2. PICK u \in Int : object[o].at = Floor(u)
  BY DEF ObjectsInv, OnTime, Time
<1>3. s <= Floor(u) /\ Floor(u) <= e /\ Floor(u) \in Int
  BY <1>1, <1>2, FloorOrder, FloorBounds DEF InRange
<1>4. DayOf(s) <= DayOf(Floor(u)) /\ DayOf(Floor(u)) <= DayOf(e)
  BY <1>1, <1>3, QuotientMonotone DEF DayOf
<1>5. DayOf(s) \in Int /\ DayOf(Floor(u)) \in Int /\ DayOf(e) \in Int
  BY <1>1, <1>3, Euclid DEF DayOf
<1>6. object[o].part \in DatePrefixes(s, e)
  BY <1>2, <1>4, <1>5 DEF OnTime, DatePrefixes
<1>7. object[o].listed
  BY Settled DEF OnTime
<1> QED
  BY <1>6, <1>7 DEF Input, InPrefixes

LEMMA ReadStep ==
    ASSUME PlanInv, ObjectsInv, ReadInv, [Next]_vars,
           Second <= Settle, Settle + Second <= Buffered
    PROVE  ReadInv'
<1> USE DataJobsAssumption
<1>1. ASSUME NEW o \in Object, Upload(o) PROVE ReadInv'
  <2>1. /\ now \in Int /\ job' = job /\ read' = read
        /\ object'[o].at = Floor(now)
        /\ \A p \in Object \ {o} : object'[p] = object[p]
    BY <1>1 DEF Upload, PlanInv, TypeOK, Time, jobVars
  <2>2. ASSUME NEW j \in Job, job[j].state = "SUCCESS",
               InRange(Floor(now), job[j].start, job[j].end)
        PROVE  FALSE
    <3>1. job[j].end \in Int /\ job[j].end <= now - Buffered
      BY <2>2 DEF PlanInv, WindowsInv, TypeOK, Time
    <3> QED
      BY <2>1, <2>2, <3>1, FloorBounds DEF InRange
  <2>3. SUFFICES ASSUME NEW j \in Job, NEW p \in Object, job[j].state = "SUCCESS",
                        object'[p] # NoObject, object'[p].part = DayOf(object'[p].at),
                        InRange(object'[p].at, job[j].start, job[j].end)
                 PROVE  p \in read[j]
    BY <2>1 DEF ReadInv, OnTime, InRange, Floor, DayOf
  <2>4. CASE p = o
    BY <2>1, <2>2, <2>3, <2>4
  <2>5. CASE p # o
    BY <2>1, <2>3, <2>5 DEF ReadInv, OnTime, DayOf
  <2> QED
    BY <2>4, <2>5
<1>2. ASSUME NEW o \in Object, Appear(o) PROVE ReadInv'
  <2>1. job' = job /\ read' = read
    BY <1>2 DEF Appear, jobVars
  <2>2. \A p \in Object :
           /\ object'[p].at = object[p].at
           /\ object'[p].part = object[p].part
           /\ object'[p] # NoObject => object[p] # NoObject
    BY <1>2 DEF Appear, Pending, PlanInv, TypeOK
  <2>3. SUFFICES ASSUME NEW j \in Job, NEW p \in Object, job[j].state = "SUCCESS",
                        object'[p] # NoObject, object'[p].part = DayOf(object'[p].at),
                        InRange(object'[p].at, job[j].start, job[j].end)
                 PROVE  p \in read[j]
    BY <2>1 DEF ReadInv, OnTime, InRange, Floor, DayOf
  <2>4. OnTime(p) /\ InRange(object[p].at, job[j].start, job[j].end)
    BY <2>2, <2>3 DEF OnTime
  <2> QED
    BY <2>3, <2>4 DEF ReadInv
<1>3. ASSUME NEW j \in Job, JobSucceeds(j) PROVE ReadInv'
  <2>1. /\ object' = object
        /\ \A k \in Job : job'[k].start = job[k].start /\ job'[k].end = job[k].end
        /\ \A k \in Job \ {j} : job'[k] = job[k] /\ read'[k] = read[k]
        /\ read'[j] = Input(job[j].start, job[j].end) /\ job[j].state # "none"
    BY <1>3 DEF JobSucceeds, PlanInv, TypeOK
  <2>2. ASSUME NEW o \in Object, OnTime(o),
               InRange(object[o].at, job[j].start, job[j].end)
        PROVE  o \in read'[j]
    BY <2>1, <2>2, Prefixed
  <2> QED
    BY <2>1, <2>2 DEF ReadInv, OnTime, InRange, Floor, DayOf
<1>4. ASSUME NEW j \in Job, NEW s, s # "SUCCESS",
             job' = [job EXCEPT ![j].state = s], UNCHANGED <<object, read>>
      PROVE  ReadInv'
  <2>1. \A k \in Job : job'[k].state = "SUCCESS" => job'[k] = job[k]
    BY <1>4 DEF PlanInv, TypeOK
  <2> QED
    BY <1>4, <2>1 DEF ReadInv, OnTime, InRange, Floor, DayOf
<1>5. ASSUME NEW j \in Job, NEW s, NEW e, Started(j, s, e), UNCHANGED object
      PROVE  ReadInv'
  <2>1. read' = read /\ \A k \in Job : job'[k].state = "SUCCESS" => job'[k] = job[k]
    BY <1>5 DEF Started, PlanInv, TypeOK
  <2> QED
    BY <1>5, <2>1 DEF ReadInv, OnTime, InRange, Floor, DayOf
<1>6. CASE UNCHANGED <<object, job, read>>
  BY <1>6 DEF ReadInv, OnTime, InRange, Floor, DayOf
<1> QED
  BY <1>1, <1>2, <1>3, <1>4, <1>5, <1>6
  DEF Next, Submitter, Tick, Invoke, CalculateObjects, StartJobRun, RecordJobInfo,
      RecordLatest, SubmitterFails, InvokeReRun, JobFails, JobIsCancelled, Clone,
      HandleFailure, ListenerFails, jobVars, vars

LEMMA FailureStep == PlanInv /\ FailureInv /\ [Next]_vars => FailureInv'
<1> SUFFICES ASSUME PlanInv, FailureInv, [Next]_vars PROVE FailureInv'
  OBVIOUS
<1> USE DataJobsAssumption DEF PlanInv
<1>1. mishaps \in Nat /\ Attempts \in Nat /\ \A j \in Job : event[j] \in Nat
  BY DEF TypeOK
<1>2. CASE Invoke \/ CalculateObjects \/ RecordLatest
  <2>1. UNCHANGED <<job, recorded, event, dlq, mishaps>>
    BY <1>2 DEF Invoke, CalculateObjects, RecordLatest, recordVars, jobVars, listenerVars, faultVars
  <2>2. work'.id = NoJob \/ work'.id = work.id
    BY <1>2 DEF Invoke, CalculateObjects, RecordLatest, Idle, TypeOK
  <2> QED
    BY <2>1, <2>2 DEF FailureInv, NoJob, Job
<1>3. CASE SubmitterFails
  <2>1. /\ UNCHANGED <<job, recorded, event, dlq>>
        /\ mishaps' = mishaps + 1 /\ work'.id = NoJob
    BY <1>3 DEF SubmitterFails, Mishap, Idle, recordVars, jobVars, listenerVars
  <2> QED
    BY <1>1, <2>1 DEF FailureInv, NoJob, Job
<1>4. ASSUME NEW j \in Job, InvokeReRun(j) PROVE FailureInv'
  <2>1. UNCHANGED <<job, recorded, event, dlq, mishaps>> /\ work'.id = NoJob
    BY <1>4 DEF InvokeReRun, recordVars, jobVars, listenerVars, faultVars
  <2> QED
    BY <2>1 DEF FailureInv, NoJob, Job
<1>5. CASE RecordJobInfo
  <2>1. UNCHANGED <<job, event, dlq, mishaps>> /\ recorded' = recorded \cup {work.id}
    BY <1>5 DEF RecordJobInfo, jobVars, listenerVars, faultVars
  <2>2. work'.id = NoJob \/ work'.id = work.id
    BY <1>5 DEF RecordJobInfo, Idle, TypeOK
  <2> QED
    BY <2>1, <2>2 DEF FailureInv, NoJob, Job
<1>6. ASSUME NEW j \in Job, StartJobRun(j) PROVE FailureInv'
  <2>1. /\ UNCHANGED <<recorded, event, dlq, mishaps>>
        /\ \A k \in Job \ {j} : job'[k] = job[k]
        /\ job'[j].state = "SUBMITTED" /\ work'.id = j
    BY <1>6 DEF StartJobRun, Started, TypeOK, recordVars, listenerVars, faultVars
  <2> QED
    BY <2>1 DEF FailureInv
<1>7. ASSUME NEW j \in Job, NEW k \in Job, Clone(j, k) PROVE FailureInv'
  <2>1. /\ UNCHANGED <<recorded, event, dlq, mishaps, work>>
        /\ \A i \in Job \ {k} : job'[i] = job[i]
        /\ job'[k].state = "SUBMITTED"
    BY <1>7 DEF Clone, Started, TypeOK, recordVars, listenerVars, faultVars
  <2> QED
    BY <2>1 DEF FailureInv
<1>8. ASSUME NEW j \in Job, JobSucceeds(j) \/ JobIsCancelled(j) PROVE FailureInv'
  <2>1. UNCHANGED <<recorded, event, dlq, work>> /\ mishaps' \in {mishaps, mishaps + 1}
    BY <1>8 DEF JobSucceeds, JobIsCancelled, Mishap, recordVars, listenerVars, faultVars
  <2>2. \A k \in Job : job'[k].state = "FAILED" => job[k].state = "FAILED"
    <3>1. ASSUME NEW s, s # "FAILED", job' = [job EXCEPT ![j].state = s]
          PROVE  \A k \in Job : job'[k].state = "FAILED" => job[k].state = "FAILED"
      BY <3>1 DEF TypeOK
    <3> QED
      BY <1>8, <3>1 DEF JobSucceeds, JobIsCancelled
  <2> QED
    BY <1>1, <2>1, <2>2 DEF FailureInv
<1>9. ASSUME NEW j \in Job, JobFails(j) PROVE FailureInv'
  <2>1. /\ UNCHANGED <<recorded, dlq, work>> /\ mishaps' = mishaps + 1
        /\ \A k \in Job \ {j} : job'[k] = job[k] /\ event'[k] = event[k]
        /\ event'[j] = Attempts
    BY <1>9 DEF JobFails, Mishap, TypeOK, recordVars
  <2> QED
    BY <1>1, <2>1 DEF FailureInv
<1>10. ASSUME NEW j \in Job, HandleFailure(j) PROVE FailureInv'
  <2>1. /\ UNCHANGED <<job, recorded, work, mishaps>> /\ dlq \subseteq dlq'
        /\ \A k \in Job \ {j} : event'[k] = event[k]
        /\ \/ j \in dlq'
           \/ j \notin recorded /\ work.id # j
           \/ event'[j] = Attempts - 1
    BY <1>10 DEF HandleFailure, TypeOK, recordVars, jobVars, faultVars
  <2> QED
    BY <1>1, <2>1 DEF FailureInv
<1>11. ASSUME NEW j \in Job, ListenerFails(j) PROVE FailureInv'
  <2>1. /\ UNCHANGED <<job, recorded, dlq, work>> /\ mishaps' = mishaps + 1
        /\ \A k \in Job \ {j} : event'[k] = event[k]
        /\ event'[j] = event[j] - 1
    BY <1>11 DEF ListenerFails, Mishap, TypeOK, recordVars, jobVars
  <2> QED
    BY <1>1, <2>1 DEF FailureInv
<1>12. CASE UNCHANGED <<job, recorded, event, dlq, work, mishaps>>
  BY <1>12 DEF FailureInv
<1> QED
  BY <1>2, <1>3, <1>4, <1>5, <1>6, <1>7, <1>8, <1>9, <1>10, <1>11, <1>12
  DEF Next, Submitter, Tick, Upload, Appear, recordVars, jobVars, listenerVars, faultVars, vars

LEMMA LossInvImplies ==
    ASSUME LossInv, Settle + Second <= Buffered, MaxMishaps < Attempts
    PROVE  NoObjectLost
<1> USE DataJobsAssumption DEF LossInv, PlanInv
<1> SUFFICES ASSUME NEW o \in Object, OnTime(o), Passed(o)
             PROVE  \E j \in Job : Answers(j, o)
  BY DEF NoObjectLost
<1>1. /\ object[o].at \in Int /\ Floor(origin) \in Int
      /\ latest # Absent /\ Floor(latest) \in Int
  BY FloorBounds DEF Passed, TypeOK, Time, Absent
<1>2. PICK j \in recorded : InRange(object[o].at, job[j].start, job[j].end)
  BY <1>1 DEF Passed, NoGap
<1>3. /\ j \in Job
      /\ job[j].state \in {"SUBMITTED", "SUCCESS", "FAILED", "CANCELLED"}
  BY DEF TypeOK, RecordsInv
<1>4. object[o].listed
  BY <1>2, <1>3, Settled DEF OnTime
<1>5. CASE job[j].state = "SUCCESS"
  BY <1>2, <1>3, <1>5 DEF ReadInv, Answers
<1>6. CASE job[j].state = "FAILED"
  <2>1. j \in dlq \/ event[j] + mishaps >= Attempts
    BY <1>3, <1>6 DEF FailureInv
  <2>2. event[j] \in Nat /\ mishaps \in Nat /\ mishaps <= MaxMishaps
    BY <1>3 DEF TypeOK
  <2> QED
    BY <1>2, <1>3, <1>6, <2>1, <2>2 DEF Answers
<1> QED
  BY <1>2, <1>3, <1>4, <1>5, <1>6 DEF Answers

\* With a buffer that covers the time objects take to be listed, and more
\* attempts at an event than things go wrong, every object put on time that
\* the chain of windows has passed was read, will be, or is answered for by
\* the queue.
THEOREM NothingLost ==
    ASSUME Second <= Settle, Settle + Second <= Buffered, MaxMishaps < Attempts
    PROVE  Spec => []NoObjectLost
<1>1. Init => LossInv
  BY PlanInit DEF Init, LossInv, NoGap, ObjectsInv, ReadInv, FailureInv, NotStarted
<1>2. LossInv /\ [Next]_vars => LossInv'
  BY PlanStep, NoGapStep, ObjectsStep, ReadStep, FailureStep DEF LossInv
<1>3. LossInv => NoObjectLost
  BY LossInvImplies
<1> QED
  BY <1>1, <1>2, <1>3, PTL DEF Spec
-----------------------------------------------------------------------------
(* No object is read twice.                                                *)

\* The jobs that nobody has submitted again.
Current(j) == job[j].state # "none" /\ j \notin redone

\* No whole second is in the ranges of both windows.
Apart(s, e, t, f) == Floor(e) <= Floor(t) \/ Floor(f) <= Floor(s)

\* The window of j is in work as the next of the chain (the jobs are the one
\* submitted and, if it failed at once, its clone).
InFlight(j) ==
    /\ work.step \in {"record", "latest"} /\ ~work.rerun
    /\ job[j].start = work.start /\ job[j].end = work.end

\* Only failed jobs are submitted again.
RedoneInv == \A j \in redone : job[j].state = "FAILED"

\* Until a submission breaks off, no window but that in work ends after the
\* latest record ...
BehindInv ==
    /\ work.step # "idle" /\ ~work.rerun => work.start <= work.end
    /\ ~broken =>
          /\ \A j \in Job : job[j].state # "none" =>
                (latest # Absent /\ job[j].end <= latest) \/ InFlight(j)
          /\ work.rerun /\ work.step \in {"count", "start"} =>
                latest # Absent /\ work.end <= latest

\* ... and the windows of jobs not submitted again are apart, from one another
\* and from the one that is being submitted again.
ApartInv ==
    ~broken =>
        /\ \A j, k \in Job : Current(j) /\ Current(k) /\ j # k =>
              Apart(job[j].start, job[j].end, job[k].start, job[k].end)
        /\ work.rerun /\ work.step \in {"count", "start"} =>
              \A j \in Job : Current(j) =>
                  Apart(job[j].start, job[j].end, work.start, work.end)

\* What a job has read lay in its range, at a whole second.
SourceInv ==
    /\ \A o \in Object : object[o] # NoObject => \E u \in Time : object[o].at = Floor(u)
    /\ \A j \in Job : job[j].state = "SUCCESS" =>
          \A o \in read[j] : object[o] # NoObject
                             /\ InRange(object[o].at, job[j].start, job[j].end)

OnceInv == PlanInv /\ RedoneInv /\ BehindInv /\ ApartInv /\ SourceInv

\* What follows in time is apart.
LEMMA AfterIsApart ==
    ASSUME NEW s \in Int, NEW e \in Int, NEW t \in Int, NEW f \in Int, e <= t
    PROVE  Apart(s, e, t, f)
<1>1. Second \in Nat /\ e \div Second \in Int /\ t \div Second \in Int
  BY Euclid, DataJobsAssumption
<1>2. e \div Second <= t \div Second
  BY QuotientMonotone, DataJobsAssumption
<1>3. Second * (e \div Second) <= Second * (t \div Second)
  BY <1>1, <1>2, TimesMonotone
<1> QED
  BY <1>3 DEF Apart, Floor

LEMMA ApartSymmetric ==
    ASSUME NEW s, NEW e, NEW t, NEW f, Apart(s, e, t, f)
    PROVE  Apart(t, f, s, e)
  BY DEF Apart

\* An instant of a whole second is in one of two windows that are apart.
LEMMA ApartRanges ==
    ASSUME NEW s \in Int, NEW e \in Int, NEW t \in Int, NEW f \in Int, NEW u \in Int,
           Apart(s, e, t, f), InRange(Floor(u), s, e), InRange(Floor(u), t, f)
    PROVE  FALSE
<1>1. Floor(s) \in Int /\ Floor(e) \in Int /\ Floor(t) \in Int /\ Floor(f) \in Int
      /\ Floor(u) \in Int
  BY FloorBounds
<1>2. ASSUME NEW a \in Int, Floor(u) < Floor(a) + Second
      PROVE  Floor(u) <= Floor(a)
  <2>1. Second \in Nat \ {0} /\ u \div Second \in Int /\ a \div Second \in Int
    BY Euclid, DataJobsAssumption
  <2> QED
    BY <1>2, <2>1, Quotients DEF Floor
<1> QED
  BY <1>1, <1>2 DEF Apart, InRange

\* A job that ends keeps its window.
LEMMA JobEnds ==
    ASSUME TypeOK, NEW j \in Job, JobSucceeds(j) \/ JobFails(j) \/ JobIsCancelled(j)
    PROVE  /\ UNCHANGED <<now, object, latest, origin, recorded, work, redone, broken>>
           /\ job[j].state = "SUBMITTED"
           /\ job'[j].state \in {"SUCCESS", "FAILED", "CANCELLED"}
           /\ \A k \in Job \ {j} : job'[k] = job[k]
           /\ \A k \in Job : /\ job'[k].start = job[k].start
                             /\ job'[k].end = job[k].end
                             /\ job'[k].state = "none" <=> job[k].state = "none"
<1>1. ASSUME NEW s, s # "none", job[j].state = "SUBMITTED",
             job' = [job EXCEPT ![j].state = s]
      PROVE  /\ \A k \in Job \ {j} : job'[k] = job[k]
             /\ \A k \in Job : /\ job'[k].start = job[k].start
                               /\ job'[k].end = job[k].end
                               /\ job'[k].state = "none" <=> job[k].state = "none"
             /\ job'[j].state = s
  BY <1>1 DEF TypeOK
<1>2. job[j].state = "SUBMITTED"
  BY DEF JobSucceeds, JobFails, JobIsCancelled
<1>3. PICK s \in {"SUCCESS", "FAILED", "CANCELLED"} : job' = [job EXCEPT ![j].state = s]
  BY DEF JobSucceeds, JobFails, JobIsCancelled
<1>4. UNCHANGED <<now, object, latest, origin, recorded, work, redone, broken>>
  BY DEF JobSucceeds, JobFails, JobIsCancelled, recordVars, faultVars
<1> QED
  BY <1>1, <1>2, <1>3, <1>4

\* A job that starts takes the next number.
LEMMA JobStarts ==
    ASSUME TypeOK, NEW j \in Job, NEW s, NEW e, Started(j, s, e)
    PROVE  /\ job[j].state = "none"
           /\ \A k \in Job \ {j} : job'[k] = job[k]
           /\ job'[j].state = "SUBMITTED" /\ job'[j].start = s /\ job'[j].end = e
           /\ read' = read
  BY DEF Started, TypeOK

LEMMA RedoneStep == PlanInv /\ RedoneInv /\ [Next]_vars => RedoneInv'
<1> SUFFICES ASSUME PlanInv, RedoneInv, [Next]_vars PROVE RedoneInv'
  OBVIOUS
<1> USE DEF PlanInv
<1>1. redone \subseteq Job
  BY DEF TypeOK
<1>2. ASSUME NEW j \in Job, InvokeReRun(j) PROVE RedoneInv'
  BY <1>2 DEF InvokeReRun, RedoneInv, RecordsInv, jobVars
<1>3. ASSUME NEW j \in Job, NEW k \in Job, Clone(j, k) PROVE RedoneInv'
  <2>1. redone' = redone \cup {j} /\ job[j].state = "FAILED"
    BY <1>3 DEF Clone
  <2> QED
    BY <1>1, <1>3, <2>1, JobStarts DEF RedoneInv, Clone
<1>4. ASSUME NEW j \in Job, StartJobRun(j) PROVE RedoneInv'
  BY <1>1, <1>4, JobStarts DEF StartJobRun, RedoneInv
<1>5. ASSUME NEW j \in Job, JobSucceeds(j) \/ JobFails(j) \/ JobIsCancelled(j)
      PROVE  RedoneInv'
  BY <1>1, <1>5, JobEnds DEF RedoneInv
<1>6. CASE UNCHANGED <<job, redone>>
  BY <1>6 DEF RedoneInv
<1> QED
  BY <1>2, <1>3, <1>4, <1>5, <1>6 DEF Next, Submitter, Tick, Upload, Appear, Invoke,
     CalculateObjects, RecordJobInfo, RecordLatest, SubmitterFails, HandleFailure,
     ListenerFails, jobVars, vars

LEMMA BehindStep == PlanInv /\ BehindInv /\ [Next]_vars => BehindInv'
<1> SUFFICES ASSUME PlanInv, BehindInv, [Next]_vars PROVE BehindInv'
  OBVIOUS
<1> USE DataJobsAssumption DEF PlanInv
<1>1. CASE UNCHANGED <<work, latest, job, broken>>
  BY <1>1 DEF BehindInv, InFlight
<1>2. CASE Invoke
  BY <1>2 DEF Invoke, BehindInv, InFlight, recordVars, jobVars, faultVars
<1>3. CASE CalculateObjects
  BY <1>3 DEF CalculateObjects, BehindInv, InFlight, Idle, TypeOK, recordVars, jobVars, faultVars
<1>4. ASSUME NEW j \in Job, InvokeReRun(j) PROVE BehindInv'
  <2>1. job[j].state # "none"
    BY <1>4 DEF InvokeReRun, RecordsInv
  <2> QED
    BY <1>4, <2>1 DEF InvokeReRun, BehindInv, InFlight, recordVars, jobVars, faultVars
<1>5. ASSUME NEW j \in Job, StartJobRun(j) PROVE BehindInv'
  <2>1. /\ UNCHANGED <<latest, broken>> /\ \A k \in Job : ~InFlight(k)
        /\ \A k \in Job \ {j} : job'[k] = job[k]
        /\ job'[j].start = work.start /\ job'[j].end = work.end
        /\ work.step = "start"
        /\ work'.step = "record" /\ work'.rerun = work.rerun
        /\ work'.start = work.start /\ work'.end = work.end
    BY <1>5, JobStarts DEF StartJobRun, InFlight, recordVars, faultVars
  <2>2. ASSUME ~work.rerun PROVE InFlight(j)'
    BY <2>1, <2>2 DEF InFlight
  <2> QED
    BY <2>1, <2>2 DEF BehindInv
<1>6. CASE RecordJobInfo
  <2>1. UNCHANGED <<latest, job, broken>>
    BY <1>6 DEF RecordJobInfo, jobVars, faultVars
  <2>2. ASSUME NEW k \in Job, InFlight(k) PROVE InFlight(k)'
    BY <1>6, <2>1, <2>2 DEF RecordJobInfo, InFlight, TypeOK
  <2> QED
    BY <1>6, <2>1, <2>2 DEF BehindInv, RecordJobInfo, Idle, TypeOK
<1>7. CASE RecordLatest
  <2>1. /\ UNCHANGED <<job, broken>> /\ latest' = work.end /\ work.end \in Time
        /\ work.step = "latest" /\ work' = Idle
        /\ latest # Absent => work.start = latest
    BY <1>7 DEF RecordLatest, ChainInv, TypeOK, jobVars, faultVars
  <2>2. work.start <= work.end /\ latest' # Absent
    BY <2>1 DEF BehindInv, ChainInv, Time, Absent
  <2>3. ASSUME ~broken, NEW j \in Job, job[j].state # "none" PROVE job[j].end <= latest'
    <3>1. (latest # Absent /\ job[j].end <= latest) \/ job[j].end = work.end
      BY <2>3 DEF BehindInv, InFlight
    <3> QED
      BY <2>1, <2>2, <3>1 DEF TypeOK, Time
  <2> QED
    BY <2>1, <2>2, <2>3 DEF BehindInv, Idle
<1>8. CASE SubmitterFails
  BY <1>8 DEF SubmitterFails, BehindInv, InFlight, Idle, TypeOK, recordVars, jobVars
<1>9. ASSUME NEW j \in Job, JobSucceeds(j) \/ JobFails(j) \/ JobIsCancelled(j)
      PROVE  BehindInv'
  BY <1>9, JobEnds DEF BehindInv, InFlight
<1>10. ASSUME NEW j \in Job, NEW k \in Job, Clone(j, k) PROVE BehindInv'
  <2>1. UNCHANGED <<latest, broken, work>> /\ job[j].state = "FAILED"
    BY <1>10 DEF Clone, recordVars, faultVars
  <2> QED
    BY <1>10, <2>1, JobStarts DEF BehindInv, InFlight, Clone
<1> QED
  BY <1>1, <1>2, <1>3, <1>4, <1>5, <1>6, <1>7, <1>8, <1>9, <1>10
  DEF Next, Submitter, Tick, Upload, Appear, HandleFailure, ListenerFails, recordVars,
      jobVars, faultVars, vars

LEMMA ApartStep ==
    PlanInv /\ RedoneInv /\ BehindInv /\ ApartInv /\ [Next]_vars => ApartInv'
<1> SUFFICES ASSUME PlanInv, RedoneInv, BehindInv, ApartInv, [Next]_vars PROVE ApartInv'
  OBVIOUS
<1> USE DataJobsAssumption DEF PlanInv
<1> DEFINE Same(k) == job'[k].start = job[k].start /\ job'[k].end = job[k].end
<1>1. ASSUME broken' = broken,
             work'.rerun /\ work'.step \in {"count", "start"} =>
                /\ work.rerun /\ work.step \in {"count", "start"}
                /\ work'.start = work.start /\ work'.end = work.end,
             \A k \in Job : Current(k)' => Current(k) /\ Same(k)
      PROVE  ApartInv'
  BY <1>1 DEF ApartInv, Apart, Floor
<1>2. CASE UNCHANGED <<work, job, redone, broken>>
  BY <1>1, <1>2 DEF Current
<1>3. CASE Invoke
  BY <1>1, <1>3 DEF Invoke, Current, jobVars, faultVars
<1>4. CASE CalculateObjects
  BY <1>1, <1>4 DEF CalculateObjects, Current, Idle, TypeOK, jobVars, faultVars
<1>5. CASE RecordJobInfo
  BY <1>1, <1>5 DEF RecordJobInfo, Current, Idle, TypeOK, jobVars, faultVars
<1>6. CASE RecordLatest
  BY <1>1, <1>6 DEF RecordLatest, Current, Idle, jobVars, faultVars
<1>7. CASE SubmitterFails
  <2>1. work' = Idle /\ UNCHANGED <<job, redone>> /\ (broken => broken')
    BY <1>7 DEF SubmitterFails, jobVars, TypeOK
  <2> QED
    BY <2>1 DEF ApartInv, Current, Idle, Apart, Floor
<1>8. ASSUME NEW j \in Job, JobSucceeds(j) \/ JobFails(j) \/ JobIsCancelled(j)
      PROVE  ApartInv'
  BY <1>1, <1>8, JobEnds DEF Current
<1>9. ASSUME NEW j \in Job, InvokeReRun(j) PROVE ApartInv'
  <2>1. /\ UNCHANGED <<job, broken>> /\ redone' = redone \cup {j} /\ Current(j)
        /\ work'.start = job[j].start /\ work'.end = job[j].end
    BY <1>9 DEF InvokeReRun, Current, RecordsInv, jobVars, faultVars
  <2>2. \A k \in Job : Current(k)' => Current(k) /\ k # j
    BY <2>1 DEF Current
  <2> QED
    BY <2>1, <2>2 DEF ApartInv, Apart, Floor
<1>10. ASSUME NEW j \in Job, StartJobRun(j) PROVE ApartInv'
  <2>1. /\ UNCHANGED <<broken, redone, latest>> /\ work.step = "start"
        /\ \A k \in Job \ {j} : job'[k] = job[k]
        /\ job'[j].start = work.start /\ job'[j].end = work.end /\ work'.step = "record"
    BY <1>10, JobStarts DEF StartJobRun, recordVars, faultVars
  <2>2. ASSUME ~broken, NEW k \in Job \ {j}, Current(k)
        PROVE  Apart(job[k].start, job[k].end, work.start, work.end)
    <3>1. CASE work.rerun
      BY <2>1, <2>2, <3>1 DEF ApartInv
    <3>2. CASE ~work.rerun
      <4>1. latest # Absent /\ job[k].end <= latest
        BY <2>1, <2>2 DEF BehindInv, InFlight, Current
      <4>2. work.start = latest
        BY <2>1, <3>2, <4>1 DEF ChainInv
      <4>3. /\ job[k].start \in Int /\ job[k].end \in Int
            /\ work.start \in Int /\ work.end \in Int
        BY DEF TypeOK, Time
      <4> QED
        BY <4>1, <4>2, <4>3, AfterIsApart
    <3> QED
      BY <3>1, <3>2
  <2>3. \A k \in Job \ {j} : Current(k)' => Current(k)
    BY <2>1 DEF Current
  <2>4. ASSUME ~broken, NEW i \in Job, NEW k \in Job, Current(i)', Current(k)', i # k
        PROVE  Apart(job'[i].start, job'[i].end, job'[k].start, job'[k].end)
    <3>1. CASE i = j
      BY <2>1, <2>2, <2>3, <2>4, <3>1, ApartSymmetric
    <3>2. CASE k = j
      BY <2>1, <2>2, <2>3, <2>4, <3>2
    <3>3. CASE i # j /\ k # j
      BY <2>1, <2>3, <2>4, <3>3 DEF ApartInv
    <3> QED
      BY <3>1, <3>2, <3>3
  <2> QED
    BY <2>1, <2>4 DEF ApartInv, Apart, Floor
<1>11. ASSUME NEW j \in Job, NEW k \in Job, Clone(j, k) PROVE ApartInv'
  <2>1. /\ UNCHANGED <<broken, work>> /\ redone' = redone \cup {j} /\ Current(j) /\ j # k
        /\ \A i \in Job \ {k} : job'[i] = job[i]
        /\ job'[k].start = job[j].start /\ job'[k].end = job[j].end
    BY <1>11, JobStarts DEF Clone, Current, recordVars, faultVars
  <2>2. \A i \in Job \ {k} : Current(i)' => Current(i) /\ i # j
    BY <2>1 DEF Current
  <2>3. ASSUME ~broken, NEW i \in Job, NEW l \in Job, Current(i)', Current(l)', i # l
        PROVE  Apart(job'[i].start, job'[i].end, job'[l].start, job'[l].end)
    <3>1. CASE i = k
      BY <2>1, <2>2, <2>3, <3>1 DEF ApartInv
    <3>2. CASE l = k
      BY <2>1, <2>2, <2>3, <3>2 DEF ApartInv
    <3>3. CASE i # k /\ l # k
      BY <2>1, <2>2, <2>3, <3>3 DEF ApartInv
    <3> QED
      BY <3>1, <3>2, <3>3
  <2>4. ASSUME ~broken, work.rerun, work.step \in {"count", "start"},
               NEW i \in Job, Current(i)'
        PROVE  Apart(job'[i].start, job'[i].end, work.start, work.end)
    <3>1. CASE i = k
      BY <2>1, <2>4, <3>1 DEF ApartInv
    <3>2. CASE i # k
      BY <2>1, <2>2, <2>4, <3>2 DEF ApartInv
    <3> QED
      BY <3>1, <3>2
  <2> QED
    BY <2>1, <2>3, <2>4 DEF ApartInv, Apart, Floor
<1> QED
  BY <1>2, <1>3, <1>4, <1>5, <1>6, <1>7, <1>8, <1>9, <1>10, <1>11
  DEF Next, Submitter, Tick, Upload, Appear, HandleFailure, ListenerFails, recordVars,
      jobVars, faultVars, vars

LEMMA SourceStep == PlanInv /\ SourceInv /\ [Next]_vars => SourceInv'
<1> SUFFICES ASSUME PlanInv, SourceInv, [Next]_vars PROVE SourceInv'
  OBVIOUS
<1> USE DataJobsAssumption DEF PlanInv
<1>1. ASSUME NEW o \in Object, Upload(o) PROVE SourceInv'
  <2>1. /\ UNCHANGED <<job, read>> /\ object[o] = NoObject /\ now \in Time
        /\ \A p \in Object \ {o} : object'[p] = object[p]
        /\ object'[o].at = Floor(now)
    BY <1>1 DEF Upload, TypeOK, jobVars
  <2>2. \A j \in Job : read[j] \subseteq Object
    BY DEF TypeOK
  <2>3. ASSUME NEW p \in Object, object'[p] # NoObject
        PROVE  \E u \in Time : object'[p].at = Floor(u)
    BY <2>1, <2>3 DEF SourceInv
  <2>4. ASSUME NEW j \in Job, job[j].state = "SUCCESS", NEW p \in read[j]
        PROVE  object'[p] = object[p]
    BY <2>1, <2>2, <2>4 DEF SourceInv
  <2> QED
    BY <2>1, <2>3, <2>4 DEF SourceInv, InRange, Floor
<1>2. ASSUME NEW o \in Object, Appear(o) PROVE SourceInv'
  <2>1. /\ UNCHANGED <<job, read>> /\ object[o] # NoObject
        /\ \A p \in Object : object'[p].at = object[p].at
        /\ \A p \in Object \ {o} : object'[p] = object[p]
        /\ object'[o].listed
    BY <1>2 DEF Appear, Pending, TypeOK, jobVars
  <2>2. \A j \in Job : read[j] \subseteq Object
    BY DEF TypeOK
  <2>3. \A p \in Object : object'[p] # NoObject <=> object[p] # NoObject
    BY <2>1 DEF NoObject
  <2> QED
    BY <2>1, <2>2, <2>3 DEF SourceInv, InRange, Floor
<1>3. ASSUME NEW j \in Job, JobSucceeds(j) PROVE SourceInv'
  <2>1. object' = object /\ read' = [read EXCEPT ![j] = Input(job[j].start, job[j].end)]
    BY <1>3 DEF JobSucceeds
  <2>2. \A o \in Input(job[j].start, job[j].end) :
           object[o] # NoObject /\ InRange(object[o].at, job[j].start, job[j].end)
    BY DEF Input, InPrefixes, NoObject
  <2>3. ASSUME NEW k \in Job, job'[k].state = "SUCCESS", NEW o \in read'[k]
        PROVE  object[o] # NoObject /\ InRange(object[o].at, job[k].start, job[k].end)
    <3>1. CASE k = j
      BY <2>1, <2>2, <2>3, <3>1 DEF TypeOK
    <3>2. CASE k # j
      BY <1>3, <2>1, <2>3, <3>2, JobEnds DEF SourceInv, TypeOK
    <3> QED
      BY <3>1, <3>2
  <2> QED
    BY <1>3, <2>1, <2>3, JobEnds DEF SourceInv, InRange, Floor
<1>4. ASSUME NEW j \in Job, JobFails(j) \/ JobIsCancelled(j) PROVE SourceInv'
  <2>1. read' = read /\ job'[j].state # "SUCCESS"
    BY <1>4 DEF JobFails, JobIsCancelled, TypeOK
  <2> QED
    BY <1>4, <2>1, JobEnds DEF SourceInv, InRange, Floor
<1>5. ASSUME NEW j \in Job, NEW s, NEW e, Started(j, s, e), object' = object
      PROVE  SourceInv'
  BY <1>5, JobStarts DEF SourceInv, InRange, Floor
<1>6. CASE UNCHANGED <<object, job, read>>
  BY <1>6 DEF SourceInv, InRange, Floor
<1> QED
  BY <1>1, <1>2, <1>3, <1>4, <1>5, <1>6
  DEF Next, Submitter, Tick, Invoke, CalculateObjects, StartJobRun, RecordJobInfo,
      RecordLatest, SubmitterFails, InvokeReRun, Clone, HandleFailure, ListenerFails,
      jobVars, vars

\* Unless a submission breaks off between StartJobRun and the latest record, an
\* object is the input of one successful job only, whatever is re-run or
\* cloned and however the objects and windows meet at the edges of seconds.
THEOREM NothingReadTwice == Spec => []ReadOnce
<1>1. Init => OnceInv
  <2> SUFFICES ASSUME Init PROVE OnceInv
    OBVIOUS
  <2> QED
    BY PlanInit DEF Init, OnceInv, RedoneInv, BehindInv, ApartInv, SourceInv, Current,
       Idle, NotStarted
<1>2. OnceInv /\ [Next]_vars => OnceInv'
  BY PlanStep, RedoneStep, BehindStep, ApartStep, SourceStep DEF OnceInv
<1>3. OnceInv => ReadOnce
  <2> SUFFICES ASSUME OnceInv, ~broken, NEW o \in Object, NEW j \in Job, NEW k \in Job,
                      job[j].state = "SUCCESS", o \in read[j],
                      job[k].state = "SUCCESS", o \in read[k], j # k
               PROVE  FALSE
    BY DEF ReadOnce
  <2>1. Current(j) /\ Current(k)
    BY DEF OnceInv, RedoneInv, Current
  <2>2. Apart(job[j].start, job[j].end, job[k].start, job[k].end)
    BY <2>1 DEF OnceInv, ApartInv
  <2>3. /\ object[o] # NoObject
        /\ InRange(object[o].at, job[j].start, job[j].end)
        /\ InRange(object[o].at, job[k].start, job[k].end)
    BY DEF OnceInv, SourceInv
  <2>4. PICK u \in Time : object[o].at = Floor(u)
    BY <2>3 DEF OnceInv, SourceInv
  <2>5. /\ job[j].start \in Int /\ job[j].end \in Int /\ u \in Int
        /\ job[k].start \in Int /\ job[k].end \in Int
    BY DataJobsAssumption DEF OnceInv, PlanInv, TypeOK, Time
  <2> QED
    BY <2>2, <2>3, <2>4, <2>5, ApartRanges
<1> QED
  BY <1>1, <1>2, <1>3, PTL DEF Spec
=============================================================================
