----------------------------- MODULE ScanProofs -----------------------------
(***************************************************************************)
(* Type correctness of ScanMetadata, that one execution at a time is past  *)
(* the check, and what the metadata items keep, for any number of          *)
(* executions, events, applications and months.                            *)
(*                                                                         *)
(* The second half is about the items.  It first speaks of the items of    *)
(* one application and one store as plain values, and of a row, a batch    *)
(* and the end of a store as relations between such values; MetaInv then   *)
(* says of which items and stores of the state this holds.                 *)
(***************************************************************************)
EXTENDS ScanMetadata, WellFoundedInduction, TLAPS

\* What an execution, a draft and an item are.
Step == {"off", "check", "skip", "apps", "store", "rows"}
DraftRecord == [key : Keys \cup {Never}, seen : SUBSET Event]
ScanRecord == [step : Step, manual : BOOLEAN, at : Days \cup {Never},
               start : Days \cup {Never}, end : Days \cup {Never},
               todo : SUBSET App, app : SUBSET App, rows : SUBSET Event,
               left : SUBSET Days, drafts : [Months -> DraftRecord],
               new : SUBSET Months, marked : Months \cup {Never}]
Item == [origin : Months \cup {Never}, seen : SUBSET Event]
Call == [app : App, start : Days \cup {Never}, end : Days \cup {Never}]

LEMMA ScanTypes ==
    ASSUME ScanTypeOK
    PROVE  /\ scan \in [Exec -> ScanRecord]
           /\ meta \in [App -> [Keys -> Item]]
           /\ today \in Days /\ jobDay \in Days /\ loaded \subseteq Event
           /\ found \in [App -> SUBSET Event] /\ calls \subseteq Call
    BY DEF ScanTypeOK, ScanRecord, Item, DraftRecord, Step, Call

LEMMA ScanFields ==
    ASSUME NEW r \in ScanRecord
    PROVE  /\ r.step \in Step /\ r.manual \in BOOLEAN /\ r.at \in Days \cup {Never}
           /\ r.start \in Days \cup {Never} /\ r.end \in Days \cup {Never}
           /\ r.todo \in SUBSET App /\ r.app \in SUBSET App /\ r.rows \in SUBSET Event
           /\ r.left \in SUBSET Days /\ r.drafts \in [Months -> DraftRecord]
           /\ r.new \in SUBSET Months /\ r.marked \in Months \cup {Never}
    BY DEF ScanRecord

LEMMA OffTyped == Off \in ScanRecord /\ Off.step = "off"
<1>1. NoDraft \in DraftRecord BY DEF NoDraft, DraftRecord
<1>2. NoDrafts \in [Months -> DraftRecord] BY <1>1 DEF NoDrafts
<1>. QED BY <1>2 DEF Off, ScanRecord, Step

-----------------------------------------------------------------------------
(* Days and months.                                                        *)

\* A day within the bound has a month within the bound, and all are keys.
LEMMA MonthTyped ==
    ASSUME NEW d \in Days
    PROVE  Month(d) \in Months
<1>1. d \in Nat /\ LastDay \in Nat /\ d <= LastDay /\ MonthDays \in Nat \ {0}
  BY ScanMetadataAssumption DEF Days
<1>2. d \div MonthDays \in Nat /\ LastDay \div MonthDays \in Nat BY <1>1
<1>3. d \div MonthDays <= LastDay \div MonthDays BY <1>1
<1>. QED BY <1>2, <1>3 DEF Month, Months

LEMMA KeysTyped ==
    /\ Keys \subseteq Nat /\ Months \subseteq Keys /\ Latest \in Keys
    /\ Never \notin Keys
<1>1. LastDay \div MonthDays \in Nat BY ScanMetadataAssumption
<1>. QED BY <1>1 DEF Keys, Months, Latest, Never, Month

\* Of the copies of a month one sorts first.
LEMMA FirstCopy ==
    ASSUME NEW copies \in SUBSET Keys, copies # {}
    PROVE  (CHOOSE k \in copies : \A l \in copies : k <= l) \in copies
<1>1. \E k \in copies : \A l \in copies : k <= l
  <2>1. PICK k \in copies : \A l \in copies : ~ (<<l, k>> \in OpToRel(<, Nat))
    BY KeysTyped, NatLessThanWellFounded, WFMin
  <2>2. \A l \in copies : ~ (l < k) BY <2>1, KeysTyped DEF OpToRel
  <2>. QED BY <2>2, KeysTyped
<1>. QED BY <1>1

-----------------------------------------------------------------------------
(* Steps.                                                                  *)

\* The rows of a store are of days within the bound.
RowsInDays == \A x \in Exec : \A e \in scan[x].rows : DayOf[e] \in Days

\* So are the events that the procedures have left in the tables.
TablesInDays == \A a \in App : \A e \in found[a] : DayOf[e] \in Days

ScanInv == ScanTypeOK /\ RowsInDays /\ TablesInDays /\ OneScan

\* One execution takes a step: it is past the check only if it was, or if no
\* other execution is there.
LEMMA StepOf ==
    ASSUME ScanInv, NEW x \in Exec, NEW r \in ScanRecord,
           scan' = [scan EXCEPT ![x] = r],
           \A e \in r.rows : DayOf[e] \in Days,
           r.step \in {"apps", "store", "rows"} =>
               Active(x) \/ \A y \in Exec \ {x} : scan[y].step = "off"
    PROVE  scan' \in [Exec -> ScanRecord] /\ RowsInDays' /\ OneScan'
<1>1. scan \in [Exec -> ScanRecord] BY ScanTypes DEF ScanInv
<1>2. scan'[x] = r /\ \A y \in Exec \ {x} : scan'[y] = scan[y] BY <1>1
<1>3. RowsInDays' BY <1>2 DEF ScanInv, RowsInDays
<1>4. \A y \in Exec \ {x} : Active(y)' => Active(y) BY <1>2 DEF Active, Storing
<1>5. Active(x)' => Active(x) \/ \A y \in Exec \ {x} : ~Active(y)
  BY <1>2 DEF Active, Storing
<1>6. OneScan' BY <1>4, <1>5 DEF ScanInv, OneScan
<1>. QED BY <1>1, <1>3, <1>6

\* Nothing happens to the executions.
LEMMA ScanStays ==
    ASSUME ScanInv, scan' = scan
    PROVE  RowsInDays' /\ OneScan'
    BY DEF ScanInv, RowsInDays, OneScan, Active, Storing

\* Nothing happens to the tables.
LEMMA TablesStay ==
    ASSUME ScanInv, UNCHANGED tableVars
    PROVE  /\ found' = found /\ calls' = calls /\ TablesInDays'
           /\ found' \in [App -> SUBSET Event] /\ calls' \subseteq Call
    BY ScanTypes DEF ScanInv, TablesInDays, tableVars

\* What a procedure finds is of days within the bound.
LEMMA WindowTyped ==
    ASSUME ScanTypeOK, NEW a \in App, NEW start \in Days \cup {Never},
           NEW end \in Days \cup {Never}
    PROVE  /\ InWindow(a, start, end) \in SUBSET Event
           /\ \A e \in InWindow(a, start, end) : DayOf[e] \in Days
<1>1. InWindow(a, start, end) \in SUBSET Event BY ScanTypes DEF InWindow
<1>2. \A e \in Event : DayOf[e] \in Nat BY ScanMetadataAssumption
<1>. QED BY <1>1, <1>2, ScanMetadataAssumption DEF InWindow, Days, Never

LEMMA StartsStep ==
    ASSUME ScanInv, NEW x \in Exec,
           \/ StartAfterLoad(x)
           \/ \E from, to \in Days : StartByHand(x, from, to)
    PROVE  ScanInv'
<1>1. PICK r \in ScanRecord :
         /\ scan' = [scan EXCEPT ![x] = r] /\ r.step = "check" /\ r.rows = {}
  <2>1. CASE StartAfterLoad(x)
    <3>1. [Off EXCEPT !.step = "check"] \in ScanRecord
          /\ [Off EXCEPT !.step = "check"].step = "check"
          /\ [Off EXCEPT !.step = "check"].rows = {}
      BY OffTyped DEF ScanRecord, Step, Off
    <3>. QED BY <2>1, <3>1 DEF StartAfterLoad
  <2>2. ASSUME NEW from \in Days, NEW to \in Days, StartByHand(x, from, to)
        PROVE \E r \in ScanRecord :
                 /\ scan' = [scan EXCEPT ![x] = r] /\ r.step = "check" /\ r.rows = {}
    <3> DEFINE r == [Off EXCEPT !.step = "check", !.manual = TRUE, !.start = from, !.end = to]
    <3>1. r \in ScanRecord /\ r.step = "check" /\ r.rows = {}
      BY OffTyped DEF ScanRecord, Step, Off
    <3>2. scan' = [scan EXCEPT ![x] = r] BY <2>2 DEF StartByHand
    <3>. HIDE DEF r
    <3>. QED BY <3>1, <3>2
  <2>. QED BY <2>1, <2>2
<1>2. scan' \in [Exec -> ScanRecord] /\ RowsInDays' /\ OneScan'
  BY <1>1, StepOf
<1>3. manuals' \in 0..MaxManual
  <2>1. manuals \in 0..MaxManual BY DEF ScanInv, ScanTypeOK
  <2>2. manuals' = manuals \/ (manuals < MaxManual /\ manuals' = manuals + 1)
    BY DEF StartAfterLoad, StartByHand
  <2>. QED BY <2>1, <2>2, ScanMetadataAssumption
<1>4. UNCHANGED <<today, jobDay, loaded, info, meta, late, torn, faults>>
  BY DEF StartAfterLoad, StartByHand
<1>5. UNCHANGED tableVars BY DEF StartAfterLoad, StartByHand
<1>6. ScanTypeOK'
  BY <1>2, <1>3, <1>4, <1>5, TablesStay
     DEF ScanInv, ScanTypeOK, ScanRecord, DraftRecord, Step, Call
<1>. QED BY <1>2, <1>5, <1>6, TablesStay DEF ScanInv

\* An execution goes on with its applications.
LEMMA ContinueTyped ==
    ASSUME ScanTypeOK, NEW x \in Exec, NEW start \in Days \cup {Never},
           NEW end \in Days \cup {Never}
    PROVE  /\ Continue(x, start, end) \in ScanRecord
           /\ Continue(x, start, end).step = "apps"
           /\ Continue(x, start, end).rows = {}
<1>1. scan[x] \in ScanRecord BY ScanTypes
<1>2. scan[x].manual \in BOOLEAN /\ today \in Days BY <1>1, ScanFields, ScanTypes
<1>. QED BY <1>2, OffTyped DEF Continue, ScanRecord, Step, Off

LEMMA CheckStep ==
    ASSUME ScanInv, NEW x \in Exec, CheckWorkflowStart(x)
    PROVE  ScanInv'
<1>1. ScanTypeOK /\ scan[x] \in ScanRecord BY ScanTypes DEF ScanInv
<1>2. LatestJobEnd \in Days BY <1>1, ScanTypes DEF LatestJobEnd
<1>3. scan[x].start \in Days \cup {Never} /\ scan[x].end \in Days \cup {Never}
      /\ WindowFrom \in Days \cup {Never}
  BY <1>1, ScanFields DEF WindowFrom, ScanTypeOK
<1>4. scan' = [scan EXCEPT ![x] =
             IF HasOtherRunningExecutions(x) \/ ~(scan[x].manual \/ IntervalIsOver)
             THEN [Off EXCEPT !.step = "skip"]
             ELSE IF scan[x].manual THEN Continue(x, scan[x].start, scan[x].end)
             ELSE Continue(x, WindowFrom, LatestJobEnd)]
  BY DEF CheckWorkflowStart
<1>5. PICK r \in ScanRecord :
         /\ scan' = [scan EXCEPT ![x] = r] /\ r.rows = {}
         /\ r.step \in {"apps", "store", "rows"} => ~HasOtherRunningExecutions(x)
  <2>1. CASE HasOtherRunningExecutions(x) \/ ~(scan[x].manual \/ IntervalIsOver)
    <3>1. [Off EXCEPT !.step = "skip"] \in ScanRecord
          /\ [Off EXCEPT !.step = "skip"].step = "skip"
          /\ [Off EXCEPT !.step = "skip"].rows = {}
      BY OffTyped DEF ScanRecord, Step, Off
    <3>. QED BY <2>1, <1>4, <3>1
  <2>2. CASE ~(HasOtherRunningExecutions(x) \/ ~(scan[x].manual \/ IntervalIsOver))
    <3>1. PICK start, end \in Days \cup {Never} :
              /\ start = IF scan[x].manual THEN scan[x].start ELSE WindowFrom
              /\ end = IF scan[x].manual THEN scan[x].end ELSE LatestJobEnd
      BY <1>2, <1>3
    <3>2. scan' = [scan EXCEPT ![x] = Continue(x, start, end)]
      <4>1. CASE scan[x].manual BY <2>2, <1>4, <3>1, <4>1
      <4>2. CASE ~scan[x].manual BY <2>2, <1>4, <3>1, <4>2
      <4>. QED BY <4>1, <4>2
    <3>3. PICK r : r = Continue(x, start, end) OBVIOUS
    <3>. QED BY <1>1, <2>2, <3>2, <3>3, ContinueTyped
  <2>. QED BY <2>1, <2>2
<1>6. scan' \in [Exec -> ScanRecord] /\ RowsInDays' /\ OneScan'
  BY <1>5, StepOf DEF HasOtherRunningExecutions
<1>7. UNCHANGED tableVars BY DEF CheckWorkflowStart
<1>8. ScanTypeOK'
  BY <1>1, <1>6, <1>7, TablesStay
     DEF CheckWorkflowStart, ScanTypeOK, ScanRecord, DraftRecord, Step, Call
<1>. QED BY <1>6, <1>7, <1>8, TablesStay DEF ScanInv

\* The step in which an execution ends.
LEMMA OffStep ==
    ASSUME ScanInv, NEW x \in Exec, scan' = [scan EXCEPT ![x] = Off]
    PROVE  scan' \in [Exec -> ScanRecord] /\ RowsInDays' /\ OneScan'
<1>1. Off.rows = {} /\ Off.step = "off" BY DEF Off
<1>. QED BY <1>1, OffTyped, StepOf

LEMMA EndsStep ==
    ASSUME ScanInv, NEW x \in Exec, Skip(x) \/ UpdateWorkflowInfo(x) \/ ExecutionFails(x)
    PROVE  ScanInv'
<1>1. scan' = [scan EXCEPT ![x] = Off]
  BY DEF Skip, UpdateWorkflowInfo, ExecutionFails
<1>2. scan' \in [Exec -> ScanRecord] /\ RowsInDays' /\ OneScan' BY <1>1, OffStep
<1>3. scan[x] \in ScanRecord BY ScanTypes DEF ScanInv
<1>4. info' \in [at : Days \cup {Never}, end : Days \cup {Never}]
  BY <1>3, ScanFields DEF ScanInv, ScanTypeOK, Skip, UpdateWorkflowInfo, ExecutionFails
<1>5. torn' \subseteq App \X BOOLEAN
  BY <1>3, ScanFields DEF ScanInv, ScanTypeOK, Skip, UpdateWorkflowInfo, ExecutionFails
<1>6. faults' \in 0..MaxMishaps
  <2>1. faults \in 0..MaxMishaps BY DEF ScanInv, ScanTypeOK
  <2>2. faults' = faults \/ (faults < MaxMishaps /\ faults' = faults + 1)
    BY DEF Skip, UpdateWorkflowInfo, ExecutionFails, Fault
  <2>. QED BY <2>1, <2>2, ScanMetadataAssumption
<1>7. UNCHANGED <<today, jobDay, loaded, meta, late, manuals>>
  BY DEF Skip, UpdateWorkflowInfo, ExecutionFails
<1>8. found' = found /\ calls' \subseteq Call
  <2>1. Called(x) \subseteq Call BY <1>3, ScanFields DEF Called, Call
  <2>2. calls \subseteq Call BY ScanTypes DEF ScanInv
  <2>. QED BY <2>1, <2>2 DEF Skip, UpdateWorkflowInfo, ExecutionFails, tableVars
<1>9. ScanTypeOK'
  BY <1>2, <1>4, <1>5, <1>6, <1>7, <1>8
     DEF ScanInv, ScanTypeOK, ScanRecord, DraftRecord, Step, Call
<1>. QED BY <1>2, <1>8, <1>9 DEF ScanInv, TablesInDays

LEMMA AroundStep ==
    ASSUME ScanInv, Pass \/ JobEnds \/ \E e \in Event : LoadEvent(e)
    PROVE  ScanInv'
<1>1. UNCHANGED <<scan, info, meta, torn, manuals, faults>> BY DEF Pass, JobEnds, LoadEvent
<1>2. today' \in Days /\ jobDay' \in Days
  BY ScanMetadataAssumption DEF ScanInv, ScanTypeOK, Days, Pass, JobEnds, LoadEvent
<1>3. loaded' \subseteq Event /\ late' \subseteq Event
  BY DEF ScanInv, ScanTypeOK, Pass, JobEnds, LoadEvent
<1>4. UNCHANGED tableVars BY DEF Pass, JobEnds, LoadEvent
<1>5. ScanTypeOK' BY <1>1, <1>2, <1>3, <1>4, TablesStay DEF ScanInv, ScanTypeOK, Call
<1>. QED BY <1>1, <1>4, <1>5, ScanStays, TablesStay DEF ScanInv

\* A procedure that nobody polls ends.
LEMMA CallEndsStep ==
    ASSUME ScanInv, NEW call \in calls, CallEnds(call)
    PROVE  ScanInv'
<1>1. UNCHANGED <<today, jobDay, loaded, info, scan, meta, late, torn, manuals, faults>>
  BY DEF CallEnds
<1>2. ScanTypeOK /\ found \in [App -> SUBSET Event] /\ calls \subseteq Call
  BY ScanTypes DEF ScanInv
<1>3. PICK a, start, end : a = call.app /\ start = call.start /\ end = call.end OBVIOUS
<1>4. a \in App /\ start \in Days \cup {Never} /\ end \in Days \cup {Never}
  BY <1>2, <1>3 DEF Call
<1>5. /\ calls' \subseteq calls
      /\ found' = [found EXCEPT ![a] = InWindow(a, start, end)] \/ found' = found
  BY <1>3 DEF CallEnds
<1>6. found' \in [App -> SUBSET Event] /\ TablesInDays'
  BY <1>2, <1>4, <1>5, WindowTyped DEF ScanInv, TablesInDays
<1>7. ScanTypeOK' BY <1>1, <1>2, <1>5, <1>6 DEF ScanTypeOK, Call
<1>. QED BY <1>1, <1>6, <1>7, ScanStays DEF ScanInv

-----------------------------------------------------------------------------
(* Stores.                                                                 *)

\* What is read of the items: drafts of months within the bound.
LEMMA ExistingTyped ==
    ASSUME ScanTypeOK, NEW a \in App, NEW rows \in SUBSET Event
    PROVE  Existing(a, rows) \in [Months -> DraftRecord]
<1>1. NoDraft \in DraftRecord BY DEF NoDraft, DraftRecord
<1>2. ASSUME NEW k \in Keys
      PROVE  [key |-> k, seen |-> meta[a][k].seen] \in DraftRecord
  <2>1. meta[a][k] \in Item BY ScanTypes
  <2>2. meta[a][k].seen \in SUBSET Event BY <2>1 DEF Item
  <2>. QED BY <2>2 DEF DraftRecord
<1>3. ASSUME NEW m \in Months
      PROVE  LET copies == {k \in Keys : meta[a][k].origin = m}
             IN (IF copies = {} \/ \A e \in rows : Month(DayOf[e]) # m THEN NoDraft
                 ELSE LET k == CHOOSE k \in copies : \A l \in copies : k <= l
                      IN [key |-> k, seen |-> meta[a][k].seen]) \in DraftRecord
  <2> DEFINE copies == {k \in Keys : meta[a][k].origin = m}
             k == CHOOSE k \in copies : \A l \in copies : k <= l
  <2>1. copies \in SUBSET Keys OBVIOUS
  <2>2. copies # {} => k \in Keys
    <3>. HIDE DEF copies
    <3>. QED BY <2>1, FirstCopy
  <2>. HIDE DEF copies, k
  <2>3. (IF copies = {} \/ \A e \in rows : Month(DayOf[e]) # m THEN NoDraft
         ELSE [key |-> k, seen |-> meta[a][k].seen]) \in DraftRecord
    BY <1>1, <1>2, <2>2
  <2>. QED BY <2>3 DEF copies, k
<1>. QED BY <1>3 DEF Existing

LEMMA StoreBeginsTyped ==
    ASSUME ScanTypeOK, NEW x \in Exec, NEW a \in App, NEW rows \in SUBSET Event,
           \A e \in rows : DayOf[e] \in Days
    PROVE  /\ StoreBegins(x, a, rows) \in ScanRecord
           /\ StoreBegins(x, a, rows).rows = rows
<1>1. scan[x] \in ScanRecord BY ScanTypes
<1>2. New(a, rows) \in SUBSET Months BY MonthTyped DEF New
<1>3. {DayOf[e] : e \in rows} \in SUBSET Days OBVIOUS
<1>4. Existing(a, rows) \in [Months -> DraftRecord] BY ExistingTyped
<1>5. PICK r, app, left, drafts, new :
        /\ r = scan[x] /\ app = {a} /\ left = {DayOf[e] : e \in rows}
        /\ drafts = Existing(a, rows) /\ new = New(a, rows)
  OBVIOUS
<1>6. PICK s : s = [r EXCEPT !.step = "rows", !.app = app, !.rows = rows, !.left = left,
                             !.drafts = drafts, !.new = new, !.marked = Never]
  OBVIOUS
<1>7. r \in ScanRecord /\ app \in SUBSET App /\ left \in SUBSET Days
      /\ drafts \in [Months -> DraftRecord] /\ new \in SUBSET Months
  BY <1>1, <1>2, <1>3, <1>4, <1>5
<1>8. s \in ScanRecord /\ s.rows = rows
  <2>1. PICK r1 : r1 = [r EXCEPT !.step = "rows", !.app = app, !.rows = rows] OBVIOUS
  <2>2. r1 \in ScanRecord /\ r1.rows = rows BY <1>7, <2>1 DEF ScanRecord, Step
  <2>3. PICK r2 : r2 = [r1 EXCEPT !.left = left, !.marked = Never, !.drafts = drafts]
    OBVIOUS
  <2>4. r2 \in ScanRecord /\ r2.rows = rows BY <1>7, <2>2, <2>3 DEF ScanRecord
  <2>5. PICK r3 : r3 = [r2 EXCEPT !.new = new] OBVIOUS
  <2>6. r3 \in ScanRecord /\ r3.rows = rows BY <1>7, <2>4, <2>5 DEF ScanRecord
  <2>7. r3 = s BY <1>6, <1>7, <2>1, <2>3, <2>5 DEF ScanRecord
  <2>. QED BY <2>6, <2>7
<1>9. s = StoreBegins(x, a, rows) BY <1>5, <1>6 DEF StoreBegins
<1>. QED BY <1>8, <1>9

\* The procedure fills the tables of an application.
LEMMA TablesStep ==
    ASSUME ScanInv, NEW x \in Exec, NEW a \in App, ScanApp(x, a)
    PROVE  ScanInv'
<1>1. ScanTypeOK /\ scan[x] \in ScanRecord /\ found \in [App -> SUBSET Event]
      /\ scan \in [Exec -> ScanRecord] /\ calls \subseteq Call
  BY ScanTypes DEF ScanInv
<1>2. PICK s, r : s = scan[x] /\ r = [s EXCEPT !.step = "store", !.app = {a}] OBVIOUS
<1>3. r \in ScanRecord /\ r.rows = s.rows BY <1>1, <1>2 DEF ScanRecord, Step
<1>4. scan' = [scan EXCEPT ![x] = r] BY <1>1, <1>2 DEF ScanApp, ScanRecord
<1>5. Active(x) BY DEF ScanApp, Active
<1>6. \A e \in r.rows : DayOf[e] \in Days BY <1>2, <1>3 DEF ScanInv, RowsInDays
<1>7. scan' \in [Exec -> ScanRecord] /\ RowsInDays' /\ OneScan'
  BY <1>3, <1>4, <1>5, <1>6, StepOf
<1>8. PICK start, end : start = scan[x].start /\ end = scan[x].end OBVIOUS
<1>9. start \in Days \cup {Never} /\ end \in Days \cup {Never}
  BY <1>1, <1>8, ScanFields
<1>10. found' = [found EXCEPT ![a] = InWindow(a, start, end)] BY <1>8 DEF ScanApp
<1>11. found' \in [App -> SUBSET Event] /\ TablesInDays'
  BY <1>1, <1>9, <1>10, WindowTyped DEF ScanInv, TablesInDays
<1>12. UNCHANGED <<today, jobDay, loaded, info, calls, meta, late, torn, manuals, faults>>
  BY DEF ScanApp
<1>13. ScanTypeOK'
  BY <1>1, <1>7, <1>11, <1>12 DEF ScanTypeOK, ScanRecord, DraftRecord, Step, Call
<1>. QED BY <1>7, <1>11, <1>13 DEF ScanInv

\* A store begins, or begins again, with what the tables hold.
LEMMA StoreStep ==
    ASSUME ScanInv, NEW x \in Exec, NEW a \in App, StoreApp(x, a) \/ StoreRepeats(x, a)
    PROVE  ScanInv'
<1>1. ScanTypeOK /\ scan[x] \in ScanRecord BY ScanTypes DEF ScanInv
<1>2. PICK rows \in SUBSET Event :
        /\ scan' = [scan EXCEPT ![x] = StoreBegins(x, a, rows)]
        /\ \A e \in rows : DayOf[e] \in Days
  <2>1. found[a] \in SUBSET Event /\ \A e \in found[a] : DayOf[e] \in Days
    BY ScanTypes DEF ScanInv, TablesInDays
  <2>. QED BY <2>1 DEF StoreApp, StoreRepeats
<1>3. PICK r : r = StoreBegins(x, a, rows) OBVIOUS
<1>4. r \in ScanRecord /\ \A e \in r.rows : DayOf[e] \in Days
  BY <1>1, <1>2, <1>3, StoreBeginsTyped
<1>5. Active(x) BY DEF StoreApp, StoreRepeats, Active
<1>6. scan' \in [Exec -> ScanRecord] /\ RowsInDays' /\ OneScan'
  BY <1>2, <1>3, <1>4, <1>5, StepOf
<1>7. faults' \in 0..MaxMishaps
  <2>1. faults \in 0..MaxMishaps BY DEF ScanInv, ScanTypeOK
  <2>2. faults' = faults \/ (faults < MaxMishaps /\ faults' = faults + 1)
    BY DEF StoreApp, StoreRepeats, Fault
  <2>. QED BY <2>1, <2>2, ScanMetadataAssumption
<1>8. UNCHANGED tableVars
      /\ UNCHANGED <<today, jobDay, loaded, info, meta, late, torn, manuals>>
  BY DEF StoreApp, StoreRepeats
<1>9. ScanTypeOK'
  BY <1>1, <1>6, <1>7, <1>8, TablesStay
     DEF ScanTypeOK, ScanRecord, DraftRecord, Step, Call
<1>. QED BY <1>6, <1>8, <1>9, TablesStay DEF ScanInv

\* A draft of a month.
LEMMA DraftTyped ==
    ASSUME ScanTypeOK, NEW x \in Exec, NEW m \in Months, NEW d, NEW key \in Keys
    PROVE  Draft(x, m, d, key) \in DraftRecord
<1>1. scan[x] \in ScanRecord BY ScanTypes
<1>2. scan[x].drafts[m] \in DraftRecord /\ scan[x].rows \in SUBSET Event
  BY <1>1, ScanFields
<1>3. scan[x].drafts[m].seen \in SUBSET Event BY <1>2 DEF DraftRecord
<1>. QED BY <1>2, <1>3 DEF Draft, DraftRecord

\* A store goes on: one of its rows or batches is done.
LEMMA StoreGoesOn ==
    ASSUME ScanInv, NEW x \in Exec, NEW r \in ScanRecord,
           Storing(x), r.step = scan[x].step, r.rows = scan[x].rows,
           scan' = [scan EXCEPT ![x] = r],
           meta' \in [App -> [Keys -> Item]],
           UNCHANGED tableVars, torn' \subseteq App \X BOOLEAN, faults' \in 0..MaxMishaps,
           UNCHANGED <<today, jobDay, loaded, info, late, manuals>>
    PROVE  ScanInv'
<1>1. Active(x) BY DEF Active
<1>2. \A e \in r.rows : DayOf[e] \in Days BY DEF ScanInv, RowsInDays
<1>3. scan' \in [Exec -> ScanRecord] /\ RowsInDays' /\ OneScan' BY <1>1, <1>2, StepOf
<1>4. ScanTypeOK'
  BY <1>3, TablesStay DEF ScanInv, ScanTypeOK, ScanRecord, DraftRecord, Step, Item, Call
<1>. QED BY <1>3, <1>4, TablesStay DEF ScanInv

\* What a row and a batch leave alone.
LEMMA StoreLeaves ==
    ASSUME ScanInv, UNCHANGED <<torn, faults>>
    PROVE  torn' \subseteq App \X BOOLEAN /\ faults' \in 0..MaxMishaps
    BY DEF ScanInv, ScanTypeOK

LEMMA StoreRowStep ==
    ASSUME ScanInv, NEW x \in Exec, NEW a \in App, NEW d \in Days, StoreRow(x, a, d)
    PROVE  ScanInv'
<1>1. ScanTypeOK /\ scan[x] \in ScanRecord BY ScanTypes DEF ScanInv
<1>2. PICK m, latest, key, marked :
        /\ m = Month(d) /\ latest = meta[a][Latest]
        /\ key = IF m < latest.origin THEN m ELSE Latest
        /\ marked = IF m < latest.origin THEN latest.origin ELSE m
  OBVIOUS
<1>3. latest \in Item BY <1>1, <1>2, ScanTypes, KeysTyped
<1>4. m \in Months /\ key \in Keys /\ marked \in Months \cup {Never}
  BY <1>2, <1>3, MonthTyped, KeysTyped DEF Item
<1>5. PICK left, drafts, old :
        /\ left = scan[x].left \ {d} /\ old = scan[x].drafts
        /\ drafts = [old EXCEPT ![m] = Draft(x, m, d, key)]
  OBVIOUS
<1>6. left \in SUBSET Days /\ old \in [Months -> DraftRecord]
  BY <1>1, <1>5, ScanFields
<1>7. drafts \in [Months -> DraftRecord] BY <1>1, <1>4, <1>5, <1>6, DraftTyped
<1>8. PICK s, r : /\ s = scan[x]
                  /\ r = [s EXCEPT !.left = left, !.marked = marked, !.drafts = drafts]
  OBVIOUS
<1>9. r \in ScanRecord /\ r.step = scan[x].step /\ r.rows = scan[x].rows
  BY <1>1, <1>4, <1>6, <1>7, <1>8 DEF ScanRecord
<1>10. scan' = [scan EXCEPT ![x] = r]
  BY <1>1, <1>2, <1>5, <1>8, ScanTypes DEF StoreRow, ScanRecord
<1>11. meta' \in [App -> [Keys -> Item]]
  <2>1. meta \in [App -> [Keys -> Item]] BY <1>1, ScanTypes
  <2>2. meta' = IF latest.origin # Never /\ latest.origin < m
                THEN [meta EXCEPT ![a][latest.origin] = latest] ELSE meta
    BY <1>2 DEF StoreRow
  <2>3. latest.origin \in Months \cup {Never} BY <1>3 DEF Item
  <2>. QED BY <1>3, <2>1, <2>2, <2>3, KeysTyped
<1>12. Storing(x) /\ UNCHANGED tableVars
      /\ UNCHANGED <<today, jobDay, loaded, info, late, torn, manuals, faults>>
  BY DEF StoreRow, Storing
<1>. QED BY <1>9, <1>10, <1>11, <1>12, StoreLeaves, StoreGoesOn

LEMMA StoreNextRowStep ==
    ASSUME ScanInv, NEW x \in Exec, NEW a \in App, NEW d \in Days, StoreNextRow(x, a, d)
    PROVE  ScanInv'
<1>1. ScanTypeOK /\ scan[x] \in ScanRecord BY ScanTypes DEF ScanInv
<1>2. PICK m, last, old, key, marked :
        /\ m = Month(d) /\ last = scan[x].marked /\ old = scan[x].drafts
        /\ key = IF m < last THEN m ELSE Latest
        /\ marked = IF m < last THEN last ELSE m
  OBVIOUS
<1>3. /\ last \in Months /\ old \in [Months -> DraftRecord]
  BY <1>1, <1>2, ScanFields DEF StoreNextRow
<1>4. m \in Months /\ key \in Keys /\ marked \in Months \cup {Never}
  BY <1>2, <1>3, MonthTyped, KeysTyped
<1>5. PICK left, moved, drafts :
        /\ left = scan[x].left \ {d}
        /\ moved = IF m > last THEN [old EXCEPT ![last].key = last] ELSE old
        /\ drafts = [moved EXCEPT ![m] = Draft(x, m, d, key)]
  OBVIOUS
<1>6. left \in SUBSET Days BY <1>1, <1>5, ScanFields
<1>7. moved \in [Months -> DraftRecord]
  <2>1. old[last] \in DraftRecord BY <1>3
  <2>2. [old[last] EXCEPT !.key = last] \in DraftRecord
    BY <1>3, <2>1, KeysTyped DEF DraftRecord
  <2>. QED BY <1>3, <1>5, <2>2
<1>8. drafts \in [Months -> DraftRecord] BY <1>1, <1>4, <1>5, <1>7, DraftTyped
<1>9. PICK s, r : /\ s = scan[x]
                  /\ r = [s EXCEPT !.left = left, !.marked = marked, !.drafts = drafts]
  OBVIOUS
<1>10. r \in ScanRecord /\ r.step = scan[x].step /\ r.rows = scan[x].rows
  BY <1>1, <1>4, <1>6, <1>8, <1>9 DEF ScanRecord
<1>11. scan' = [scan EXCEPT ![x] = r]
  BY <1>1, <1>2, <1>5, <1>9, ScanTypes DEF StoreNextRow, ScanRecord
<1>12. Storing(x) /\ UNCHANGED tableVars
      /\ UNCHANGED <<today, jobDay, loaded, info, meta, late, torn, manuals, faults>>
  BY DEF StoreNextRow, Storing
<1>. QED BY <1>1, <1>10, <1>11, <1>12, ScanTypes, StoreLeaves, StoreGoesOn

LEMMA BatchStep ==
    ASSUME ScanInv, NEW x \in Exec, NEW a \in App, NEW m \in Months, BatchWrite(x, a, m)
    PROVE  ScanInv'
<1>1. ScanTypeOK /\ scan[x] \in ScanRecord BY ScanTypes DEF ScanInv
<1>2. PICK old, new, drafts, s, r :
        /\ old = scan[x].drafts /\ new = scan[x].new \ {m}
        /\ drafts = [old EXCEPT ![m] = NoDraft] /\ s = scan[x]
        /\ r = [s EXCEPT !.drafts = drafts, !.new = new]
  OBVIOUS
<1>3. old \in [Months -> DraftRecord] /\ new \in SUBSET Months BY <1>1, <1>2, ScanFields
<1>4. NoDraft \in DraftRecord BY DEF NoDraft, DraftRecord
<1>5. drafts \in [Months -> DraftRecord] BY <1>2, <1>3, <1>4
<1>6. r \in ScanRecord /\ r.step = scan[x].step /\ r.rows = scan[x].rows
  BY <1>1, <1>2, <1>3, <1>5 DEF ScanRecord
<1>7. scan' = [scan EXCEPT ![x] = r]
  BY <1>1, <1>2, ScanTypes DEF BatchWrite, ScanRecord
<1>8. meta' \in [App -> [Keys -> Item]]
  <2>1. PICK draft : draft = old[m] OBVIOUS
  <2>2. draft \in DraftRecord BY <1>3, <2>1
  <2>3. [origin |-> m, seen |-> draft.seen] \in Item BY <2>2 DEF DraftRecord, Item
  <2>4. meta' = [meta EXCEPT ![a][draft.key] = [origin |-> m, seen |-> draft.seen]]
    BY <1>2, <2>1 DEF BatchWrite
  <2>5. meta \in [App -> [Keys -> Item]] /\ draft.key \in Keys \cup {Never}
    BY <1>1, <2>2, ScanTypes DEF DraftRecord
  <2>. QED BY <2>3, <2>4, <2>5
<1>9. Storing(x) /\ UNCHANGED tableVars
      /\ UNCHANGED <<today, jobDay, loaded, info, late, torn, manuals, faults>>
  BY DEF BatchWrite, Storing
<1>. QED BY <1>6, <1>7, <1>8, <1>9, StoreLeaves, StoreGoesOn

\* The item of a batch that is left unprocessed: its draft is gone all the same.
LEMMA LeavesStep ==
    ASSUME ScanInv, NEW x \in Exec, NEW a \in App, NEW m \in Months, BatchLeaves(x, a, m)
    PROVE  ScanInv'
<1>1. ScanTypeOK /\ scan[x] \in ScanRecord BY ScanTypes DEF ScanInv
<1>2. PICK old, new, drafts, s, r :
        /\ old = scan[x].drafts /\ new = scan[x].new \ {m}
        /\ drafts = [old EXCEPT ![m] = NoDraft] /\ s = scan[x]
        /\ r = [s EXCEPT !.drafts = drafts, !.new = new]
  OBVIOUS
<1>3. old \in [Months -> DraftRecord] /\ new \in SUBSET Months BY <1>1, <1>2, ScanFields
<1>4. NoDraft \in DraftRecord BY DEF NoDraft, DraftRecord
<1>5. drafts \in [Months -> DraftRecord] BY <1>2, <1>3, <1>4
<1>6. r \in ScanRecord /\ r.step = scan[x].step /\ r.rows = scan[x].rows
  BY <1>1, <1>2, <1>3, <1>5 DEF ScanRecord
<1>7. scan' = [scan EXCEPT ![x] = r]
  BY <1>1, <1>2, ScanTypes DEF BatchLeaves, ScanRecord
<1>8. torn' \subseteq App \X BOOLEAN
  <2>1. <<a, TRUE>> \in App \X BOOLEAN OBVIOUS
  <2>2. torn \subseteq App \X BOOLEAN BY DEF ScanInv, ScanTypeOK
  <2>. QED BY <2>1, <2>2 DEF BatchLeaves
<1>9. faults' \in 0..MaxMishaps
  BY ScanMetadataAssumption DEF BatchLeaves, Fault, ScanInv, ScanTypeOK
<1>10. Storing(x) /\ UNCHANGED tableVars
       /\ UNCHANGED <<today, jobDay, loaded, info, meta, late, manuals>>
  BY DEF BatchLeaves, Storing
<1>. QED BY <1>1, <1>6, <1>7, <1>8, <1>9, <1>10, ScanTypes, StoreGoesOn

LEMMA AppDoneStep ==
    ASSUME ScanInv, NEW x \in Exec, NEW a \in App, AppDone(x, a)
    PROVE  ScanInv'
<1>1. ScanTypeOK /\ scan[x] \in ScanRecord BY ScanTypes DEF ScanInv
<1>2. PICK at, todo, s, r :
        /\ at = scan[x].at /\ todo = scan[x].todo \ {a}
        /\ s = Continue(x, scan[x].start, scan[x].end)
        /\ r = [s EXCEPT !.at = at, !.todo = todo]
  OBVIOUS
<1>3. at \in Days \cup {Never} /\ todo \in SUBSET App BY <1>1, <1>2, ScanFields
<1>4. s \in ScanRecord /\ s.rows = {} BY <1>1, <1>2, ScanFields, ContinueTyped
<1>5. r \in ScanRecord /\ r.rows = {} BY <1>2, <1>3, <1>4 DEF ScanRecord
<1>6. scan' = [scan EXCEPT ![x] = r] BY <1>2 DEF AppDone
<1>7. Active(x) BY DEF AppDone, Active, Storing
<1>8. scan' \in [Exec -> ScanRecord] /\ RowsInDays' /\ OneScan'
  BY <1>5, <1>6, <1>7, StepOf
<1>9. UNCHANGED tableVars BY DEF AppDone
<1>10. ScanTypeOK'
  BY <1>1, <1>8, <1>9, TablesStay
     DEF AppDone, ScanTypeOK, ScanRecord, DraftRecord, Step, Call
<1>. QED BY <1>8, <1>9, <1>10, TablesStay DEF ScanInv

-----------------------------------------------------------------------------
(* The theorems.                                                           *)

LEMMA InitHolds == ScanInit => ScanInv
<1>. SUFFICES ASSUME ScanInit PROVE ScanInv OBVIOUS
<1>1. scan \in [Exec -> ScanRecord] /\ \A x \in Exec : scan[x] = Off
  BY OffTyped DEF ScanInit
<1>2. RowsInDays /\ OneScan BY <1>1 DEF RowsInDays, OneScan, Active, Storing, Off
<1>6. TablesInDays BY DEF ScanInit, TablesInDays
<1>3. meta \in [App -> [Keys -> Item]] BY DEF ScanInit, NoItem, Item
<1>4. 0 \in Days /\ 0 \in 0..MaxManual /\ 0 \in 0..MaxMishaps
  BY ScanMetadataAssumption DEF Days
<1>5. ScanTypeOK
  BY <1>1, <1>3, <1>4 DEF ScanInit, ScanTypeOK, ScanRecord, DraftRecord, Step, Item
<1>. QED BY <1>2, <1>5, <1>6 DEF ScanInv

LEMMA StepKeeps == ScanInv /\ [ScanNext]_scanVars => ScanInv'
<1>. SUFFICES ASSUME ScanInv, [ScanNext]_scanVars PROVE ScanInv' OBVIOUS
<1>1. CASE Pass \/ JobEnds \/ \E e \in Event : LoadEvent(e) BY <1>1, AroundStep
<1>2. ASSUME NEW x \in Exec,
             StartAfterLoad(x) \/ \E from, to \in Days : StartByHand(x, from, to)
      PROVE  ScanInv'
  BY <1>2, StartsStep
<1>3. ASSUME NEW x \in Exec, Proceed(x) PROVE ScanInv'
  <2>1. CASE CheckWorkflowStart(x) BY <2>1, CheckStep
  <2>2. CASE Skip(x) \/ UpdateWorkflowInfo(x) BY <2>2, EndsStep
  <2>3. ASSUME NEW a \in App, ScanApp(x, a) PROVE ScanInv' BY <2>3, TablesStep
  <2>8. ASSUME NEW a \in App, StoreApp(x, a) PROVE ScanInv' BY <2>8, StoreStep
  <2>4. ASSUME NEW a \in App, NEW d \in Days, StoreRow(x, a, d) PROVE ScanInv'
    BY <2>4, StoreRowStep
  <2>5. ASSUME NEW a \in App, NEW d \in Days, StoreNextRow(x, a, d) PROVE ScanInv'
    BY <2>5, StoreNextRowStep
  <2>6. ASSUME NEW a \in App, NEW m \in Months, BatchWrite(x, a, m) PROVE ScanInv'
    BY <2>6, BatchStep
  <2>7. ASSUME NEW a \in App, AppDone(x, a) PROVE ScanInv' BY <2>7, AppDoneStep
  <2>. QED BY <1>3, <2>1, <2>2, <2>3, <2>4, <2>5, <2>6, <2>7, <2>8 DEF Proceed
<1>4. ASSUME NEW x \in Exec, NEW a \in App, StoreRepeats(x, a) PROVE ScanInv'
  BY <1>4, StoreStep
<1>5. ASSUME NEW x \in Exec, ExecutionFails(x) PROVE ScanInv' BY <1>5, EndsStep
<1>6. CASE UNCHANGED scanVars
  <2>1. ScanTypeOK' BY <1>6 DEF ScanInv, ScanTypeOK, scanVars
  <2>2. UNCHANGED tableVars BY <1>6 DEF scanVars, tableVars
  <2>. QED BY <1>6, <2>1, <2>2, ScanStays, TablesStay DEF ScanInv, scanVars
<1>7. ASSUME NEW x \in Exec, NEW a \in App, NEW m \in Months, BatchLeaves(x, a, m)
      PROVE  ScanInv'
  BY <1>7, LeavesStep
<1>8. ASSUME NEW call \in calls, CallEnds(call) PROVE ScanInv' BY <1>8, CallEndsStep
<1>. QED BY <1>1, <1>2, <1>3, <1>4, <1>5, <1>6, <1>7, <1>8 DEF ScanNext

\* The variables of the scan workflow keep their types.
THEOREM ScanTypeCorrect == ScanSpec => []ScanTypeOK
<1>1. ScanInv => ScanTypeOK BY DEF ScanInv
<1>. QED BY <1>1, InitHolds, StepKeeps, PTL DEF ScanSpec

\* One execution at a time is past the check of check-metadata-workflow-start,
\* however many are started after loads and by hand: no two drop and fill the
\* same tables, or merge into the same items of DynamoDB.
THEOREM OneScanAtATime == ScanSpec => []OneScan
<1>1. ScanInv => OneScan BY DEF ScanInv
<1>. QED BY <1>1, InitHolds, StepKeeps, PTL DEF ScanSpec

-----------------------------------------------------------------------------
(* Items and stores as values.                                             *)
(*                                                                         *)
(* items: the items of an application by sort key.  kept: the events that  *)
(* have to be there.  unsettled: those that a store is merging, or that a  *)
(* store that was given up left to the next scan.  whole: no store of the  *)
(* application was given up.                                               *)

MonthOf(e) == Month(DayOf[e])
Present(items, k) == items[k].origin # Never
Top(items) == items[Latest].origin
HasMonth(items, m) == \E k \in Keys : items[k].origin = m

\* Every item but the latest lies under its month, and is older than the latest
\* or than an event yet to be merged.
Placed(items, unsettled) ==
    /\ \A k \in Keys : ~Present(items, k) => items[k] = NoItem
    /\ \A m \in Months : Present(items, m) =>
          /\ items[m].origin = m
          /\ m < Top(items) \/ \E e \in unsettled : m < MonthOf(e)

\* Nothing that has to stay is in the month of the latest.
Spare(items, kept, whole) == ~whole /\ \A e \in kept : MonthOf(e) # Top(items)

\* Before there is an item newer than the latest, the latest has been copied.
Copied(items, kept, whole) ==
    \A m \in Months : Present(items, m) /\ Top(items) < m /\ Top(items) # Never =>
        Present(items, Top(items)) \/ Spare(items, kept, whole)

\* What has to be there is in every copy of its month.
Holds(items, kept) ==
    \A e \in kept : /\ HasMonth(items, MonthOf(e))
                    /\ \A k \in Keys : items[k].origin = MonthOf(e) => e \in items[k].seen

Items(items, unsettled, kept, whole) ==
    Placed(items, unsettled) /\ Copied(items, kept, whole) /\ Holds(items, kept)

\* r: the execution of a store.

Draws(r, m) == r.drafts[m] # NoDraft
Merged(r) == {e \in r.rows : DayOf[e] \notin r.left}
Final(r, m) == IF m = r.marked THEN Latest ELSE m

\* The months of rows have drafts, and those of merged rows their sort keys.
Sorted(r) ==
    /\ \A m \in Months : Draws(r, m) => \E e \in r.rows : MonthOf(e) = m
    /\ \A d \in r.left : \E e \in r.rows : DayOf[e] = d
    /\ r.marked = Never => Merged(r) = {}
    /\ \A e \in Merged(r) :
          /\ MonthOf(e) <= r.marked
          /\ Draws(r, MonthOf(e)) => r.drafts[MonthOf(e)].key = Final(r, MonthOf(e))

\* Items that were read are not new, and the others are.
ReadFirst(r, items) ==
    /\ \A m \in r.new : ~HasMonth(items, m)
    /\ \A e \in r.rows :
          /\ r.left # {} /\ HasMonth(items, MonthOf(e)) => Draws(r, MonthOf(e))
          /\ (r.left # {} \/ Draws(r, MonthOf(e))) /\ ~HasMonth(items, MonthOf(e)) =>
                 MonthOf(e) \in r.new \/ MonthOf(e) < Top(items)

\* The month marked is the newest, and before its item becomes the latest the
\* one that was is copied, or was read and has to be written first.
Marked(r, items, kept, whole) ==
    r.marked # Never =>
        /\ Top(items) <= r.marked
        /\ r.marked = Top(items) \/ \E e \in Merged(r) : MonthOf(e) = r.marked
        /\ Top(items) # Never /\ Top(items) < r.marked =>
              \/ Present(items, Top(items))
              \/ Draws(r, Top(items))
              \/ Spare(items, kept, whole)

\* Merged rows are in a draft until that is written, and with them what has to
\* be there.
Carried(r, items, kept) ==
    /\ \A e \in Merged(r) :
          IF Draws(r, MonthOf(e)) THEN e \in r.drafts[MonthOf(e)].seen
          ELSE /\ r.left = {}
               /\ items[Final(r, MonthOf(e))].origin = MonthOf(e)
               /\ e \in items[Final(r, MonthOf(e))].seen
    /\ \A e \in kept : Draws(r, MonthOf(e)) => e \in r.drafts[MonthOf(e)].seen

Merges(r, items, kept, whole) ==
    ReadFirst(r, items) /\ Marked(r, items, kept, whole) /\ Carried(r, items, kept)

\* Copies and drafts of a month differ by rows of the store only.
Agree(r, items) ==
    /\ \A k, l \in Keys : items[k].origin = items[l].origin =>
          (items[k].seen \ r.rows) \subseteq items[l].seen
    /\ \A m \in Months, k \in Keys : Draws(r, m) /\ items[k].origin = m =>
          /\ (items[k].seen \ r.rows) \subseteq r.drafts[m].seen
          /\ (r.drafts[m].seen \ r.rows) \subseteq items[k].seen

\* Nothing that the items told is away, rows of the store aside.
Stays(items, new, rows) ==
    \A k \in Keys : \E l \in Keys : (items[k].seen \ rows) \subseteq new[l].seen

-----------------------------------------------------------------------------
(* Months, sort keys and copies.                                           *)

\* Months and sort keys are numbers; 'latest' sorts after every month.
LEMMA MonthsAndKeys ==
    /\ Months \subseteq Nat /\ Latest \in Nat /\ Latest \notin Months
    /\ Keys = Months \cup {Latest}
    /\ Never \notin Keys /\ Never < 0 /\ Never \in Int
    /\ \A m \in Months : m < Latest /\ \A n \in Nat : n <= m => n \in Months
<1>1. LastDay \div MonthDays \in Nat BY ScanMetadataAssumption
<1>. QED BY <1>1 DEF Keys, Months, Latest, Never, Month

LEMMA MonthOfTyped ==
    ASSUME NEW e \in Event
    PROVE  /\ MonthOf(e) \in Nat
           /\ DayOf[e] \in Days => MonthOf(e) \in Months
<1>1. DayOf[e] \in Nat /\ MonthDays \in Nat \ {0} BY ScanMetadataAssumption
<1>2. DayOf[e] \div MonthDays \in Nat BY <1>1
<1>. QED BY <1>2, MonthTyped DEF MonthOf, Month

\* A month with an item has it under 'latest', or under its own key.
LEMMA CopyOf ==
    ASSUME NEW items \in [Keys -> Item], NEW unsettled, Placed(items, unsettled),
           NEW m \in Nat, HasMonth(items, m)
    PROVE  Top(items) = m \/ (m \in Months /\ Present(items, m) /\ items[m].origin = m)
  BY MonthsAndKeys DEF HasMonth, Placed, Top, Present

\* Nothing is unsettled: a month has one item.
LEMMA OneCopy ==
    ASSUME NEW items \in [Keys -> Item], Placed(items, {}),
           NEW k \in Keys, NEW l \in Keys, items[k].origin = items[l].origin,
           items[k].origin # Never
    PROVE  k = l
<1>1. \A m \in Months : Present(items, m) => items[m].origin = m /\ m < Top(items)
  BY DEF Placed
<1>. QED BY <1>1, MonthsAndKeys DEF Present, Top

-----------------------------------------------------------------------------
(* A row is merged.                                                        *)

\* The row of day d goes into the draft of its month, under this key.
RowMerged(r, s, d, key) ==
    /\ d \in r.left
    /\ s.rows = r.rows /\ s.new = r.new /\ s.left = r.left \ {d}
    /\ s.drafts[Month(d)].key = key
    /\ s.drafts[Month(d)].seen = r.drafts[Month(d)].seen \cup {e \in r.rows : DayOf[e] = d}

\* The first row, when the latest item is 'top'.
FirstRow(r, s, d, top) ==
    /\ r.marked = Never
    /\ RowMerged(r, s, d, IF Month(d) < top THEN Month(d) ELSE Latest)
    /\ s.marked = IF Month(d) < top THEN top ELSE Month(d)
    /\ \A n \in Months \ {Month(d)} : s.drafts[n] = r.drafts[n]

\* Any other row.
NextRow(r, s, d) ==
    /\ r.marked # Never
    /\ r.marked < Month(d) => Draws(r, r.marked)
    /\ RowMerged(r, s, d, IF Month(d) < r.marked THEN Month(d) ELSE Latest)
    /\ s.marked = IF Month(d) < r.marked THEN r.marked ELSE Month(d)
    /\ \A n \in Months \ {Month(d)} :
          /\ s.drafts[n].seen = r.drafts[n].seen
          /\ s.drafts[n].key = IF n = r.marked /\ r.marked < Month(d) THEN n
                               ELSE r.drafts[n].key

\* A draft without a sort key is no draft.
LEMMA DraftsOf ==
    ASSUME NEW r \in ScanRecord, NEW m \in Months
    PROVE  /\ r.drafts[m] \in DraftRecord
           /\ Draws(r, m) \/ (r.drafts[m].key = Never /\ r.drafts[m].seen = {})
           /\ r.drafts[m].key # Never => Draws(r, m)
<1>1. r.drafts[m] \in DraftRecord BY ScanFields
<1>. QED BY <1>1 DEF Draws, NoDraft

\* The rows of day d are merged by it, into a draft of their month.
LEMMA MergedRows ==
    ASSUME NEW r \in ScanRecord, NEW s \in ScanRecord, NEW d \in Days, NEW key \in Keys,
           RowMerged(r, s, d, key)
    PROVE  /\ Merged(s) = Merged(r) \cup {e \in r.rows : DayOf[e] = d}
           /\ \A e \in r.rows : DayOf[e] = d => MonthOf(e) = Month(d)
           /\ Draws(s, Month(d)) /\ Month(d) \in Months
           /\ r.rows \in SUBSET Event /\ s.rows = r.rows
<1>1. Month(d) \in Months BY MonthTyped
<1>2. Draws(s, Month(d)) BY <1>1, DraftsOf, MonthsAndKeys DEF RowMerged
<1>3. r.rows \in SUBSET Event BY ScanFields
<1>. QED BY <1>1, <1>2, <1>3 DEF RowMerged, Merged, MonthOf

\* The first row keeps drafts under the right sort keys.
LEMMA FirstRowSorted ==
    ASSUME NEW r \in ScanRecord, NEW s \in ScanRecord, NEW d \in Days,
           NEW top \in Months \cup {Never}, FirstRow(r, s, d, top), Sorted(r)
    PROVE  Sorted(s)
<1>1. PICK m \in Months : m = Month(d) BY MonthTyped
<1>2. PICK key \in Keys : key = IF m < top THEN m ELSE Latest BY MonthsAndKeys
<1>3. RowMerged(r, s, d, key) BY <1>1, <1>2 DEF FirstRow
<1>4. /\ Merged(s) = {e \in r.rows : DayOf[e] = d}
      /\ \A e \in r.rows : DayOf[e] = d => MonthOf(e) = m
      /\ s.rows = r.rows
  BY <1>1, <1>3, MergedRows DEF FirstRow, Sorted
<1>5. s.marked = (IF m < top THEN top ELSE m) /\ s.drafts[m].key = key
  BY <1>1, <1>2, <1>3 DEF FirstRow, RowMerged
<1>6. \A n \in Months \ {m} : Draws(s, n) => Draws(r, n) BY <1>1 DEF FirstRow, Draws
<1>7. \E e \in r.rows : DayOf[e] = d /\ MonthOf(e) = m BY <1>3, <1>4 DEF Sorted, RowMerged
<1>8. ASSUME NEW n \in Months, Draws(s, n) PROVE \E e \in s.rows : MonthOf(e) = n
  BY <1>4, <1>6, <1>7, <1>8 DEF Sorted
<1>9. ASSUME NEW c \in s.left PROVE \E e \in s.rows : DayOf[e] = c
  BY <1>3, <1>4 DEF Sorted, RowMerged
<1>10. ASSUME NEW e \in Merged(s)
       PROVE  /\ MonthOf(e) <= s.marked
              /\ s.drafts[MonthOf(e)].key = Final(s, MonthOf(e))
  <2>1. MonthOf(e) = m BY <1>4
  <2>2. CASE m < top BY <1>2, <1>5, <2>1, <2>2, MonthsAndKeys DEF Final
  <2>3. CASE ~(m < top) BY <1>2, <1>5, <2>1, <2>3, MonthsAndKeys DEF Final
  <2>. QED BY <2>2, <2>3
<1>11. s.marked # Never BY <1>1, <1>5, MonthsAndKeys
<1>. QED BY <1>8, <1>9, <1>10, <1>11 DEF Sorted

\* So does any other row; the only month with a new draft is that of the day.
LEMMA NextRowSorted ==
    ASSUME NEW r \in ScanRecord, NEW s \in ScanRecord, NEW d \in Days,
           NextRow(r, s, d), Sorted(r)
    PROVE  /\ Sorted(s)
           /\ \A n \in Months : Draws(s, n) <=> Draws(r, n) \/ n = Month(d)
<1>1. PICK m \in Months : m = Month(d) BY MonthTyped
<1>2. PICK last \in Months : last = r.marked BY ScanFields DEF NextRow
<1>3. PICK key \in Keys : key = IF m < last THEN m ELSE Latest BY MonthsAndKeys
<1>4. RowMerged(r, s, d, key) BY <1>1, <1>2, <1>3 DEF NextRow
<1>5. /\ Merged(s) = Merged(r) \cup {e \in r.rows : DayOf[e] = d}
      /\ \A e \in r.rows : DayOf[e] = d => MonthOf(e) = m
      /\ s.rows = r.rows /\ Draws(s, m) /\ r.rows \in SUBSET Event
  BY <1>1, <1>4, MergedRows
<1>6. s.marked = (IF m < last THEN last ELSE m) /\ s.drafts[m].key = key
  BY <1>1, <1>2, <1>3, <1>4 DEF NextRow, RowMerged
<1>7. ASSUME NEW n \in Months \ {m}
      PROVE  /\ s.drafts[n].seen = r.drafts[n].seen
             /\ s.drafts[n].key = IF n = last /\ last < m THEN n ELSE r.drafts[n].key
  BY <1>1, <1>2 DEF NextRow
<1>8. ASSUME NEW n \in Months \ {m} PROVE Draws(s, n) <=> Draws(r, n)
  <2>1. s.drafts[n] \in DraftRecord /\ r.drafts[n] \in DraftRecord BY DraftsOf
  <2>2. CASE n = last /\ last < m
    <3>1. Draws(r, n) BY <1>1, <1>2, <2>2 DEF NextRow
    <3>2. s.drafts[n].key = n BY <1>7, <2>2
    <3>. QED BY <3>1, <3>2, MonthsAndKeys, DraftsOf
  <2>3. CASE ~(n = last /\ last < m)
    <3>1. s.drafts[n].seen = r.drafts[n].seen /\ s.drafts[n].key = r.drafts[n].key
      BY <1>7, <2>3
    <3>. QED BY <2>1, <3>1 DEF Draws, DraftRecord
  <2>. QED BY <2>2, <2>3
<1>9. \E e \in r.rows : DayOf[e] = d /\ MonthOf(e) = m BY <1>4, <1>5 DEF Sorted, RowMerged
<1>10. ASSUME NEW n \in Months, Draws(s, n) PROVE \E e \in s.rows : MonthOf(e) = n
  BY <1>5, <1>8, <1>9, <1>10 DEF Sorted
<1>11. ASSUME NEW c \in s.left PROVE \E e \in s.rows : DayOf[e] = c
  BY <1>4, <1>5 DEF Sorted, RowMerged
<1>12. ASSUME NEW e \in Merged(s)
       PROVE  /\ MonthOf(e) <= s.marked
              /\ Draws(s, MonthOf(e)) => s.drafts[MonthOf(e)].key = Final(s, MonthOf(e))
  <2>1. CASE MonthOf(e) = m
    <3>1. CASE m < last BY <1>3, <1>6, <2>1, <3>1, MonthsAndKeys DEF Final
    <3>2. CASE ~(m < last) BY <1>3, <1>6, <2>1, <3>2, MonthsAndKeys DEF Final
    <3>. QED BY <3>1, <3>2
  <2>2. CASE MonthOf(e) # m
    <3>1. e \in Merged(r) BY <1>5, <2>2
    <3>2. PICK n \in Nat : n = MonthOf(e) BY <1>5, <3>1, MonthOfTyped DEF Merged
    <3>3. n <= last /\ (Draws(r, n) => r.drafts[n].key = Final(r, n))
      BY <1>2, <3>1, <3>2 DEF Sorted
    <3>4. n \in Months BY <3>2, <3>3, MonthsAndKeys
    <3>5. n <= s.marked BY <1>6, <3>3, MonthsAndKeys
    <3>6. ASSUME Draws(s, n) PROVE s.drafts[n].key = Final(s, n)
      <4>1. r.drafts[n].key = IF n = last THEN Latest ELSE n
        BY <1>2, <1>8, <2>2, <3>2, <3>3, <3>4, <3>6 DEF Final
      <4>2. s.drafts[n].key = IF n = last /\ last < m THEN n ELSE r.drafts[n].key
        BY <1>7, <2>2, <3>2, <3>4
      <4>3. CASE m < last BY <1>6, <4>1, <4>2, <4>3, MonthsAndKeys DEF Final
      <4>4. CASE ~(m < last)
        BY <1>6, <2>2, <3>2, <3>3, <4>1, <4>2, <4>4, MonthsAndKeys DEF Final
      <4>. QED BY <4>3, <4>4
    <3>. QED BY <3>2, <3>5, <3>6
  <2>. QED BY <2>1, <2>2
<1>13. s.marked # Never BY <1>2, <1>6, MonthsAndKeys
<1>14. Sorted(s) BY <1>10, <1>11, <1>12, <1>13 DEF Sorted
<1>. QED BY <1>1, <1>5, <1>8, <1>14

\* The latest item is copied to its own month if it is older than m.
LatestCopied(items, new, m) ==
    new = IF Top(items) # Never /\ Top(items) < m
          THEN [items EXCEPT ![Top(items)] = items[Latest]] ELSE items

\* Copying the latest to its month changes no month and no other item.
LEMMA CopiesOfLatest ==
    ASSUME NEW items \in [Keys -> Item], NEW new, NEW unsettled, NEW m \in Months,
           Placed(items, unsettled), LatestCopied(items, new, m)
    PROVE  /\ new \in [Keys -> Item]
           /\ new[Latest] = items[Latest]
           /\ \A k \in Keys : new[k] = items[k] \/ (new[k] = items[Latest] /\ k = Top(items))
           /\ \A n \in Nat : HasMonth(new, n) <=> HasMonth(items, n)
           /\ Top(items) # Never /\ Top(items) < m => Present(new, Top(items))
           /\ Top(items) \in Months \cup {Never}
<1>1. items[Latest] \in Item /\ Top(items) \in Months \cup {Never}
  BY MonthsAndKeys DEF Item, Top
<1>2. CASE Top(items) # Never /\ Top(items) < m
  <2>1. PICK t \in Months : t = Top(items) BY <1>1, <1>2
  <2>2. new = [items EXCEPT ![t] = items[Latest]] BY <1>2, <2>1 DEF LatestCopied
  <2>3. /\ new \in [Keys -> Item] /\ new[t] = items[Latest]
        /\ \A k \in Keys \ {t} : new[k] = items[k]
    BY <1>1, <2>2, MonthsAndKeys
  <2>4. new[Latest] = items[Latest] BY <2>3, MonthsAndKeys
  <2>5. Present(items, t) => items[t].origin = t BY DEF Placed
  <2>6. ASSUME NEW n \in Nat, HasMonth(new, n) PROVE HasMonth(items, n)
    BY <2>3, <2>6, MonthsAndKeys DEF HasMonth
  <2>7. ASSUME NEW n \in Nat, HasMonth(items, n) PROVE HasMonth(new, n)
    <3>1. PICK k \in Keys : items[k].origin = n BY <2>7 DEF HasMonth
    <3>2. CASE k = t
      <4>1. CASE Present(items, t)
        <5>1. n = t BY <2>5, <3>1, <3>2, <4>1
        <5>. QED BY <2>1, <2>4, <5>1, MonthsAndKeys DEF HasMonth, Top
      <4>2. CASE ~Present(items, t)
        <5>1. n = Never BY <3>1, <3>2, <4>2 DEF Present
        <5>. QED BY <5>1, MonthsAndKeys
      <4>. QED BY <4>1, <4>2
    <3>3. CASE k # t BY <2>3, <3>1, <3>3 DEF HasMonth
    <3>. QED BY <3>2, <3>3
  <2>8. Present(new, t) BY <1>2, <2>1, <2>3 DEF Present, Top
  <2>. QED BY <1>1, <2>1, <2>3, <2>4, <2>6, <2>7, <2>8
<1>3. CASE ~(Top(items) # Never /\ Top(items) < m)
  <2>1. new = items BY <1>3 DEF LatestCopied
  <2>. QED BY <1>1, <1>3, <2>1
<1>. QED BY <1>2, <1>3

\* Nor does it take anything away that has to be there.
LEMMA FirstRowItems ==
    ASSUME NEW items \in [Keys -> Item], NEW new, NEW unsettled \in SUBSET Event,
           NEW kept \in SUBSET Event, NEW whole, NEW m \in Months,
           Items(items, unsettled, kept, whole), LatestCopied(items, new, m),
           \E e \in unsettled : MonthOf(e) = m
    PROVE  Items(new, unsettled, kept, whole)
<1>1. Placed(items, unsettled) /\ Copied(items, kept, whole) /\ Holds(items, kept)
  BY DEF Items
<1>2. /\ new \in [Keys -> Item]
      /\ new[Latest] = items[Latest]
      /\ \A k \in Keys : new[k] = items[k] \/ (new[k] = items[Latest] /\ k = Top(items))
      /\ \A n \in Nat : HasMonth(new, n) <=> HasMonth(items, n)
      /\ Top(items) # Never /\ Top(items) < m => Present(new, Top(items))
      /\ Top(items) \in Months \cup {Never}
  BY <1>1, CopiesOfLatest
<1>3. Top(new) = Top(items) BY <1>2 DEF Top
<1>4. ASSUME NEW k \in Keys, ~Present(new, k) PROVE new[k] = NoItem
  BY <1>1, <1>2, <1>4, MonthsAndKeys DEF Placed, Present, Top
<1>5. ASSUME NEW n \in Months, Present(new, n)
      PROVE  /\ new[n].origin = n
             /\ n < Top(new) \/ \E e \in unsettled : n < MonthOf(e)
  <2>1. n \in Keys BY MonthsAndKeys
  <2>2. CASE new[n] = items[n] BY <1>1, <1>3, <1>5, <2>2 DEF Placed, Present
  <2>3. CASE new[n] # items[n]
    <3>1. new[n] = items[Latest] /\ n = Top(items) BY <1>2, <2>1, <2>3
    <3>2. n < m
      <4>1. new # items BY <2>1, <2>3
      <4>. QED BY <3>1, <4>1 DEF LatestCopied
    <3>. QED BY <3>1, <3>2 DEF Top
  <2>. QED BY <2>2, <2>3
<1>6. ASSUME NEW n \in Months, Present(new, n), Top(new) < n, Top(new) # Never
      PROVE  Present(new, Top(new)) \/ Spare(new, kept, whole)
  <2>1. n \in Keys /\ Top(items) \in Keys BY <1>2, <1>3, <1>6, MonthsAndKeys
  <2>2. n # Top(items) BY <1>2, <1>3, <1>6, MonthsAndKeys
  <2>3. Present(items, n) BY <1>2, <1>6, <2>1, <2>2 DEF Present
  <2>4. Present(items, Top(items)) \/ Spare(items, kept, whole)
    BY <1>1, <1>3, <1>6, <2>3 DEF Copied
  <2>5. Present(items, Top(items)) => Present(new, Top(items))
    BY <1>2, <1>3, <1>6, <2>1 DEF Present, Top
  <2>. QED BY <1>3, <2>4, <2>5 DEF Spare
<1>7. ASSUME NEW e \in kept
      PROVE  /\ HasMonth(new, MonthOf(e))
             /\ \A k \in Keys : new[k].origin = MonthOf(e) => e \in new[k].seen
  <2>1. MonthOf(e) \in Nat BY MonthOfTyped
  <2>2. /\ HasMonth(items, MonthOf(e))
        /\ \A k \in Keys : items[k].origin = MonthOf(e) => e \in items[k].seen
    BY <1>1 DEF Holds
  <2>. QED BY <1>2, <2>1, <2>2, MonthsAndKeys
<1>. QED BY <1>4, <1>5, <1>6, <1>7 DEF Items, Placed, Copied, Holds

\* Once the latest is copied, the month of the first row may become the latest.
LEMMA FirstRowMerges ==
    ASSUME NEW items \in [Keys -> Item], NEW new, NEW unsettled \in SUBSET Event,
           NEW kept \in SUBSET Event, NEW whole, NEW r \in ScanRecord, NEW s \in ScanRecord,
           NEW d \in Days, Items(items, unsettled, kept, whole),
           FirstRow(r, s, d, Top(items)), LatestCopied(items, new, Month(d)),
           Sorted(r), Merges(r, items, kept, whole)
    PROVE  Merges(s, new, kept, whole)
<1>1. PICK m \in Months : m = Month(d) BY MonthTyped
<1>2. Placed(items, unsettled) /\ Holds(items, kept) BY DEF Items
<1>3. /\ new \in [Keys -> Item]
      /\ new[Latest] = items[Latest]
      /\ \A n \in Nat : HasMonth(new, n) <=> HasMonth(items, n)
      /\ Top(items) # Never /\ Top(items) < m => Present(new, Top(items))
      /\ Top(items) \in Months \cup {Never}
  BY <1>1, <1>2, CopiesOfLatest
<1>4. Top(new) = Top(items) BY <1>3 DEF Top
<1>5. PICK key \in Keys : key = IF m < Top(items) THEN m ELSE Latest BY MonthsAndKeys
<1>6. RowMerged(r, s, d, key) BY <1>1, <1>5 DEF FirstRow
<1>7. /\ Merged(s) = {e \in r.rows : DayOf[e] = d}
      /\ \A e \in r.rows : DayOf[e] = d => MonthOf(e) = m
      /\ s.rows = r.rows /\ Draws(s, m) /\ r.rows \in SUBSET Event
  BY <1>1, <1>6, MergedRows DEF FirstRow, Sorted
<1>8. /\ s.marked = (IF m < Top(items) THEN Top(items) ELSE m) /\ s.new = r.new
      /\ s.drafts[m].seen = r.drafts[m].seen \cup {e \in r.rows : DayOf[e] = d}
      /\ r.left # {}
  BY <1>1, <1>6 DEF FirstRow, RowMerged
<1>9. \A n \in Months \ {m} : s.drafts[n] = r.drafts[n] BY <1>1 DEF FirstRow
<1>10. \A n \in Months : Draws(s, n) <=> Draws(r, n) \/ n = m
  BY <1>7, <1>9 DEF Draws
<1>11. \E e \in r.rows : DayOf[e] = d /\ MonthOf(e) = m BY <1>6, <1>7 DEF Sorted, RowMerged
<1>12. ReadFirst(r, items) /\ Carried(r, items, kept) BY DEF Merges
<1>13. \A e \in r.rows : MonthOf(e) \in Nat BY <1>7, MonthOfTyped
<1>14. r.new \in SUBSET Months BY ScanFields
<1>15. ReadFirst(s, new)
  <2>1. ASSUME NEW n \in s.new PROVE ~HasMonth(new, n)
    <3>1. n \in r.new /\ n \in Nat BY <1>8, <1>14, MonthsAndKeys
    <3>. QED BY <1>3, <1>12, <3>1 DEF ReadFirst
  <2>2. ASSUME NEW e \in s.rows, HasMonth(new, MonthOf(e)) PROVE Draws(s, MonthOf(e))
    <3>1. e \in r.rows /\ HasMonth(items, MonthOf(e)) BY <1>3, <1>7, <1>13, <2>2
    <3>2. Draws(r, MonthOf(e)) BY <1>8, <1>12, <3>1 DEF ReadFirst
    <3>3. MonthOf(e) \in Months
      <4>1. MonthOf(e) \in Nat BY <1>13, <3>1
      <4>2. Top(items) = MonthOf(e) \/ MonthOf(e) \in Months
        BY <1>2, <3>1, <4>1, CopyOf
      <4>. QED BY <1>3, <4>1, <4>2, MonthsAndKeys
    <3>. QED BY <1>10, <3>2, <3>3
  <2>3. ASSUME NEW e \in s.rows, ~HasMonth(new, MonthOf(e))
        PROVE  MonthOf(e) \in s.new \/ MonthOf(e) < Top(new)
    <3>1. e \in r.rows /\ ~HasMonth(items, MonthOf(e)) BY <1>3, <1>7, <1>13, <2>3
    <3>. QED BY <1>4, <1>8, <1>12, <3>1 DEF ReadFirst
  <2>. QED BY <2>1, <2>2, <2>3 DEF ReadFirst
<1>16. Marked(s, new, kept, whole)
  <2>. PICK top \in Months \cup {Never} : top = Top(items) BY <1>3
  <2>. m \in Int /\ top \in Int BY MonthsAndKeys
  <2>1. Top(new) <= s.marked BY <1>4, <1>8
  <2>2. s.marked = Top(new) \/ \E e \in Merged(s) : MonthOf(e) = s.marked
    BY <1>4, <1>7, <1>8, <1>11
  <2>3. Top(new) # Never /\ Top(new) < s.marked => Present(new, Top(new))
    BY <1>3, <1>4, <1>8
  <2>. QED BY <2>1, <2>2, <2>3 DEF Marked
<1>17. Carried(s, new, kept)
  <2>1. ASSUME NEW e \in Merged(s)
        PROVE  Draws(s, MonthOf(e)) /\ e \in s.drafts[MonthOf(e)].seen
    <3>1. e \in r.rows /\ DayOf[e] = d /\ MonthOf(e) = m BY <1>7
    <3>. QED BY <1>7, <1>8, <3>1
  <2>2. ASSUME NEW e \in kept, Draws(s, MonthOf(e)) PROVE e \in s.drafts[MonthOf(e)].seen
    <3>1. MonthOf(e) \in Nat /\ HasMonth(items, MonthOf(e)) BY <1>2, MonthOfTyped DEF Holds
    <3>2. MonthOf(e) \in Months BY <1>2, <1>3, <3>1, CopyOf, MonthsAndKeys
    <3>3. CASE MonthOf(e) = m
      <4>1. PICK f \in r.rows : DayOf[f] = d /\ MonthOf(f) = m BY <1>11
      <4>2. Draws(r, m) BY <1>8, <1>12, <3>1, <3>3, <4>1 DEF ReadFirst
      <4>3. e \in r.drafts[m].seen BY <1>12, <3>3, <4>2 DEF Carried
      <4>. QED BY <1>8, <3>3, <4>3
    <3>4. CASE MonthOf(e) # m
      <4>1. Draws(r, MonthOf(e)) /\ s.drafts[MonthOf(e)] = r.drafts[MonthOf(e)]
        BY <1>9, <1>10, <2>2, <3>2, <3>4
      <4>. QED BY <1>12, <4>1 DEF Carried
    <3>. QED BY <3>3, <3>4
  <2>. QED BY <2>1, <2>2 DEF Carried
<1>. QED BY <1>15, <1>16, <1>17 DEF Merges

\* The first row adds rows of the store only, and loses nothing.
LEMMA FirstRowAgree ==
    ASSUME NEW items \in [Keys -> Item], NEW new, NEW unsettled,
           NEW r \in ScanRecord, NEW s \in ScanRecord,
           NEW d \in Days, Placed(items, unsettled),
           FirstRow(r, s, d, Top(items)), LatestCopied(items, new, Month(d)),
           Sorted(r), ReadFirst(r, items), Agree(r, items)
    PROVE  /\ Agree(s, new)
           /\ Stays(items, new, r.rows)
<1>1. PICK m \in Months : m = Month(d) BY MonthTyped
<1>2. /\ new \in [Keys -> Item]
      /\ new[Latest] = items[Latest]
      /\ \A k \in Keys : new[k] = items[k] \/ (new[k] = items[Latest] /\ k = Top(items))
      /\ Top(items) \in Months \cup {Never}
  BY <1>1, CopiesOfLatest
<1>3. PICK key \in Keys : key = IF m < Top(items) THEN m ELSE Latest BY MonthsAndKeys
<1>4. RowMerged(r, s, d, key) BY <1>1, <1>3 DEF FirstRow
<1>5. /\ \A e \in r.rows : DayOf[e] = d => MonthOf(e) = m
      /\ s.rows = r.rows /\ Draws(s, m)
      /\ s.drafts[m].seen = r.drafts[m].seen \cup {e \in r.rows : DayOf[e] = d}
      /\ r.left # {}
  BY <1>1, <1>4, MergedRows DEF RowMerged
<1>6. \A n \in Months \ {m} : s.drafts[n] = r.drafts[n] BY <1>1 DEF FirstRow
<1>7. \E e \in r.rows : DayOf[e] = d /\ MonthOf(e) = m BY <1>4, <1>5 DEF Sorted, RowMerged
<1>8. \A k \in Keys : \E l \in Keys : new[k] = items[l] BY <1>2, MonthsAndKeys
<1>9. ASSUME NEW k \in Keys, NEW l \in Keys, new[k].origin = new[l].origin
      PROVE  (new[k].seen \ s.rows) \subseteq new[l].seen
  BY <1>5, <1>8, <1>9 DEF Agree
<1>10. ASSUME NEW n \in Months, NEW k \in Keys, Draws(s, n), new[k].origin = n
       PROVE  /\ (new[k].seen \ s.rows) \subseteq s.drafts[n].seen
              /\ (s.drafts[n].seen \ s.rows) \subseteq new[k].seen
  <2>1. PICK l \in Keys : new[k] = items[l] BY <1>8
  <2>2. Draws(r, n)
    <3>1. CASE n = m
      <4>1. HasMonth(items, m) BY <1>10, <2>1, <3>1 DEF HasMonth
      <4>. QED BY <1>5, <1>7, <3>1, <4>1 DEF ReadFirst
    <3>2. CASE n # m BY <1>6, <1>10, <3>2 DEF Draws
    <3>. QED BY <3>1, <3>2
  <2>3. /\ (items[l].seen \ r.rows) \subseteq r.drafts[n].seen
        /\ (r.drafts[n].seen \ r.rows) \subseteq items[l].seen
    BY <1>10, <2>1, <2>2 DEF Agree
  <2>4. (s.drafts[n].seen \ r.rows) = (r.drafts[n].seen \ r.rows)
    <3>1. CASE n = m BY <1>5, <3>1
    <3>2. CASE n # m BY <1>6, <3>2
    <3>. QED BY <3>1, <3>2
  <2>. QED BY <1>5, <2>1, <2>3, <2>4
<1>11. ASSUME NEW k \in Keys
       PROVE  \E l \in Keys : (items[k].seen \ r.rows) \subseteq new[l].seen
  <2>1. CASE new[k] = items[k] BY <2>1
  <2>2. CASE new[k] # items[k]
    <3>1. new[k] = items[Latest] /\ k = Top(items) BY <1>2, <2>2
    <3>2. items[k].origin = items[Latest].origin \/ items[k] = NoItem
      <4>1. k \in Months BY <1>2, <3>1, MonthsAndKeys
      <4>. QED BY <3>1, <4>1 DEF Placed, Top, Present
    <3>3. CASE items[k].origin = items[Latest].origin
      <4>1. (items[k].seen \ r.rows) \subseteq items[Latest].seen
        BY <3>3, MonthsAndKeys DEF Agree
      <4>. QED BY <1>2, <4>1, MonthsAndKeys
    <3>4. CASE items[k] = NoItem BY <3>4 DEF NoItem
    <3>. QED BY <3>2, <3>3, <3>4
  <2>. QED BY <2>1, <2>2
<1>. QED BY <1>9, <1>10, <1>11 DEF Agree, Stays

\* Any other row leaves the items alone and adds to a draft.
LEMMA NextRowMerges ==
    ASSUME NEW items \in [Keys -> Item], NEW unsettled,
           NEW kept \in SUBSET Event, NEW whole, NEW r \in ScanRecord, NEW s \in ScanRecord,
           NEW d \in Days, Items(items, unsettled, kept, whole), NextRow(r, s, d),
           Sorted(r), Merges(r, items, kept, whole)
    PROVE  Merges(s, items, kept, whole)
<1>1. PICK m \in Months : m = Month(d) BY MonthTyped
<1>2. PICK last \in Months : last = r.marked BY ScanFields DEF NextRow
<1>3. PICK key \in Keys : key = IF m < last THEN m ELSE Latest BY MonthsAndKeys
<1>4. RowMerged(r, s, d, key) BY <1>1, <1>2, <1>3 DEF NextRow
<1>5. /\ Merged(s) = Merged(r) \cup {e \in r.rows : DayOf[e] = d}
      /\ \A e \in r.rows : DayOf[e] = d => MonthOf(e) = m
      /\ s.rows = r.rows /\ r.rows \in SUBSET Event
  BY <1>1, <1>4, MergedRows
<1>6. /\ s.marked = (IF m < last THEN last ELSE m) /\ s.new = r.new
      /\ s.drafts[m].seen = r.drafts[m].seen \cup {e \in r.rows : DayOf[e] = d}
      /\ r.left # {} /\ (last < m => Draws(r, last))
  BY <1>1, <1>2, <1>4 DEF NextRow, RowMerged
<1>7. \A n \in Months : Draws(s, n) <=> Draws(r, n) \/ n = m BY <1>1, NextRowSorted
<1>8. \A n \in Months \ {m} : s.drafts[n].seen = r.drafts[n].seen BY <1>1 DEF NextRow
<1>9. \E e \in r.rows : DayOf[e] = d /\ MonthOf(e) = m BY <1>4, <1>5 DEF Sorted, RowMerged
<1>10. /\ ReadFirst(r, items) /\ Marked(r, items, kept, whole) /\ Carried(r, items, kept)
       /\ Placed(items, unsettled) /\ Holds(items, kept)
  BY DEF Merges, Items
<1>11. \A e \in r.rows : MonthOf(e) \in Nat BY <1>5, MonthOfTyped
<1>12. PICK top \in Months \cup {Never} : top = Top(items) BY MonthsAndKeys DEF Item, Top
<1>13. m \in Int /\ last \in Int /\ top \in Int /\ last # Never BY MonthsAndKeys
<1>14. ReadFirst(s, items)
  <2>1. ASSUME NEW e \in s.rows, HasMonth(items, MonthOf(e)) PROVE Draws(s, MonthOf(e))
    <3>1. e \in r.rows /\ Draws(r, MonthOf(e)) BY <1>5, <1>6, <1>10, <2>1 DEF ReadFirst
    <3>2. MonthOf(e) \in Months
      BY <1>10, <1>11, <1>12, <1>13, <2>1, <3>1, CopyOf, MonthsAndKeys
    <3>. QED BY <1>7, <3>1, <3>2
  <2>2. ASSUME NEW e \in s.rows, ~HasMonth(items, MonthOf(e))
        PROVE  MonthOf(e) \in s.new \/ MonthOf(e) < Top(items)
    BY <1>5, <1>6, <1>10, <2>2 DEF ReadFirst
  <2>. QED BY <1>6, <1>10, <2>1, <2>2 DEF ReadFirst
<1>15. Marked(s, items, kept, whole)
  <2>1. /\ top <= last
        /\ last = top \/ \E e \in Merged(r) : MonthOf(e) = last
        /\ top # Never /\ top < last =>
              Present(items, top) \/ Draws(r, top) \/ Spare(items, kept, whole)
    BY <1>2, <1>10, <1>12, <1>13 DEF Marked
  <2>2. top <= s.marked BY <1>6, <1>13, <2>1
  <2>3. s.marked = top \/ \E e \in Merged(s) : MonthOf(e) = s.marked
    <3>1. CASE m < last BY <1>5, <1>6, <2>1, <3>1
    <3>2. CASE ~(m < last) BY <1>5, <1>6, <1>9, <3>2
    <3>. QED BY <3>1, <3>2
  <2>4. ASSUME top # Never, top < s.marked
        PROVE  Present(items, top) \/ Draws(s, top) \/ Spare(items, kept, whole)
    <3>1. CASE top < last BY <1>7, <2>1, <2>4, <3>1
    <3>2. CASE ~(top < last)
      <4>1. top = last /\ last < m BY <1>6, <1>13, <2>1, <2>4, <3>2
      <4>. QED BY <1>6, <1>7, <4>1
    <3>. QED BY <3>1, <3>2
  <2>. QED BY <1>12, <2>2, <2>3, <2>4 DEF Marked
<1>16. Carried(s, items, kept)
  <2>1. ASSUME NEW e \in Merged(s)
        PROVE  Draws(s, MonthOf(e)) /\ e \in s.drafts[MonthOf(e)].seen
    <3>1. CASE DayOf[e] = d
      <4>1. e \in r.rows /\ MonthOf(e) = m BY <1>5, <3>1 DEF Merged
      <4>. QED BY <1>6, <1>7, <3>1, <4>1
    <3>2. CASE DayOf[e] # d
      <4>1. e \in Merged(r) /\ e \in r.rows BY <1>5, <3>2 DEF Merged
      <4>2. Draws(r, MonthOf(e)) /\ e \in r.drafts[MonthOf(e)].seen
        BY <1>6, <1>10, <4>1 DEF Carried
      <4>3. MonthOf(e) \in Months
        <5>1. MonthOf(e) <= last BY <1>2, <4>1 DEF Sorted
        <5>. QED BY <1>11, <4>1, <5>1, MonthsAndKeys
      <4>. QED BY <1>6, <1>7, <1>8, <4>2, <4>3
    <3>. QED BY <3>1, <3>2
  <2>2. ASSUME NEW e \in kept, Draws(s, MonthOf(e)) PROVE e \in s.drafts[MonthOf(e)].seen
    <3>1. MonthOf(e) \in Nat /\ HasMonth(items, MonthOf(e)) BY <1>10, MonthOfTyped DEF Holds
    <3>2. MonthOf(e) \in Months BY <1>10, <1>12, <3>1, CopyOf, MonthsAndKeys
    <3>3. CASE MonthOf(e) = m
      <4>1. Draws(r, m) BY <1>6, <1>9, <1>10, <3>1, <3>3 DEF ReadFirst
      <4>. QED BY <1>6, <1>10, <3>3, <4>1 DEF Carried
    <3>4. CASE MonthOf(e) # m BY <1>7, <1>8, <1>10, <2>2, <3>2, <3>4 DEF Carried
    <3>. QED BY <3>3, <3>4
  <2>. QED BY <2>1, <2>2 DEF Carried
<1>. QED BY <1>14, <1>15, <1>16 DEF Merges

\* Any other row adds rows of the store only.
LEMMA NextRowAgree ==
    ASSUME NEW items, NEW r \in ScanRecord, NEW s \in ScanRecord,
           NEW d \in Days, NextRow(r, s, d), Sorted(r), ReadFirst(r, items), Agree(r, items)
    PROVE  Agree(s, items)
<1>1. PICK m \in Months : m = Month(d) BY MonthTyped
<1>2. /\ d \in r.left /\ s.rows = r.rows
      /\ s.drafts[m].seen = r.drafts[m].seen \cup {e \in r.rows : DayOf[e] = d}
      /\ \A n \in Months \ {m} : s.drafts[n].seen = r.drafts[n].seen
  BY <1>1 DEF NextRow, RowMerged
<1>3. \A n \in Months : Draws(s, n) <=> Draws(r, n) \/ n = m BY <1>1, NextRowSorted
<1>4. \E e \in r.rows : MonthOf(e) = m BY <1>1, <1>2 DEF Sorted, MonthOf
<1>5. ASSUME NEW n \in Months, NEW k \in Keys, Draws(s, n), items[k].origin = n
      PROVE  /\ (items[k].seen \ s.rows) \subseteq s.drafts[n].seen
             /\ (s.drafts[n].seen \ s.rows) \subseteq items[k].seen
  <2>1. Draws(r, n)
    <3>1. n = m => HasMonth(items, m) BY <1>5 DEF HasMonth
    <3>. QED BY <1>2, <1>3, <1>4, <1>5, <3>1 DEF ReadFirst
  <2>2. (s.drafts[n].seen \ s.rows) = (r.drafts[n].seen \ r.rows)
        /\ r.drafts[n].seen \subseteq s.drafts[n].seen
    BY <1>2
  <2>3. /\ (items[k].seen \ r.rows) \subseteq r.drafts[n].seen
        /\ (r.drafts[n].seen \ r.rows) \subseteq items[k].seen
    BY <1>5, <2>1 DEF Agree
  <2>. QED BY <1>2, <2>2, <2>3
<1>. QED BY <1>2, <1>5 DEF Agree

-----------------------------------------------------------------------------
(* A batch is written.                                                     *)

\* The draft of month m becomes the item under its key; new ones come last.
Written(r, s, items, new, m) ==
    /\ r.left = {} /\ Draws(r, m)
    /\ m \in r.new => r.new = {n \in Months : Draws(r, n)}
    /\ s.rows = r.rows /\ s.left = {} /\ s.marked = r.marked /\ s.new = r.new \ {m}
    /\ s.drafts = [r.drafts EXCEPT ![m] = NoDraft]
    /\ new = [items EXCEPT ![r.drafts[m].key] =
                  [origin |-> m, seen |-> r.drafts[m].seen]]

\* A batch takes a draft away, under the key of its month.
LEMMA WrittenSorted ==
    ASSUME NEW r \in ScanRecord, NEW s \in ScanRecord, NEW m \in Months,
           NEW items, NEW new, Written(r, s, items, new, m), Sorted(r)
    PROVE  /\ Sorted(s)
           /\ \A n \in Months : Draws(s, n) <=> Draws(r, n) /\ n # m
           /\ \A n \in Months \ {m} : s.drafts[n] = r.drafts[n]
           /\ Merged(r) = r.rows /\ Merged(s) = r.rows /\ r.rows \in SUBSET Event
           /\ r.marked \in Months /\ m <= r.marked
           /\ r.drafts[m].key = Final(r, m) /\ r.drafts[m].seen \in SUBSET Event
           /\ \A e \in r.rows : MonthOf(e) \in Months /\ MonthOf(e) <= r.marked
<1>1. r.rows \in SUBSET Event /\ r.drafts \in [Months -> DraftRecord] BY ScanFields
<1>2. Merged(r) = r.rows /\ Merged(s) = r.rows BY DEF Merged, Written
<1>3. PICK e \in r.rows : MonthOf(e) = m BY DEF Sorted, Written
<1>4. r.marked \in Months BY <1>2, <1>3, ScanFields DEF Sorted
<1>5. \A f \in r.rows : MonthOf(f) \in Months /\ MonthOf(f) <= r.marked
  BY <1>1, <1>2, <1>4, MonthOfTyped, MonthsAndKeys DEF Sorted
<1>6. r.drafts[m].key = Final(r, m) /\ m <= r.marked
  BY <1>2, <1>3 DEF Sorted, Written
<1>7. \A n \in Months \ {m} : s.drafts[n] = r.drafts[n] BY <1>1 DEF Written
<1>8. s.drafts[m] = NoDraft BY <1>1 DEF Written
<1>9. \A n \in Months : Draws(s, n) <=> Draws(r, n) /\ n # m BY <1>7, <1>8 DEF Draws
<1>10. ASSUME NEW f \in Merged(s)
       PROVE  /\ MonthOf(f) <= s.marked
              /\ Draws(s, MonthOf(f)) => s.drafts[MonthOf(f)].key = Final(s, MonthOf(f))
  <2>1. MonthOf(f) \in Months /\ f \in Merged(r) BY <1>2, <1>5, <1>10
  <2>2. /\ MonthOf(f) <= r.marked
        /\ Draws(r, MonthOf(f)) => r.drafts[MonthOf(f)].key = Final(r, MonthOf(f))
    BY <2>1 DEF Sorted
  <2>. QED BY <1>7, <1>9, <2>1, <2>2 DEF Written, Final
<1>11. Sorted(s) BY <1>2, <1>4, <1>9, <1>10, MonthsAndKeys DEF Sorted, Written
<1>12. r.drafts[m].seen \in SUBSET Event BY <1>1 DEF DraftRecord
<1>. QED BY <1>1, <1>2, <1>4, <1>5, <1>6, <1>7, <1>9, <1>11, <1>12

\* The item under the key of the draft is replaced, and no other.
LEMMA WrittenItem ==
    ASSUME NEW items \in [Keys -> Item], NEW new, NEW r \in ScanRecord, NEW s \in ScanRecord,
           NEW m \in Months, Written(r, s, items, new, m), Sorted(r)
    PROVE  /\ new \in [Keys -> Item] /\ Final(r, m) \in Keys
           /\ new[Final(r, m)].origin = m /\ new[Final(r, m)].seen = r.drafts[m].seen
           /\ \A k \in Keys \ {Final(r, m)} : new[k] = items[k]
           /\ Top(new) = IF m = r.marked THEN m ELSE Top(items)
<1>1. PICK key \in Keys, seen \in SUBSET Event :
          /\ key = Final(r, m) /\ key = r.drafts[m].key /\ seen = r.drafts[m].seen
  BY WrittenSorted, MonthsAndKeys DEF Final
<1>2. PICK item : item = [origin |-> m, seen |-> seen] OBVIOUS
<1>3. item \in Item /\ item.origin = m /\ item.seen = seen BY <1>2 DEF Item
<1>4. new = [items EXCEPT ![key] = item] BY <1>1, <1>2 DEF Written
<1>5. new \in [Keys -> Item] /\ new[key] = item /\ \A k \in Keys \ {key} : new[k] = items[k]
  BY <1>3, <1>4
<1>6. Top(new) = IF m = r.marked THEN m ELSE Top(items)
  BY <1>1, <1>3, <1>5, MonthsAndKeys DEF Top, Final
<1>. QED BY <1>1, <1>3, <1>5, <1>6

\* Before an item newer than the latest is written, the latest has been copied.
LEMMA CopiedFirst ==
    ASSUME NEW items \in [Keys -> Item], NEW unsettled, NEW kept, NEW whole,
           NEW r \in ScanRecord, NEW s \in ScanRecord, NEW new,
           NEW m \in Months, Written(r, s, items, new, m), Sorted(r),
           Items(items, unsettled, kept, whole), Merges(r, items, kept, whole),
           Top(items) # Never, Top(items) < r.marked, m = r.marked \/ Top(items) < m
    PROVE  Present(items, Top(items)) \/ Spare(items, kept, whole)
<1>1. PICK top \in Months : top = Top(items) BY MonthsAndKeys DEF Item, Top
<1>2. m \in Int /\ top \in Int /\ top < m BY <1>1, MonthsAndKeys
<1>3. Present(items, top) \/ Draws(r, top) \/ Spare(items, kept, whole)
  BY <1>1, WrittenSorted, MonthsAndKeys DEF Merges, Marked
<1>4. CASE Draws(r, top)
  <2>1. HasMonth(items, top) BY <1>1, MonthsAndKeys DEF HasMonth, Top
  <2>2. top \notin r.new BY <2>1 DEF Merges, ReadFirst
  <2>3. m \notin r.new BY <1>4, <2>2 DEF Written
  <2>4. PICK e \in r.rows : MonthOf(e) = m BY DEF Sorted, Written
  <2>5. HasMonth(items, m)
    BY <1>1, <1>2, <2>3, <2>4 DEF Merges, ReadFirst, Written
  <2>6. Present(items, m)
    BY <1>1, <1>2, <2>5, CopyOf, MonthsAndKeys DEF Items
  <2>. QED BY <1>1, <1>2, <2>6 DEF Items, Copied
<1>. QED BY <1>1, <1>3, <1>4

\* A batch replaces an item by one that tells more, or by a newer latest after
\* the old one has been copied.
LEMMA WrittenItems ==
    ASSUME NEW items \in [Keys -> Item], NEW unsettled \in SUBSET Event,
           NEW kept \in SUBSET Event, NEW whole,
           NEW r \in ScanRecord, NEW s \in ScanRecord, NEW new,
           NEW m \in Months, Written(r, s, items, new, m), Sorted(r),
           Items(items, unsettled, kept, whole), Merges(r, items, kept, whole),
           r.rows \subseteq unsettled, whole => unsettled = r.rows
    PROVE  Items(new, unsettled, kept, whole)
<1>1. Placed(items, unsettled) /\ Copied(items, kept, whole) /\ Holds(items, kept)
  BY DEF Items
<1>2. PICK last \in Months, key \in Keys : last = r.marked /\ key = Final(r, m)
  BY WrittenSorted, WrittenItem
<1>3. PICK top \in Months \cup {Never} : top = Top(items) BY MonthsAndKeys DEF Item, Top
<1>4. /\ new[key].origin = m /\ new[key].seen = r.drafts[m].seen
      /\ \A k \in Keys \ {key} : new[k] = items[k]
      /\ new \in [Keys -> Item]
      /\ Top(new) = IF m = last THEN m ELSE top
  BY <1>2, <1>3, WrittenItem
<1>5. /\ m <= last /\ \A e \in r.rows : MonthOf(e) \in Months /\ MonthOf(e) <= last
      /\ Merged(r) = r.rows
  BY <1>2, WrittenSorted
<1>6. key = IF m = last THEN Latest ELSE m BY <1>2 DEF Final
<1>7. m \in Int /\ last \in Int /\ top \in Int /\ m # Never /\ last # Never
  BY MonthsAndKeys
<1>8. /\ top <= last
      /\ last = top \/ \E e \in r.rows : MonthOf(e) = last
  BY <1>2, <1>3, <1>5, <1>7 DEF Merges, Marked
<1>9. Carried(r, items, kept) BY DEF Merges
<1>10. top # Never /\ top < last /\ (m = last \/ top < m) =>
          Present(items, top) \/ Spare(items, kept, whole)
  BY <1>2, <1>3, CopiedFirst
<1>11. \A k \in Keys : Present(new, k) <=> Present(items, k) \/ k = key
  BY <1>4, <1>7 DEF Present
<1>12. ASSUME NEW k \in Keys, ~Present(new, k) PROVE new[k] = NoItem
  BY <1>1, <1>4, <1>11, <1>12 DEF Placed
<1>13. ASSUME NEW n \in Months, Present(new, n)
       PROVE  /\ new[n].origin = n
              /\ n < Top(new) \/ \E e \in unsettled : n < MonthOf(e)
  <2>1. n \in Keys /\ n # Latest /\ n \in Int BY MonthsAndKeys
  <2>2. CASE n = key
    <3>1. n = m /\ m < last BY <1>5, <1>6, <1>7, <2>1, <2>2
    <3>2. CASE m < top BY <1>4, <2>2, <3>1, <3>2
    <3>3. CASE ~(m < top)
      <4>1. last # top BY <1>7, <3>1, <3>3
      <4>2. PICK e \in r.rows : MonthOf(e) = last BY <1>8, <4>1
      <4>. QED BY <1>4, <2>2, <3>1, <4>2
    <3>. QED BY <3>2, <3>3
  <2>3. CASE n # key
    <3>1. Present(items, n) /\ new[n] = items[n] BY <1>4, <1>11, <1>13, <2>1, <2>3
    <3>2. items[n].origin = n /\ (n < top \/ \E e \in unsettled : n < MonthOf(e))
      BY <1>1, <1>3, <3>1 DEF Placed
    <3>3. n < top => n < Top(new) BY <1>4, <1>7, <1>8, <2>1
    <3>. QED BY <3>1, <3>2, <3>3
  <2>. QED BY <2>2, <2>3
<1>14. ASSUME NEW n \in Months, Present(new, n), Top(new) < n, Top(new) # Never
       PROVE  Present(new, Top(new)) \/ Spare(new, kept, whole)
  <2>1. n \in Keys /\ n # Latest /\ n \in Int BY MonthsAndKeys
  <2>2. CASE m # last
    <3>1. Top(new) = top /\ key = m /\ m < last BY <1>4, <1>5, <1>6, <1>7, <2>2
    <3>2. top \in Months /\ top \in Keys BY <1>14, <3>1, MonthsAndKeys
    <3>3. CASE n = m BY <1>3, <1>7, <1>10, <1>11, <1>14, <3>1, <3>2, <3>3 DEF Spare
    <3>4. CASE n # m
      <4>1. Present(items, n) BY <1>11, <1>14, <2>1, <3>1, <3>4
      <4>2. Present(items, top) \/ Spare(items, kept, whole)
        BY <1>1, <1>3, <1>14, <3>1, <4>1 DEF Copied
      <4>. QED BY <1>3, <1>11, <3>1, <3>2, <4>2 DEF Spare
    <3>. QED BY <3>3, <3>4
  <2>3. CASE m = last
    <3>1. Top(new) = last /\ key = Latest BY <1>4, <1>6, <2>3
    <3>2. Present(items, n) BY <1>11, <1>14, <2>1, <3>1
    <3>3. ~whole
      <4>1. top < n BY <1>7, <1>8, <1>14, <2>1, <3>1
      <4>2. \E e \in unsettled : n < MonthOf(e)
        BY <1>1, <1>3, <1>7, <2>1, <3>2, <4>1 DEF Placed
      <4>3. ASSUME NEW e \in r.rows PROVE ~(n < MonthOf(e))
        <5>1. MonthOf(e) \in Months /\ MonthOf(e) <= last BY <1>5
        <5>2. last < n BY <1>14, <3>1
        <5>3. \A f \in Months : f <= last => ~(n < f)
          BY <1>7, <2>1, <5>2, MonthsAndKeys
        <5>. QED BY <5>1, <5>3
      <4>. QED BY <4>2, <4>3
    <3>4. ASSUME NEW e \in kept, MonthOf(e) = last PROVE Present(items, last)
      <4>1. HasMonth(items, last) /\ last \in Nat BY <1>1, <3>4, MonthsAndKeys DEF Holds
      <4>2. CASE top = last
        <5>1. Present(items, top) \/ Spare(items, kept, whole)
          BY <1>1, <1>3, <1>14, <3>1, <3>2, <4>2 DEF Copied
        <5>. QED BY <1>3, <3>4, <4>2, <5>1 DEF Spare
      <4>3. CASE top # last BY <1>1, <1>3, <4>1, <4>3, CopyOf
      <4>. QED BY <4>2, <4>3
    <3>. QED BY <1>11, <3>1, <3>3, <3>4, MonthsAndKeys DEF Spare
  <2>. QED BY <2>2, <2>3
<1>15. ASSUME NEW e \in kept
       PROVE  /\ HasMonth(new, MonthOf(e))
              /\ \A k \in Keys : new[k].origin = MonthOf(e) => e \in new[k].seen
  <2>1. PICK n \in Nat : n = MonthOf(e) BY MonthOfTyped
  <2>2. /\ HasMonth(items, n)
        /\ \A k \in Keys : items[k].origin = n => e \in items[k].seen
    BY <1>1, <2>1 DEF Holds
  <2>3. HasMonth(new, n)
    <3>1. CASE n = m BY <1>4, <3>1 DEF HasMonth
    <3>2. CASE n # m
      <4>1. PICK k \in Keys : items[k].origin = n BY <2>2 DEF HasMonth
      <4>2. CASE k # key BY <1>4, <4>1, <4>2 DEF HasMonth
      <4>3. CASE k = key
        <5>1. CASE key = m
          <6>1. Present(items, m) BY <2>1, <4>1, <4>3, <5>1, MonthsAndKeys DEF Present
          <6>. QED BY <1>1, <3>2, <4>1, <4>3, <5>1, <6>1 DEF Placed
        <5>2. CASE key # m
          <6>1. m = last /\ n = top /\ k = Latest
            BY <1>3, <1>6, <4>1, <4>3, <5>2 DEF Top
          <6>2. top # Never /\ top < last BY <1>7, <1>8, <2>1, <3>2, <6>1, MonthsAndKeys
          <6>3. ~Spare(items, kept, whole) BY <1>3, <2>1, <6>1 DEF Spare
          <6>4. top \in Months /\ Present(items, top) BY <1>10, <6>1, <6>2, <6>3
          <6>5. items[top].origin = top /\ top \in Keys /\ top # key
            BY <1>1, <4>3, <6>1, <6>4, MonthsAndKeys DEF Placed
          <6>. QED BY <1>4, <6>1, <6>5 DEF HasMonth
        <5>. QED BY <5>1, <5>2
      <4>. QED BY <4>2, <4>3
    <3>. QED BY <3>1, <3>2
  <2>4. ASSUME NEW k \in Keys, new[k].origin = n PROVE e \in new[k].seen
    <3>1. CASE k = key
      <4>1. Draws(r, MonthOf(e)) BY <1>4, <2>1, <2>4, <3>1 DEF Written
      <4>. QED BY <1>4, <1>9, <2>1, <2>4, <3>1, <4>1 DEF Carried
    <3>2. CASE k # key BY <1>4, <2>2, <2>4, <3>2
    <3>. QED BY <3>1, <3>2
  <2>. QED BY <2>1, <2>3, <2>4
<1>. QED BY <1>12, <1>13, <1>14, <1>15 DEF Items, Placed, Copied, Holds

\* The drafts that are left can still be written.
LEMMA WrittenMerges ==
    ASSUME NEW items \in [Keys -> Item], NEW unsettled \in SUBSET Event,
           NEW kept \in SUBSET Event, NEW whole,
           NEW r \in ScanRecord, NEW s \in ScanRecord, NEW new,
           NEW m \in Months, Written(r, s, items, new, m), Sorted(r),
           Items(items, unsettled, kept, whole), Merges(r, items, kept, whole)
    PROVE  Merges(s, new, kept, whole)
<1>1. PICK last \in Months, key \in Keys : last = r.marked /\ key = Final(r, m)
  BY WrittenSorted, WrittenItem
<1>2. PICK top \in Months \cup {Never} : top = Top(items) BY MonthsAndKeys DEF Item, Top
<1>3. /\ new[key].origin = m /\ new[key].seen = r.drafts[m].seen
      /\ \A k \in Keys \ {key} : new[k] = items[k]
      /\ Top(new) = IF m = last THEN m ELSE top
  BY <1>1, <1>2, WrittenItem
<1>4. /\ \A n \in Months : Draws(s, n) <=> Draws(r, n) /\ n # m
      /\ \A n \in Months \ {m} : s.drafts[n] = r.drafts[n]
      /\ m <= last /\ \A e \in r.rows : MonthOf(e) \in Months /\ MonthOf(e) <= last
      /\ Merged(r) = r.rows /\ Merged(s) = r.rows
  BY <1>1, WrittenSorted
<1>5. /\ s.left = {} /\ r.left = {} /\ s.rows = r.rows /\ s.new = r.new \ {m}
      /\ s.marked = last /\ Draws(r, m) /\ r.new \subseteq Months
  BY <1>1, ScanFields DEF Written
<1>6. key = IF m = last THEN Latest ELSE m BY <1>1 DEF Final
<1>7. m \in Int /\ last \in Int /\ top \in Int /\ m # Never /\ last # Never
  BY MonthsAndKeys
<1>8. /\ top <= last
      /\ last = top \/ \E e \in r.rows : MonthOf(e) = last
      /\ top # Never /\ top < last =>
            Present(items, top) \/ Draws(r, top) \/ Spare(items, kept, whole)
  BY <1>1, <1>2, <1>4, <1>7 DEF Merges, Marked
<1>9. ReadFirst(r, items) /\ Carried(r, items, kept) BY DEF Merges
<1>10. ReadFirst(s, new)
  <2>1. ASSUME NEW n \in s.new PROVE ~HasMonth(new, n)
    <3>1. n \in r.new /\ n # m BY <1>5
    <3>2. ~HasMonth(items, n) BY <1>9, <3>1 DEF ReadFirst
    <3>. QED BY <1>3, <3>1, <3>2 DEF HasMonth
  <2>2. ASSUME NEW e \in s.rows, Draws(s, MonthOf(e)), ~HasMonth(new, MonthOf(e))
        PROVE  MonthOf(e) \in s.new \/ MonthOf(e) < Top(new)
    <3>1. PICK n \in Months : n = MonthOf(e) BY <1>4, <1>5
    <3>2. Draws(r, n) /\ n # m /\ e \in r.rows BY <1>4, <1>5, <2>2, <3>1
    <3>3. n \in Int BY MonthsAndKeys
    <3>4. CASE HasMonth(items, n)
      <4>1. PICK k \in Keys : items[k].origin = n BY <3>4 DEF HasMonth
      <4>2. k = key BY <1>3, <2>2, <3>1, <4>1 DEF HasMonth
      <4>3. key # m
        <5>1. Placed(items, unsettled) BY DEF Items
        <5>. QED BY <3>2, <3>3, <4>1, <4>2, <5>1, MonthsAndKeys DEF Placed, Present
      <4>4. m = last /\ k = Latest BY <1>6, <4>2, <4>3
      <4>5. n = top BY <1>2, <4>1, <4>4 DEF Top
      <4>. QED BY <1>3, <1>7, <1>8, <3>1, <3>2, <4>4, <4>5
    <3>5. CASE ~HasMonth(items, n)
      <4>1. n \in r.new \/ n < top BY <1>2, <1>9, <3>1, <3>2, <3>5 DEF ReadFirst
      <4>. QED BY <1>3, <1>5, <1>7, <1>8, <3>1, <3>2, <3>3, <4>1
    <3>. QED BY <3>4, <3>5
  <2>. QED BY <1>5, <2>1, <2>2 DEF ReadFirst
<1>11. Marked(s, new, kept, whole)
  <2>1. Top(new) <= last BY <1>3, <1>4, <1>8
  <2>2. last = Top(new) \/ \E e \in Merged(s) : MonthOf(e) = last BY <1>3, <1>4, <1>8
  <2>3. ASSUME Top(new) # Never, Top(new) < last
        PROVE  Present(new, Top(new)) \/ Draws(s, Top(new)) \/ Spare(new, kept, whole)
    <3>1. m # last /\ Top(new) = top /\ key = m BY <1>3, <1>6, <1>7, <2>3
    <3>2. top \in Months /\ top \in Keys BY <2>3, <3>1, MonthsAndKeys
    <3>3. CASE top = m BY <1>3, <1>7, <3>1, <3>3 DEF Present
    <3>4. CASE top # m
      <4>1. Present(items, top) \/ Draws(r, top) \/ Spare(items, kept, whole)
        BY <1>8, <2>3, <3>1
      <4>2. new[top] = items[top] /\ (Draws(s, top) <=> Draws(r, top))
        BY <1>3, <1>4, <3>1, <3>2, <3>4
      <4>. QED BY <1>2, <3>1, <4>1, <4>2 DEF Present, Spare
    <3>. QED BY <3>3, <3>4
  <2>. QED BY <1>5, <2>1, <2>2, <2>3 DEF Marked
<1>12. Carried(s, new, kept)
  <2>1. ASSUME NEW e \in Merged(s)
        PROVE  IF Draws(s, MonthOf(e)) THEN e \in s.drafts[MonthOf(e)].seen
               ELSE /\ s.left = {}
                    /\ new[Final(s, MonthOf(e))].origin = MonthOf(e)
                    /\ e \in new[Final(s, MonthOf(e))].seen
    <3>1. PICK n \in Months : n = MonthOf(e) BY <1>4
    <3>2. e \in Merged(r) BY <1>4
    <3>3. IF Draws(r, n) THEN e \in r.drafts[n].seen
          ELSE items[Final(r, n)].origin = n /\ e \in items[Final(r, n)].seen
      BY <1>9, <3>1, <3>2 DEF Carried
    <3>4. Final(s, n) = Final(r, n) BY <1>1, <1>5 DEF Final
    <3>5. CASE n = m BY <1>1, <1>3, <1>4, <1>5, <3>1, <3>3, <3>4, <3>5
    <3>6. CASE n # m
      <4>1. (Draws(s, n) <=> Draws(r, n)) /\ s.drafts[n] = r.drafts[n] BY <1>4, <3>6
      <4>2. Final(r, n) \in Keys /\ Final(r, n) # key
        BY <1>1, <1>6, <3>6, MonthsAndKeys DEF Final
      <4>. QED BY <1>3, <1>5, <3>1, <3>3, <3>4, <4>1, <4>2
    <3>. QED BY <3>5, <3>6
  <2>2. ASSUME NEW e \in kept, Draws(s, MonthOf(e)) PROVE e \in s.drafts[MonthOf(e)].seen
    <3>1. MonthOf(e) \in Nat /\ HasMonth(items, MonthOf(e))
      BY MonthOfTyped DEF Items, Holds
    <3>2. MonthOf(e) \in Months BY <1>2, <1>7, <3>1, CopyOf, MonthsAndKeys DEF Items
    <3>. QED BY <1>4, <1>9, <2>2, <3>2 DEF Carried
  <2>. QED BY <2>1, <2>2 DEF Carried
<1>. QED BY <1>10, <1>11, <1>12 DEF Merges

\* A batch adds rows of the store only, and loses nothing.
LEMMA WrittenAgree ==
    ASSUME NEW items \in [Keys -> Item], NEW unsettled, NEW kept,
           NEW r \in ScanRecord, NEW s \in ScanRecord, NEW new,
           NEW m \in Months, Written(r, s, items, new, m), Sorted(r),
           Items(items, unsettled, kept, TRUE), Merges(r, items, kept, TRUE),
           Agree(r, items)
    PROVE  /\ Agree(s, new)
           /\ Stays(items, new, r.rows)
<1>1. PICK last \in Months, key \in Keys : last = r.marked /\ key = Final(r, m)
  BY WrittenSorted, WrittenItem
<1>2. PICK top \in Months \cup {Never} : top = Top(items) BY MonthsAndKeys DEF Item, Top
<1>3. /\ new[key].origin = m /\ new[key].seen = r.drafts[m].seen
      /\ \A k \in Keys \ {key} : new[k] = items[k]
  BY <1>1, WrittenItem
<1>4. /\ \A n \in Months : Draws(s, n) <=> Draws(r, n) /\ n # m
      /\ \A n \in Months \ {m} : s.drafts[n] = r.drafts[n]
      /\ Draws(r, m) /\ s.rows = r.rows
  BY WrittenSorted DEF Written
<1>5. key = IF m = last THEN Latest ELSE m BY <1>1 DEF Final
<1>6. m \in Int /\ last \in Int /\ top \in Int /\ top <= last
  <2>1. m \in Int /\ last \in Int /\ top \in Int /\ last # Never BY MonthsAndKeys
  <2>. QED BY <1>1, <1>2, <2>1 DEF Merges, Marked
<1>7. \A k \in Keys : items[k].origin = m =>
         /\ (items[k].seen \ r.rows) \subseteq r.drafts[m].seen
         /\ (r.drafts[m].seen \ r.rows) \subseteq items[k].seen
  BY <1>4 DEF Agree
<1>8. ASSUME NEW k \in Keys, NEW l \in Keys, new[k].origin = new[l].origin
      PROVE  (new[k].seen \ s.rows) \subseteq new[l].seen
  <2>1. CASE k = key /\ l = key BY <2>1
  <2>2. CASE k = key /\ l # key BY <1>3, <1>4, <1>7, <1>8, <2>2
  <2>3. CASE k # key /\ l = key BY <1>3, <1>4, <1>7, <1>8, <2>3
  <2>4. CASE k # key /\ l # key BY <1>3, <1>4, <1>8, <2>4 DEF Agree
  <2>. QED BY <2>1, <2>2, <2>3, <2>4
<1>9. ASSUME NEW n \in Months, NEW k \in Keys, Draws(s, n), new[k].origin = n
      PROVE  /\ (new[k].seen \ s.rows) \subseteq s.drafts[n].seen
             /\ (s.drafts[n].seen \ s.rows) \subseteq new[k].seen
  <2>1. Draws(r, n) /\ n # m /\ s.drafts[n] = r.drafts[n] BY <1>4, <1>9
  <2>2. new[k] = items[k] BY <1>3, <1>9, <2>1
  <2>. QED BY <1>4, <1>9, <2>1, <2>2 DEF Agree
<1>10. ASSUME NEW k \in Keys
       PROVE  \E l \in Keys : (items[k].seen \ r.rows) \subseteq new[l].seen
  <2>1. CASE k # key BY <1>3, <2>1
  <2>2. CASE k = key
    <3>1. CASE items[k].origin = m BY <1>3, <1>7, <2>2, <3>1
    <3>2. CASE items[k].origin # m /\ Present(items, k)
      <4>1. k = Latest /\ m = last /\ items[k].origin = top
        BY <1>2, <1>5, <2>2, <3>2 DEF Items, Placed, Top
      <4>2. top # Never /\ top < last BY <1>2, <1>6, <3>2, <4>1 DEF Present
      <4>3. Present(items, top)
        BY <1>1, <1>2, <4>1, <4>2, CopiedFirst DEF Spare
      <4>4. top \in Months /\ top \in Keys /\ top # key
        BY <1>2, <4>1, <4>2, <2>2, MonthsAndKeys
      <4>5. items[top].origin = top BY <4>3, <4>4 DEF Items, Placed
      <4>6. (items[k].seen \ r.rows) \subseteq items[top].seen
        BY <4>1, <4>4, <4>5 DEF Agree
      <4>. QED BY <1>3, <4>4, <4>6
    <3>3. CASE ~Present(items, k)
      <4>1. items[k] = NoItem BY <3>3 DEF Items, Placed
      <4>2. items[k].seen = {} BY <4>1 DEF NoItem
      <4>. QED BY <4>2
    <3>. QED BY <3>1, <3>2, <3>3
  <2>. QED BY <2>1, <2>2
<1>. QED BY <1>8, <1>9, <1>10 DEF Agree, Stays

-----------------------------------------------------------------------------
(* A store begins, and is done.                                            *)

\* What was read of the items, before the first row.
Fresh(r, items) ==
    /\ r.marked = Never
    /\ r.left = {DayOf[e] : e \in r.rows}
    /\ r.new = {m \in {MonthOf(e) : e \in r.rows} : ~HasMonth(items, m)}
    /\ \A m \in Months :
          /\ Draws(r, m) <=> HasMonth(items, m) /\ \E e \in r.rows : MonthOf(e) = m
          /\ Draws(r, m) => \E k \in Keys : /\ items[k].origin = m
                                            /\ r.drafts[m].seen = items[k].seen

\* A draft is read from one of the copies of its month.
LEMMA ReadDrafts ==
    ASSUME ScanTypeOK, NEW a \in App, NEW rows \in SUBSET Event, NEW m \in Months
    PROVE  LET draft == Existing(a, rows)[m]
           IN /\ draft # NoDraft <=> HasMonth(meta[a], m) /\ \E e \in rows : MonthOf(e) = m
              /\ draft # NoDraft => \E k \in Keys : /\ meta[a][k].origin = m
                                                    /\ draft.seen = meta[a][k].seen
<1> DEFINE copies == {k \in Keys : meta[a][k].origin = m}
           first == CHOOSE k \in copies : \A l \in copies : k <= l
<1>1. Existing(a, rows)[m] = IF copies = {} \/ \A e \in rows : Month(DayOf[e]) # m
                             THEN NoDraft ELSE [key |-> first, seen |-> meta[a][first].seen]
  BY DEF Existing
<1>2. copies \in SUBSET Keys /\ (copies # {} <=> HasMonth(meta[a], m)) BY DEF HasMonth
<1>3. copies # {} => first \in copies
  <2>. HIDE DEF copies
  <2>. QED BY <1>2, FirstCopy
<1>4. \A k \in copies : k \in Keys /\ meta[a][k].origin = m OBVIOUS
<1>. HIDE DEF copies, first
<1>5. CASE copies = {} \/ \A e \in rows : Month(DayOf[e]) # m
  BY <1>1, <1>2, <1>5 DEF MonthOf
<1>6. CASE copies # {} /\ \E e \in rows : Month(DayOf[e]) = m
  <2>1. first \in Keys /\ meta[a][first].origin = m BY <1>3, <1>4, <1>6
  <2>2. PICK draft : draft = [key |-> first, seen |-> meta[a][first].seen] OBVIOUS
  <2>3. draft # NoDraft BY <2>1, <2>2, MonthsAndKeys DEF NoDraft
  <2>4. Existing(a, rows)[m] = draft BY <1>1, <1>6, <2>2
  <2>5. draft.seen = meta[a][first].seen BY <2>2
  <2>. QED BY <1>2, <1>6, <2>1, <2>3, <2>4, <2>5 DEF MonthOf
<1>. QED BY <1>5, <1>6

\* What was read before the first row can be merged.
LEMMA FreshMerges ==
    ASSUME NEW items \in [Keys -> Item], NEW kept \in SUBSET Event, NEW whole,
           NEW r \in ScanRecord, Fresh(r, items), Holds(items, kept),
           \A e \in r.rows : DayOf[e] \in Days
    PROVE  Sorted(r) /\ Merges(r, items, kept, whole)
<1>1. Merged(r) = {} BY DEF Fresh, Merged
<1>2. r.rows \in SUBSET Event BY ScanFields
<1>3. \A e \in r.rows : MonthOf(e) \in Months BY <1>2, MonthOfTyped
<1>4. Sorted(r)
  <2>1. \A m \in Months : Draws(r, m) => \E e \in r.rows : MonthOf(e) = m BY DEF Fresh
  <2>2. \A d \in r.left : \E e \in r.rows : DayOf[e] = d BY DEF Fresh
  <2>. QED BY <1>1, <2>1, <2>2 DEF Sorted
<1>5. ReadFirst(r, items)
  <2>1. \A m \in r.new : ~HasMonth(items, m) BY DEF Fresh
  <2>2. \A e \in r.rows : HasMonth(items, MonthOf(e)) => Draws(r, MonthOf(e))
    BY <1>3 DEF Fresh
  <2>3. \A e \in r.rows : ~HasMonth(items, MonthOf(e)) => MonthOf(e) \in r.new
    BY DEF Fresh
  <2>. QED BY <2>1, <2>2, <2>3 DEF ReadFirst
<1>6. ASSUME NEW e \in kept, Draws(r, MonthOf(e)) PROVE e \in r.drafts[MonthOf(e)].seen
  <2>1. MonthOf(e) \in Nat /\ r.drafts \in [Months -> DraftRecord]
    BY MonthOfTyped, ScanFields
  <2>2. CASE MonthOf(e) \in Months BY <1>6, <2>2 DEF Fresh, Holds
  <2>3. CASE MonthOf(e) \notin Months
    <3>1. HasMonth(items, MonthOf(e)) BY DEF Holds
    <3>2. \A k \in Keys : items[k].origin \in Months \cup {Never} BY DEF Item
    <3>. QED BY <2>1, <2>3, <3>1, <3>2, MonthsAndKeys DEF HasMonth
  <2>. QED BY <2>2, <2>3
<1>. QED BY <1>1, <1>4, <1>5, <1>6 DEF Merges, Marked, Carried, Fresh

\* It agrees with the copies if these agree.
LEMMA FreshAgree ==
    ASSUME NEW items, NEW r, Fresh(r, items),
           \A k, l \in Keys : items[k].origin = items[l].origin =>
               (items[k].seen \ r.rows) \subseteq items[l].seen
    PROVE  Agree(r, items)
  BY DEF Agree, Fresh

\* A month has one item, unless a store has not been finished.
LEMMA CopiesAgree ==
    ASSUME NEW items \in [Keys -> Item], Placed(items, {}), NEW k \in Keys, NEW l \in Keys,
           items[k].origin = items[l].origin
    PROVE  items[k].seen = items[l].seen
<1>1. CASE items[k].origin = Never BY <1>1 DEF Placed, Present
<1>2. CASE items[k].origin # Never BY <1>2, OneCopy
<1>. QED BY <1>1, <1>2

\* The items once everything is written.
LEMMA DoneItems ==
    ASSUME NEW items \in [Keys -> Item],
           NEW unsettled \in SUBSET Event, NEW kept \in SUBSET Event, NEW whole,
           NEW r \in ScanRecord, Sorted(r), Items(items, unsettled, kept, whole),
           Merges(r, items, kept, whole), r.left = {}, \A m \in Months : ~Draws(r, m),
           \A e \in r.rows : DayOf[e] \in Days,
           NEW unsettled2 \in SUBSET Event, NEW kept2 \in SUBSET Event,
           unsettled \subseteq unsettled2 \cup r.rows, kept2 \subseteq kept \cup r.rows,
           unsettled2 = {} \/ kept2 \subseteq kept
    PROVE  Items(items, unsettled2, kept2, whole)
<1>1. Merged(r) = r.rows /\ r.rows \in SUBSET Event BY ScanFields DEF Merged
<1>2. ASSUME NEW e \in r.rows
      PROVE  /\ MonthOf(e) \in Months
             /\ items[Final(r, MonthOf(e))].origin = MonthOf(e)
             /\ e \in items[Final(r, MonthOf(e))].seen
             /\ MonthOf(e) <= r.marked
             /\ Final(r, MonthOf(e)) \in Keys
  <2>1. MonthOf(e) \in Months BY <1>1, MonthOfTyped
  <2>2. ~Draws(r, MonthOf(e)) /\ e \in Merged(r) BY <1>1, <2>1
  <2>3. MonthOf(e) <= r.marked BY <2>2 DEF Sorted
  <2>4. Final(r, MonthOf(e)) \in Keys BY <2>1, MonthsAndKeys DEF Final
  <2>. QED BY <2>1, <2>2, <2>3, <2>4 DEF Merges, Carried
<1>3. ASSUME NEW e \in r.rows PROVE r.marked = Top(items) /\ Top(items) \in Months
  <2>1. r.marked # Never BY <1>1 DEF Sorted
  <2>2. r.marked = Top(items) \/ \E f \in r.rows : MonthOf(f) = r.marked
    BY <1>1, <2>1 DEF Merges, Marked
  <2>3. r.marked = Top(items) BY <1>2, <2>2 DEF Final, Top
  <2>4. r.marked \in Months BY <2>1, ScanFields
  <2>. QED BY <2>3, <2>4
<1>4. Placed(items, unsettled2)
  <2>1. Placed(items, unsettled) BY DEF Items
  <2>2. ASSUME NEW m \in Months, NEW e \in r.rows, m < MonthOf(e) PROVE m < Top(items)
    <3>1. PICK n \in Months : n = MonthOf(e) BY <1>2
    <3>2. PICK top \in Months : top = Top(items) BY <1>3
    <3>3. m < n /\ n <= top BY <1>2, <1>3, <2>2, <3>1, <3>2
    <3>4. m < top BY <3>3, MonthsAndKeys
    <3>. QED BY <3>2, <3>4
  <2>. QED BY <2>1, <2>2 DEF Placed
<1>5. Copied(items, kept2, whole)
  <2>1. CASE unsettled2 = {}
    <3>1. \A m \in Months : Present(items, m) => m < Top(items) BY <1>4, <2>1 DEF Placed
    <3>2. items[Latest] \in Item BY MonthsAndKeys
    <3>3. PICK top \in Months \cup {Never} : top = Top(items) BY <3>2 DEF Item, Top
    <3>4. \A m \in Months : ~(m < top /\ top < m) BY MonthsAndKeys
    <3>. QED BY <3>1, <3>3, <3>4 DEF Copied
  <2>2. CASE kept2 \subseteq kept BY <2>2 DEF Items, Copied, Spare
  <2>. QED BY <2>1, <2>2
<1>6. Holds(items, kept2)
  <2>1. Holds(items, kept) BY DEF Items
  <2>2. ASSUME NEW e \in kept2, e \notin kept
        PROVE  /\ HasMonth(items, MonthOf(e))
               /\ \A k \in Keys : items[k].origin = MonthOf(e) => e \in items[k].seen
    <3>1. e \in r.rows /\ unsettled2 = {} BY <2>2
    <3>2. PICK f \in Keys : f = Final(r, MonthOf(e)) BY <1>2, <3>1
    <3>3. items[f].origin = MonthOf(e) /\ e \in items[f].seen BY <1>2, <3>1, <3>2
    <3>4. MonthOf(e) # Never BY <1>2, <3>1, MonthsAndKeys
    <3>5. \A k \in Keys : items[k].origin = MonthOf(e) => k = f
      BY <1>4, <3>1, <3>3, <3>4, OneCopy
    <3>. QED BY <3>3, <3>5 DEF HasMonth
  <2>. QED BY <2>1, <2>2 DEF Holds
<1>. QED BY <1>4, <1>5, <1>6 DEF Items

-----------------------------------------------------------------------------
(* The invariant.                                                          *)

Scheduled(x) == Active(x) /\ ~scan[x].manual

\* e is of a window that was recorded, or one that a scheduled execution is
\* done with for its application.
Covered(e) ==
    \/ DayOf[e] < info.end
    \/ \E x \in Exec : /\ Scheduled(x) /\ AppOf[e] \notin scan[x].todo
                       /\ DayOf[e] < scan[x].end

\* The events that have to be in the metadata of a.
Kept(a) == {e \in loaded \ late : AppOf[e] = a /\ Covered(e)}

\* What the next scheduled execution, or the one under way, has yet to scan.
Owed(a) ==
    {e \in loaded : /\ AppOf[e] = a /\ info.end <= DayOf[e] /\ DayOf[e] < jobDay
                    /\ \A x \in Exec : Scheduled(x) =>
                          a \in scan[x].todo \ scan[x].app /\ DayOf[e] < scan[x].end}

\* What the procedure of a scheduled execution has found for the store to come.
Pending(a) ==
    {e \in found[a] : \E x \in Exec : /\ Scheduled(x) /\ scan[x].step = "store"
                                      /\ scan[x].app = {a}}

\* What a store of a that is under way, or has been given up, may have merged
\* in part.
Unsettled(a) == Merging(a) \cup (IF Whole(a) THEN {} ELSE Owed(a) \cup Pending(a))

\* A manual scan left a half stored, or an item was left unprocessed.
ByHand(a) == <<a, TRUE>> \in torn

\* x has filled the tables of an application.
Filled(x) == scan[x].step \in {"store", "rows"}

\* The tables of a hold what is in the window of x.
Tables(x, a) ==
    /\ \A e \in found[a] : /\ e \in loaded /\ AppOf[e] = a
                           /\ scan[x].start <= DayOf[e] /\ DayOf[e] < scan[x].end
    /\ Scheduled(x) =>
          \A e \in loaded \ late :
              AppOf[e] = a /\ scan[x].start <= DayOf[e] /\ DayOf[e] < scan[x].end
              => e \in found[a]

\* A scheduled execution scans from where the last one ended; from the end of its
\* procedure to that of its store nobody else fills the tables, and the rows of
\* the store are what they hold.
Execution(x) ==
    /\ ~Filled(x) => scan[x].app = {}
    /\ Filled(x) => \E a \in App : scan[x].app = {a}
    /\ Scheduled(x) => scan[x].start = info.end /\ scan[x].end <= jobDay
    /\ Filled(x) => \A a \in scan[x].app : Tables(x, a) /\ \A call \in calls : call.app # a
    /\ Storing(x) => \A a \in scan[x].app : scan[x].rows = found[a]

Execs == \A x \in Exec : Execution(x)

ItemsInv ==
    \A a \in App : ~ByHand(a) => Items(meta[a], Unsettled(a), Kept(a), Whole(a))

StoresInv ==
    \A x \in Exec : Storing(x) =>
        /\ Sorted(scan[x])
        /\ \A a \in scan[x].app :
              /\ ~ByHand(a) => Merges(scan[x], meta[a], Kept(a), Whole(a))
              /\ Whole(a) => Agree(scan[x], meta[a])

MetaInv == ScanInv /\ Execs /\ ItemsInv /\ StoresInv

\* What has to be there, and what is unsettled, are sets of events.
LEMMA SetsTyped ==
    ASSUME ScanTypeOK, NEW a \in App
    PROVE  Kept(a) \in SUBSET Event /\ Unsettled(a) \in SUBSET Event
<1>1. \A x \in Exec : scan[x].rows \in SUBSET Event BY ScanTypes, ScanFields
<1>2. Merging(a) \in SUBSET Event BY <1>1 DEF Merging
<1>3. Pending(a) \in SUBSET Event BY ScanTypes DEF Pending
<1>. QED BY <1>2, <1>3, ScanTypes DEF Kept, Unsettled, Owed

\* Less has to be there, or more is unsettled.
LEMMA ItemsLoosened ==
    ASSUME NEW items, NEW unsettled, NEW kept, NEW whole,
           Items(items, unsettled, kept, whole),
           NEW unsettled2, NEW kept2, NEW whole2,
           unsettled \subseteq unsettled2, kept2 \subseteq kept, whole2 => whole
    PROVE  Items(items, unsettled2, kept2, whole2)
<1>1. Placed(items, unsettled2) BY DEF Items, Placed
<1>2. Copied(items, kept2, whole2) BY DEF Items, Copied, Spare
<1>3. Holds(items, kept2) BY DEF Items, Holds
<1>. QED BY <1>1, <1>2, <1>3 DEF Items

\* The same for a store.
LEMMA MergesLoosened ==
    ASSUME NEW r, NEW items, NEW kept, NEW whole, Merges(r, items, kept, whole),
           NEW kept2, NEW whole2, kept2 \subseteq kept, whole2 => whole
    PROVE  Merges(r, items, kept2, whole2)
<1>1. Marked(r, items, kept2, whole2) BY DEF Merges, Marked, Spare
<1>2. Carried(r, items, kept2) BY DEF Merges, Carried
<1>. QED BY <1>1, <1>2 DEF Merges

\* A step that leaves items and stores alone keeps the invariant if for no
\* application more has to be there, or less is unsettled.
LEMMA Loosened ==
    ASSUME ItemsInv, StoresInv, meta' = meta,
           \A a \in App : ~ByHand(a)' => /\ ~ByHand(a)
                                         /\ Unsettled(a) \subseteq Unsettled(a)'
                                         /\ Kept(a)' \subseteq Kept(a),
           \A a \in App : Whole(a)' => Whole(a),
           \A x \in Exec : Storing(x)' => /\ Storing(x) /\ scan'[x] = scan[x]
                                          /\ scan[x].app \subseteq App
    PROVE  ItemsInv' /\ StoresInv'
<1>1. ASSUME NEW a \in App, ~ByHand(a)'
      PROVE  Items(meta[a], Unsettled(a)', Kept(a)', Whole(a)')
  <2>1. Items(meta[a], Unsettled(a), Kept(a), Whole(a)) BY <1>1 DEF ItemsInv
  <2>. QED BY <1>1, <2>1, ItemsLoosened
<1>2. ASSUME NEW x \in Exec, Storing(x)', NEW a \in scan[x].app, ~ByHand(a)'
      PROVE  Merges(scan[x], meta[a], Kept(a)', Whole(a)')
  <2>1. Merges(scan[x], meta[a], Kept(a), Whole(a)) BY <1>2 DEF StoresInv
  <2>. QED BY <1>2, <2>1, MergesLoosened
<1>3. ASSUME NEW x \in Exec, Storing(x)'
      PROVE  /\ Sorted(scan[x])
             /\ \A a \in scan[x].app : Whole(a)' => Agree(scan[x], meta[a])
  BY <1>3 DEF StoresInv
<1>4. ItemsInv' BY <1>1 DEF ItemsInv
<1>5. StoresInv' BY <1>2, <1>3 DEF StoresInv
<1>. QED BY <1>4, <1>5

-----------------------------------------------------------------------------
(* The steps keep the invariant.                                           *)

\* What the proofs need of an execution.
LEMMA ExecTyped ==
    ASSUME ScanInv, NEW x \in Exec
    PROVE  /\ scan[x] \in ScanRecord
           /\ scan[x].start \in Int /\ scan[x].end \in Int
           /\ scan[x].rows \in SUBSET Event /\ scan[x].app \in SUBSET App
           /\ jobDay \in Int /\ info.end \in Int
           /\ \A e \in Event : DayOf[e] \in Int
<1>1. scan[x] \in ScanRecord BY ScanTypes DEF ScanInv
<1>2. Days \cup {Never} \subseteq Int BY DEF Days, Never
<1>3. info.end \in Days \cup {Never} BY DEF ScanInv, ScanTypeOK
<1>4. jobDay \in Days BY DEF ScanInv, ScanTypeOK
<1>. QED BY <1>1, <1>2, <1>3, <1>4, ScanFields, ScanMetadataAssumption

\* Time, jobs and loads: an event loaded into a window that was scanned is late.
LEMMA AroundMeta ==
    ASSUME MetaInv, Pass \/ JobEnds \/ \E e \in Event : LoadEvent(e)
    PROVE  Execs' /\ ItemsInv' /\ StoresInv'
<1>1. /\ scan' = scan /\ info' = info /\ meta' = meta /\ torn' = torn
      /\ found' = found /\ calls' = calls
      /\ loaded \subseteq loaded'
      /\ \A e \in loaded' \ late' : e \in loaded \ late \/ ~Closed(e)
      /\ loaded' \subseteq Event
  <2>1. CASE Pass \/ JobEnds
    BY <2>1 DEF Pass, JobEnds, MetaInv, ScanInv, ScanTypeOK, tableVars
  <2>2. ASSUME NEW e \in Event, LoadEvent(e)
        PROVE  /\ scan' = scan /\ info' = info /\ meta' = meta /\ torn' = torn
               /\ found' = found /\ calls' = calls
               /\ loaded \subseteq loaded' /\ loaded' \subseteq Event
               /\ \A f \in loaded' \ late' : f \in loaded \ late \/ ~Closed(f)
    BY <2>2 DEF LoadEvent, MetaInv, ScanInv, ScanTypeOK, tableVars
  <2>. QED BY <2>1, <2>2
<1>2. jobDay \in Int /\ jobDay' \in Int /\ jobDay <= jobDay'
      /\ \A e \in Event : DayOf[e] \in Int
  <2>1. jobDay \in Int /\ today \in Int BY DEF MetaInv, ScanInv, ScanTypeOK, Days
  <2>. QED BY <2>1, ScanMetadataAssumption DEF Pass, JobEnds, LoadEvent
<1>3. \A x \in Exec : (Scheduled(x)' <=> Scheduled(x)) /\ (Storing(x)' <=> Storing(x))
  BY <1>1 DEF Scheduled, Active, Storing
<1>4. \A e \in Event : Covered(e)' <=> Covered(e) BY <1>1, <1>3 DEF Covered
<1>5. \A e \in Event : Covered(e) => Closed(e) BY DEF Covered, Closed, Scheduled
<1>6. \A a \in App : Kept(a)' \subseteq Kept(a) BY <1>1, <1>4, <1>5 DEF Kept
<1>7. \A a \in App : Owed(a) \subseteq Owed(a)'
  <2>1. info.end \in Int BY DEF MetaInv, ScanInv, ScanTypeOK, Days, Never
  <2>2. ASSUME NEW a \in App, NEW e \in Owed(a) PROVE e \in Owed(a)'
    <3>1. e \in Event /\ DayOf[e] < jobDay' BY <1>1, <1>2 DEF Owed
    <3>. QED BY <1>1, <1>3, <3>1 DEF Owed
  <2>. QED BY <2>2
<1>8. \A a \in App : Merging(a)' = Merging(a) /\ Pending(a)' = Pending(a)
  BY <1>1, <1>3 DEF Merging, Pending
<1>9. \A a \in App : (Whole(a)' <=> Whole(a)) /\ (ByHand(a)' <=> ByHand(a))
  BY <1>1 DEF Whole, ByHand
<1>10. \A a \in App : Unsettled(a) \subseteq Unsettled(a)'
  BY <1>7, <1>8, <1>9 DEF Unsettled
<1>11. \A x \in Exec : scan[x].app \subseteq App BY ExecTyped DEF MetaInv
<1>12. ItemsInv' /\ StoresInv'
  BY <1>1, <1>3, <1>6, <1>9, <1>10, <1>11, Loosened DEF MetaInv
<1>13. ASSUME NEW x \in Exec PROVE Execution(x)'
  <2>1. Execution(x) BY DEF MetaInv, Execs
  <2>2. scan[x].end \in Int BY ExecTyped DEF MetaInv
  <2>3. Scheduled(x)' => scan'[x].start = info'.end /\ scan'[x].end <= jobDay'
    BY <1>1, <1>2, <1>3, <2>1, <2>2 DEF Execution
  <2>4. ASSUME Filled(x), NEW a \in scan[x].app PROVE Tables(x, a)'
    <3>1. Tables(x, a) BY <2>1, <2>4 DEF Execution
    <3>2. ASSUME Scheduled(x)', NEW e \in loaded' \ late', AppOf[e] = a,
                 scan'[x].start <= DayOf[e], DayOf[e] < scan'[x].end
          PROVE  e \in found'[a]
      <4>1. Scheduled(x) BY <1>3, <3>2
      <4>2. Closed(e) BY <1>1, <2>4, <3>2, <4>1 DEF Closed, Scheduled
      <4>3. e \in loaded \ late BY <1>1, <4>2
      <4>. QED BY <1>1, <3>1, <3>2, <4>1, <4>3 DEF Tables
    <3>. QED BY <1>1, <3>1, <3>2 DEF Tables
  <2>5. Filled(x)' <=> Filled(x) BY <1>1 DEF Filled
  <2>. QED BY <1>1, <1>3, <2>1, <2>3, <2>4, <2>5 DEF Execution
<1>. QED BY <1>12, <1>13 DEF Execs

\* A procedure that nobody polls any more fills no tables that an execution has
\* filled for its store.
LEMMA CallEndsMeta ==
    ASSUME MetaInv, NEW call \in calls, CallEnds(call)
    PROVE  Execs' /\ ItemsInv' /\ StoresInv'
<1>1. /\ UNCHANGED <<jobDay, loaded, info, scan, meta, late, torn>>
      /\ calls' \subseteq calls
  BY DEF CallEnds
<1>2. found \in [App -> SUBSET Event] /\ calls \subseteq Call
  BY ScanTypes DEF MetaInv, ScanInv
<1>3. \A b \in App : b # call.app => found'[b] = found[b] BY <1>2 DEF CallEnds
<1>4. \A x \in Exec : /\ Storing(x)' <=> Storing(x)
                      /\ Scheduled(x)' <=> Scheduled(x)
                      /\ Filled(x)' <=> Filled(x)
  BY <1>1 DEF Storing, Active, Scheduled, Filled
<1>5. \A x \in Exec : Filled(x) => call.app \notin scan[x].app
  BY DEF MetaInv, Execs, Execution
<1>6. \A a \in App : Pending(a) \subseteq Pending(a)'
  <2>1. ASSUME NEW a \in App, NEW e \in Pending(a) PROVE e \in Pending(a)'
    <3>1. PICK x \in Exec : Scheduled(x) /\ scan[x].step = "store" /\ scan[x].app = {a}
      BY <2>1 DEF Pending
    <3>2. a # call.app BY <1>5, <3>1 DEF Filled
    <3>. QED BY <1>1, <1>3, <1>4, <2>1, <3>1, <3>2 DEF Pending
  <2>. QED BY <2>1
<1>7. \A a \in App : /\ Merging(a)' = Merging(a) /\ Owed(a)' = Owed(a)
                     /\ Kept(a)' = Kept(a)
                     /\ Whole(a)' <=> Whole(a)
                     /\ ByHand(a)' <=> ByHand(a)
  BY <1>1, <1>4 DEF Merging, Owed, Kept, Covered, Whole, ByHand
<1>8. \A a \in App : Unsettled(a) \subseteq Unsettled(a)' BY <1>6, <1>7 DEF Unsettled
<1>9. \A x \in Exec : scan[x].app \subseteq App BY ExecTyped DEF MetaInv
<1>10. ItemsInv' /\ StoresInv'
  BY <1>1, <1>4, <1>7, <1>8, <1>9, Loosened DEF MetaInv
<1>11. ASSUME NEW x \in Exec PROVE Execution(x)'
  <2>1. Execution(x) BY DEF MetaInv, Execs
  <2>2. ASSUME Filled(x), NEW a \in scan[x].app
        PROVE  Tables(x, a)' /\ found'[a] = found[a]
    <3>1. a \in App /\ a # call.app BY <1>5, <1>9, <2>2
    <3>2. found'[a] = found[a] BY <1>3, <3>1
    <3>. QED BY <1>1, <1>4, <2>1, <2>2, <3>2 DEF Execution, Tables
  <2>3. Storing(x) => Filled(x) BY DEF Storing, Filled
  <2>. QED BY <1>1, <1>4, <2>1, <2>2, <2>3 DEF Execution
<1>. QED BY <1>10, <1>11 DEF Execs

\* An execution that is not past its check takes a step: at most, it passes it.
LEMMA WaitsMeta ==
    ASSUME MetaInv, NEW x \in Exec, NEW r \in ScanRecord, scan' = [scan EXCEPT ![x] = r],
           ~Active(x), r.step \notin {"store", "rows"}, r.app = {},
           r.step = "apps" => /\ r.todo = App
                              /\ ~r.manual => r.start = info.end
                              /\ ~r.manual => r.end = jobDay,
           UNCHANGED <<jobDay, loaded, info, found, calls, meta, late, torn>>
    PROVE  Execs' /\ ItemsInv' /\ StoresInv'
<1>1. scan \in [Exec -> ScanRecord] BY ScanTypes DEF MetaInv, ScanInv
<1>2. scan'[x] = r /\ \A y \in Exec \ {x} : scan'[y] = scan[y] BY <1>1
<1>3. ~Storing(x) /\ ~Storing(x)' /\ \A y \in Exec : Storing(y)' <=> Storing(y)
  BY <1>2 DEF Active, Storing
<1>4. /\ ~Scheduled(x)
      /\ \A y \in Exec \ {x} : Scheduled(y)' <=> Scheduled(y)
      /\ Scheduled(x)' => r.step = "apps" /\ ~r.manual
  BY <1>2 DEF Scheduled, Active, Storing
<1>5. ASSUME NEW e \in Event, Covered(e)' PROVE Covered(e)
  <2>1. AppOf[e] \in App BY AppEventsAssumption
  <2>2. Scheduled(x)' => AppOf[e] \in scan'[x].todo BY <1>2, <1>4, <2>1
  <2>3. CASE DayOf[e] < info'.end BY <2>3 DEF Covered
  <2>4. CASE ~(DayOf[e] < info'.end)
    <3>1. PICK y \in Exec : /\ Scheduled(y)' /\ AppOf[e] \notin scan'[y].todo
                            /\ DayOf[e] < scan'[y].end
      BY <1>5, <2>4 DEF Covered
    <3>2. y # x BY <2>2, <3>1
    <3>. QED BY <1>2, <1>4, <3>1, <3>2 DEF Covered
  <2>. QED BY <2>3, <2>4
<1>6. loaded \in SUBSET Event BY ScanTypes DEF MetaInv, ScanInv
<1>7. \A a \in App : Kept(a)' \subseteq Kept(a) BY <1>5, <1>6 DEF Kept
<1>8. ASSUME NEW a \in App, NEW e \in Owed(a) PROVE e \in Owed(a)'
  <2>1. e \in loaded' /\ AppOf[e] = a /\ info'.end <= DayOf[e] /\ DayOf[e] < jobDay'
    BY DEF Owed
  <2>2. ASSUME NEW y \in Exec, Scheduled(y)'
        PROVE  a \in scan'[y].todo \ scan'[y].app /\ DayOf[e] < scan'[y].end
    <3>1. CASE y = x BY <1>2, <1>4, <2>1, <2>2, <3>1
    <3>2. CASE y # x BY <1>2, <1>4, <2>2, <3>2 DEF Owed
    <3>. QED BY <3>1, <3>2
  <2>. QED BY <2>1, <2>2 DEF Owed
<1>9. ASSUME NEW a \in App PROVE Merging(a)' = Merging(a) /\ Pending(a)' = Pending(a)
  <2>1. \A y \in Exec : Storing(y) => scan'[y] = scan[y] BY <1>2, <1>3
  <2>2. {y \in Exec : Storing(y)' /\ scan'[y].app = {a}}
        = {y \in Exec : Storing(y) /\ scan[y].app = {a}} BY <1>3, <2>1
  <2>3. \A y \in Exec : Scheduled(y)' /\ scan'[y].step = "store" /\ scan'[y].app = {a}
                       <=> Scheduled(y) /\ scan[y].step = "store" /\ scan[y].app = {a}
    BY <1>2, <1>4
  <2>. QED BY <2>1, <2>2, <2>3 DEF Merging, Pending
<1>10. \A a \in App : (Whole(a)' <=> Whole(a)) /\ (ByHand(a)' <=> ByHand(a))
  BY DEF Whole, ByHand
<1>11. \A a \in App : Unsettled(a) \subseteq Unsettled(a)'
  BY <1>8, <1>9, <1>10 DEF Unsettled
<1>12. \A y \in Exec : scan[y].app \subseteq App BY ExecTyped DEF MetaInv
<1>13. ItemsInv' /\ StoresInv'
  BY <1>2, <1>3, <1>7, <1>10, <1>11, <1>12, Loosened DEF MetaInv
<1>14. ASSUME NEW y \in Exec PROVE Execution(y)'
  <2>1. Execution(y) BY DEF MetaInv, Execs
  <2>2. CASE y = x
    <3>1. jobDay' \in Int /\ ~Filled(x)' BY <1>2, ExecTyped DEF MetaInv, Filled
    <3>. QED BY <1>2, <1>3, <1>4, <2>2, <3>1 DEF Execution
  <2>3. CASE y # x
    <3>1. scan'[y] = scan[y] /\ (Scheduled(y)' <=> Scheduled(y)) BY <1>2, <1>4, <2>3
    <3>2. \A a \in scan[y].app : Tables(y, a) => Tables(y, a)' BY <3>1 DEF Tables
    <3>. QED BY <1>3, <2>1, <3>1, <3>2 DEF Execution, Filled
  <2>. QED BY <2>2, <2>3
<1>. QED BY <1>13, <1>14 DEF Execs

\* Executions start and skip.
LEMMA StartsMeta ==
    ASSUME MetaInv, NEW x \in Exec,
           \/ StartAfterLoad(x)
           \/ \E from, to \in Days : StartByHand(x, from, to)
           \/ Skip(x)
    PROVE  Execs' /\ ItemsInv' /\ StoresInv'
<1>1. PICK r \in ScanRecord :
         /\ scan' = [scan EXCEPT ![x] = r] /\ r.step \notin {"apps", "store", "rows"} /\ r.app = {}
  <2>1. CASE StartAfterLoad(x)
    <3>1. [Off EXCEPT !.step = "check"] \in ScanRecord
          /\ [Off EXCEPT !.step = "check"].step = "check"
          /\ [Off EXCEPT !.step = "check"].app = {}
      BY OffTyped DEF ScanRecord, Step, Off
    <3>. QED BY <2>1, <3>1 DEF StartAfterLoad
  <2>2. ASSUME NEW from \in Days, NEW to \in Days, StartByHand(x, from, to)
        PROVE \E r \in ScanRecord : /\ scan' = [scan EXCEPT ![x] = r]
                                    /\ r.step \notin {"apps", "store", "rows"} /\ r.app = {}
    <3> DEFINE r == [Off EXCEPT !.step = "check", !.manual = TRUE, !.start = from, !.end = to]
    <3>1. r \in ScanRecord /\ r.step = "check" /\ r.app = {}
      BY OffTyped DEF ScanRecord, Step, Off
    <3>2. scan' = [scan EXCEPT ![x] = r] BY <2>2 DEF StartByHand
    <3>. HIDE DEF r
    <3>. QED BY <3>1, <3>2
  <2>3. CASE Skip(x)
    <3>1. Off.app = {} BY DEF Off
    <3>. QED BY <2>3, <3>1, OffTyped DEF Skip
  <2>. QED BY <2>1, <2>2, <2>3
<1>2. ~Active(x) /\ UNCHANGED <<jobDay, loaded, info, found, calls, meta, late, torn>>
  BY DEF StartAfterLoad, StartByHand, Skip, Active, Storing, tableVars
<1>. QED BY <1>1, <1>2, WaitsMeta

\* An execution that passes its check owes what is in the window.
LEMMA CheckMeta ==
    ASSUME MetaInv, NEW x \in Exec, CheckWorkflowStart(x)
    PROVE  Execs' /\ ItemsInv' /\ StoresInv'
<1>1. ScanTypeOK /\ scan[x] \in ScanRecord BY ScanTypes DEF MetaInv, ScanInv
<1>2. LatestJobEnd \in Days BY <1>1, ScanTypes DEF LatestJobEnd
<1>3. scan[x].start \in Days \cup {Never} /\ scan[x].end \in Days \cup {Never}
      /\ WindowFrom \in Days \cup {Never}
  BY <1>1, ScanFields DEF WindowFrom, ScanTypeOK
<1>4. PICK r \in ScanRecord :
         /\ scan' = [scan EXCEPT ![x] = r] /\ r.step \notin {"store", "rows"} /\ r.app = {}
         /\ r.step = "apps" => /\ r.todo = App
                               /\ ~r.manual => r.start = info.end
                               /\ ~r.manual => r.end = jobDay
  <2>1. CASE HasOtherRunningExecutions(x) \/ ~(scan[x].manual \/ IntervalIsOver)
    <3>1. [Off EXCEPT !.step = "skip"] \in ScanRecord
          /\ [Off EXCEPT !.step = "skip"].step = "skip"
          /\ [Off EXCEPT !.step = "skip"].app = {}
      BY OffTyped DEF ScanRecord, Step, Off
    <3>. QED BY <2>1, <3>1 DEF CheckWorkflowStart
  <2>2. CASE ~(HasOtherRunningExecutions(x) \/ ~(scan[x].manual \/ IntervalIsOver))
    <3>1. PICK start, end \in Days \cup {Never} :
              /\ start = IF scan[x].manual THEN scan[x].start ELSE WindowFrom
              /\ end = IF scan[x].manual THEN scan[x].end ELSE LatestJobEnd
      BY <1>2, <1>3
    <3>2. scan' = [scan EXCEPT ![x] = Continue(x, start, end)]
      <4>1. CASE scan[x].manual BY <2>2, <3>1, <4>1 DEF CheckWorkflowStart
      <4>2. CASE ~scan[x].manual BY <2>2, <3>1, <4>2 DEF CheckWorkflowStart
      <4>. QED BY <4>1, <4>2
    <3>3. PICK r : r = Continue(x, start, end) OBVIOUS
    <3>4. r \in ScanRecord /\ r.step = "apps" BY <1>1, <3>3, ContinueTyped
    <3>5. r.todo = App /\ r.app = {} /\ r.start = start /\ r.end = end
          /\ r.manual = scan[x].manual
      BY <3>3 DEF Continue, Off
    <3>6. ~r.manual => r.start = info.end BY <3>1, <3>5 DEF WindowFrom
    <3>7. ~r.manual => r.end = jobDay BY <3>1, <3>5 DEF LatestJobEnd
    <3>. QED BY <3>2, <3>3, <3>4, <3>5, <3>6, <3>7
  <2>. QED BY <2>1, <2>2
<1>5. ~Active(x) /\ UNCHANGED <<jobDay, loaded, info, found, calls, meta, late, torn>>
  BY DEF CheckWorkflowStart, Active, Storing, tableVars
<1>. QED BY <1>4, <1>5, WaitsMeta

\* An execution ends: no other is past the check.
LEMMA OffMeta ==
    ASSUME ScanInv, NEW x \in Exec, scan' = [scan EXCEPT ![x] = Off], Active(x)
    PROVE  /\ \A y \in Exec : ~Active(y)' /\ ~Storing(y)' /\ ~Scheduled(y)'
           /\ \A y \in Exec : Active(y) => y = x
           /\ \A y \in Exec : y # x => scan'[y] = scan[y]
           /\ scan'[x].app = {}
<1>1. scan \in [Exec -> ScanRecord] BY ScanTypes DEF ScanInv
<1>2. scan'[x] = Off /\ \A y \in Exec \ {x} : scan'[y] = scan[y] BY <1>1
<1>3. \A y \in Exec : Active(y) => y = x BY DEF ScanInv, OneScan
<1>4. \A y \in Exec : ~Active(y)' BY <1>2, <1>3, OffTyped DEF Active, Storing
<1>. QED BY <1>2, <1>3, <1>4 DEF Active, Scheduled, Off

\* When no execution is left past its check, nothing is said of any.
LEMMA IdleExecs ==
    ASSUME Execs, NEW x \in Exec,
           \A y \in Exec : ~Active(y)',
           \A y \in Exec : Active(y) => y = x,
           \A y \in Exec : y # x => scan'[y] = scan[y], scan'[x].app = {}
    PROVE  Execs'
<1>1. \A y \in Exec : y # x => ~Filled(y) BY DEF Active, Storing, Filled
<1>2. \A y \in Exec : scan'[y].app = {} BY <1>1 DEF Execs, Execution
<1>3. \A y \in Exec : ~Filled(y)' /\ ~Storing(y)' /\ ~Scheduled(y)'
  BY DEF Active, Storing, Filled, Scheduled
<1>. QED BY <1>2, <1>3 DEF Execs, Execution

\* Recording a window covers what its execution has done already.
LEMMA RecordedMeta ==
    ASSUME MetaInv, NEW x \in Exec, UpdateWorkflowInfo(x)
    PROVE  Execs' /\ ItemsInv' /\ StoresInv'
<1>1. /\ scan[x].step = "apps" /\ scan[x].todo = {}
      /\ scan' = [scan EXCEPT ![x] = Off]
      /\ UNCHANGED <<jobDay, loaded, meta, late, torn>>
  BY DEF UpdateWorkflowInfo
<1>2. Active(x) /\ ~Storing(x) BY <1>1 DEF Active, Storing
<1>3. ScanInv /\ Execs BY DEF MetaInv
<1>4. /\ \A y \in Exec : ~Active(y)' /\ ~Storing(y)' /\ ~Scheduled(y)'
      /\ \A y \in Exec : Active(y) => y = x
      /\ \A y \in Exec : y # x => scan'[y] = scan[y]
      /\ scan'[x].app = {}
  BY <1>1, <1>2, <1>3, OffMeta
<1>5. info'.end = IF Scheduled(x) THEN scan[x].end ELSE info.end
  BY <1>2 DEF UpdateWorkflowInfo, Scheduled
<1>6. \A y \in Exec : ~Storing(y) BY <1>2, <1>4 DEF Active
<1>7. ASSUME NEW e \in Event, Covered(e)' PROVE Covered(e)
  <2>1. DayOf[e] < info'.end BY <1>4, <1>7 DEF Covered
  <2>. QED BY <1>1, <1>5, <2>1 DEF Covered
<1>8. loaded \in SUBSET Event BY <1>3, ScanTypes DEF ScanInv
<1>9. \A a \in App : Kept(a)' \subseteq Kept(a) BY <1>1, <1>7, <1>8 DEF Kept
<1>10. \A a \in App : Merging(a) = {} /\ Pending(a) = {}
  BY <1>1, <1>4, <1>6 DEF Merging, Pending, Scheduled
<1>11. ASSUME NEW a \in App PROVE Owed(a) \subseteq Owed(a)'
  <2>1. CASE Scheduled(x) BY <1>1, <2>1 DEF Owed
  <2>2. CASE ~Scheduled(x) BY <1>1, <1>4, <1>5, <2>2 DEF Owed
  <2>. QED BY <2>1, <2>2
<1>12. \A a \in App : (Whole(a)' <=> Whole(a)) /\ (ByHand(a)' <=> ByHand(a))
  BY <1>1 DEF Whole, ByHand
<1>13. \A a \in App : Unsettled(a) \subseteq Unsettled(a)'
  BY <1>10, <1>11, <1>12 DEF Unsettled
<1>14. ItemsInv' /\ StoresInv'
  BY <1>1, <1>4, <1>9, <1>12, <1>13, Loosened DEF MetaInv
<1>. QED BY <1>3, <1>4, <1>14, IdleExecs

\* An execution fails: the rows of a store it gives up are owed to the next scan.
LEMMA FailsMeta ==
    ASSUME MetaInv, NEW x \in Exec, ExecutionFails(x)
    PROVE  Execs' /\ ItemsInv' /\ StoresInv'
<1>1. /\ scan' = [scan EXCEPT ![x] = Off]
      /\ torn' = IF Storing(x) THEN torn \cup (scan[x].app \X {scan[x].manual}) ELSE torn
      /\ UNCHANGED <<jobDay, loaded, info, found, meta, late>>
  BY DEF ExecutionFails
<1>2. CASE ~Active(x)
  <2>1. torn' = torn BY <1>1, <1>2 DEF Active
  <2>2. Off.app = {} /\ Off.step = "off" /\ Off \in ScanRecord BY OffTyped DEF Off
  <2>3. Called(x) = {} BY <1>2 DEF Called, Active
  <2>4. calls' = calls BY <2>3 DEF ExecutionFails
  <2>5. UNCHANGED <<jobDay, loaded, info, found, calls, meta, late, torn>> BY <1>1, <2>1, <2>4
  <2>. QED BY <1>1, <1>2, <2>2, <2>5, WaitsMeta
<1>3. CASE Active(x)
  <2>1. ScanInv /\ Execs /\ Execution(x) BY DEF MetaInv, Execs
  <2>2. /\ \A y \in Exec : ~Active(y)' /\ ~Storing(y)' /\ ~Scheduled(y)'
        /\ \A y \in Exec : Active(y) => y = x
        /\ \A y \in Exec : y # x => scan'[y] = scan[y]
        /\ scan'[x].app = {}
    BY <1>1, <1>3, <2>1, OffMeta
  <2>3. loaded \in SUBSET Event BY <2>1, ScanTypes DEF ScanInv
  <2>4. \A e \in Event : Covered(e)' => Covered(e) BY <1>1, <2>2 DEF Covered
  <2>5. \A a \in App : Kept(a)' \subseteq Kept(a) BY <1>1, <2>3, <2>4 DEF Kept
  <2>6. \A a \in App : Owed(a) \subseteq Owed(a)' BY <1>1, <2>2 DEF Owed
  <2>7. torn \subseteq torn' BY <1>1
  <2>8. \A a \in App : (Whole(a)' => Whole(a)) /\ (~ByHand(a)' => ~ByHand(a))
    BY <2>7 DEF Whole, ByHand
  <2>9. ASSUME NEW a \in App, ~ByHand(a)' PROVE Unsettled(a) \subseteq Unsettled(a)'
    <3>3. ASSUME Scheduled(x), Filled(x), scan[x].app = {a}, NEW e \in found[a]
          PROVE  e \in Owed(a)'
      <4>1. /\ e \in loaded /\ AppOf[e] = a
            /\ scan[x].start <= DayOf[e] /\ DayOf[e] < scan[x].end
        BY <2>1, <3>3 DEF Execution, Tables
      <4>2. scan[x].start = info.end /\ scan[x].end <= jobDay
        BY <2>1, <3>3 DEF Execution
      <4>3. DayOf[e] < jobDay BY <2>1, <2>3, <4>1, <4>2, ExecTyped
      <4>. QED BY <1>1, <2>2, <4>1, <4>2, <4>3 DEF Owed
    <3>4. Pending(a) \subseteq Owed(a)'
      BY <2>2, <3>3 DEF Pending, Scheduled, Filled
    <3>1. CASE Storing(x) /\ scan[x].app = {a}
      <4>1. scan[x] \in ScanRecord /\ scan[x].manual \in BOOLEAN
        BY <2>1, ExecTyped, ScanFields
      <4>2. <<a, scan[x].manual>> \in torn' BY <1>1, <3>1
      <4>3. ~scan[x].manual /\ ~Whole(a)'
        <5>1. CASE scan[x].manual = TRUE BY <2>9, <4>2, <5>1 DEF ByHand
        <5>2. CASE scan[x].manual = FALSE
          <6>1. <<a, FALSE>> \in torn' /\ <<a, FALSE>> \in {a} \X BOOLEAN BY <4>2, <5>2
          <6>2. ~Whole(a)' BY <6>1 DEF Whole
          <6>. QED BY <5>2, <6>2
        <5>. QED BY <4>1, <5>1, <5>2
      <4>4. Scheduled(x) BY <1>3, <4>3 DEF Scheduled
      <4>5. scan[x].rows = found[a] /\ Filled(x)
        BY <2>1, <3>1 DEF Execution, Storing, Filled
      <4>6. Merging(a) \subseteq scan[x].rows BY <2>2 DEF Merging, Active
      <4>7. scan[x].rows \subseteq Owed(a)' BY <3>1, <3>3, <4>4, <4>5
      <4>. QED BY <2>6, <3>4, <4>3, <4>6, <4>7 DEF Unsettled
    <3>2. CASE ~(Storing(x) /\ scan[x].app = {a})
      <4>1. Merging(a) = {} BY <2>2, <3>2 DEF Merging, Active
      <4>. QED BY <2>6, <2>8, <3>4, <4>1 DEF Unsettled
    <3>. QED BY <3>1, <3>2
  <2>10. ItemsInv' /\ StoresInv'
    BY <1>1, <2>2, <2>5, <2>8, <2>9, Loosened DEF MetaInv
  <2>. QED BY <2>1, <2>2, <2>10, IdleExecs
<1>. QED BY <1>2, <1>3

\* A store goes on with what it has of the application: only its items and
\* drafts change.
Alike(r, s) ==
    /\ s.step = r.step /\ s.manual = r.manual /\ s.start = r.start /\ s.end = r.end
    /\ s.todo = r.todo /\ s.app = r.app /\ s.rows = r.rows

\* What has to be there and what is unsettled stay the same in a store that goes on.
LEMMA AlikeSets ==
    ASSUME MetaInv, NEW x \in Exec, NEW r \in ScanRecord, scan' = [scan EXCEPT ![x] = r],
           Alike(scan[x], r), UNCHANGED <<jobDay, loaded, info, found, calls, late>>
    PROVE  /\ Execs'
           /\ \A a \in App : /\ Kept(a)' = Kept(a) /\ Merging(a)' = Merging(a)
                             /\ Owed(a)' = Owed(a) /\ Pending(a)' = Pending(a)
           /\ scan'[x] = r /\ \A y \in Exec \ {x} : scan'[y] = scan[y]
           /\ \A y \in Exec : Storing(y)' <=> Storing(y)
<1>1. scan \in [Exec -> ScanRecord] BY ScanTypes DEF MetaInv, ScanInv
<1>2. scan'[x] = r /\ \A y \in Exec \ {x} : scan'[y] = scan[y] BY <1>1
<1>3. \A y \in Exec : Alike(scan[y], scan'[y]) BY <1>2 DEF Alike
<1>4. \A y \in Exec : (Storing(y)' <=> Storing(y)) /\ (Scheduled(y)' <=> Scheduled(y))
  BY <1>3 DEF Alike, Storing, Active, Scheduled
<1>5. \A e \in Event : Covered(e)' <=> Covered(e) BY <1>3, <1>4 DEF Covered, Alike
<1>6. loaded \in SUBSET Event BY ScanTypes DEF MetaInv, ScanInv
<1>7. \A a \in App : Kept(a)' = Kept(a) BY <1>5, <1>6 DEF Kept
<1>8. \A a \in App : Owed(a)' = Owed(a) BY <1>3, <1>4 DEF Owed, Alike
<1>9. ASSUME NEW a \in App PROVE Merging(a)' = Merging(a)
  <2>1. {y \in Exec : Storing(y)' /\ scan'[y].app = {a}}
        = {y \in Exec : Storing(y) /\ scan[y].app = {a}}
    BY <1>3, <1>4 DEF Alike
  <2>. QED BY <1>3, <2>1 DEF Merging, Alike
<1>10. \A a \in App : Pending(a)' = Pending(a) BY <1>3, <1>4 DEF Pending, Alike
<1>12. ASSUME NEW y \in Exec PROVE Execution(y)'
  <2>1. Execution(y) /\ Alike(scan[y], scan'[y]) BY <1>3 DEF MetaInv, Execs
  <2>2. \A a \in scan[y].app : Tables(y, a) => Tables(y, a)'
    BY <1>4, <2>1 DEF Tables, Alike
  <2>. QED BY <1>4, <2>1, <2>2 DEF Execution, Filled, Alike
<1>13. Execs' BY <1>12 DEF Execs
<1>. QED BY <1>2, <1>4, <1>7, <1>8, <1>9, <1>10, <1>13

\* A store that goes on keeps the invariant if it does for its own application.
LEMMA StoreMeta ==
    ASSUME MetaInv, NEW x \in Exec, NEW a \in App, NEW r \in ScanRecord,
           Storing(x), scan[x].app = {a},
           scan' = [scan EXCEPT ![x] = r], Alike(scan[x], r),
           UNCHANGED <<jobDay, loaded, info, found, calls, late, torn>>,
           \A b \in App \ {a} : meta'[b] = meta[b],
           Sorted(r),
           ~ByHand(a) => /\ Items(meta'[a], Unsettled(a), Kept(a), Whole(a))
                         /\ Merges(r, meta'[a], Kept(a), Whole(a)),
           Whole(a) => Agree(r, meta'[a])
    PROVE  Execs' /\ ItemsInv' /\ StoresInv'
<1>1. /\ Execs'
      /\ \A b \in App : /\ Kept(b)' = Kept(b) /\ Unsettled(b)' = Unsettled(b)
                        /\ Whole(b)' <=> Whole(b)
                        /\ ByHand(b)' <=> ByHand(b)
      /\ scan'[x] = r /\ \A y \in Exec \ {x} : scan'[y] = scan[y]
      /\ \A y \in Exec : Storing(y)' <=> Storing(y)
  BY AlikeSets DEF Unsettled, Whole, ByHand
<1>2. \A y \in Exec : Storing(y) => y = x BY DEF MetaInv, ScanInv, OneScan, Active
<1>3. ASSUME NEW b \in App, ~ByHand(b)'
      PROVE  Items(meta'[b], Unsettled(b)', Kept(b)', Whole(b)')
  <2>1. CASE b = a
    <3>1. Items(meta'[a], Unsettled(a), Kept(a), Whole(a)) BY <1>1, <1>3, <2>1
    <3>. QED BY <1>1, <2>1, <3>1, ItemsLoosened
  <2>2. CASE b # a
    <3>1. Items(meta'[b], Unsettled(b), Kept(b), Whole(b))
      BY <1>1, <1>3, <2>2 DEF MetaInv, ItemsInv
    <3>. QED BY <1>1, <3>1, ItemsLoosened
  <2>. QED BY <2>1, <2>2
<1>4. ItemsInv' BY <1>3 DEF ItemsInv
<1>5. ASSUME ~ByHand(a)' PROVE Merges(r, meta'[a], Kept(a)', Whole(a)')
  <2>1. Merges(r, meta'[a], Kept(a), Whole(a)) BY <1>1, <1>5
  <2>. QED BY <1>1, <2>1, MergesLoosened
<1>6. r.app = {a} BY DEF Alike
<1>7. StoresInv' BY <1>1, <1>2, <1>5, <1>6 DEF StoresInv
<1>. QED BY <1>1, <1>4, <1>7

\* An application of which no store was given up was not given up by hand.
LEMMA WholeIsNotByHand ==
    ASSUME NEW a \in App, Whole(a)
    PROVE  ~ByHand(a)
<1>1. <<a, TRUE>> \in {a} \X BOOLEAN OBVIOUS
<1>. QED BY <1>1 DEF Whole, ByHand

\* What holds of the store that goes on.
LEMMA StoreHas ==
    ASSUME MetaInv, NEW x \in Exec, NEW a \in App, Storing(x), scan[x].app = {a}
    PROVE  /\ scan[x] \in ScanRecord /\ Sorted(scan[x]) /\ meta[a] \in [Keys -> Item]
           /\ Kept(a) \in SUBSET Event /\ Unsettled(a) \in SUBSET Event
           /\ Merging(a) = scan[x].rows /\ scan[x].rows \subseteq Unsettled(a)
           /\ Whole(a) => Unsettled(a) = scan[x].rows
           /\ ~ByHand(a) => /\ Items(meta[a], Unsettled(a), Kept(a), Whole(a))
                            /\ Merges(scan[x], meta[a], Kept(a), Whole(a))
           /\ Whole(a) => Agree(scan[x], meta[a]) /\ ~ByHand(a)
<1>1. /\ scan[x] \in ScanRecord /\ meta \in [App -> [Keys -> Item]]
      /\ Kept(a) \in SUBSET Event /\ Unsettled(a) \in SUBSET Event
  BY ScanTypes, SetsTyped DEF MetaInv, ScanInv
<1>2. Merging(a) = scan[x].rows
  <2>1. {y \in Exec : Storing(y) /\ scan[y].app = {a}} = {x}
    BY DEF MetaInv, ScanInv, OneScan, Active
  <2>. QED BY <2>1 DEF Merging
<1>3. scan[x].rows \subseteq Unsettled(a) /\ (Whole(a) => Unsettled(a) = scan[x].rows)
  BY <1>2 DEF Unsettled
<1>4. Whole(a) => ~ByHand(a) BY WholeIsNotByHand
<1>5. Sorted(scan[x]) /\ (Whole(a) => Agree(scan[x], meta[a]))
  BY DEF MetaInv, StoresInv
<1>6. ~ByHand(a) => Merges(scan[x], meta[a], Kept(a), Whole(a)) BY DEF MetaInv, StoresInv
<1>7. ~ByHand(a) => Items(meta[a], Unsettled(a), Kept(a), Whole(a)) BY DEF MetaInv, ItemsInv
<1>. QED BY <1>1, <1>2, <1>3, <1>4, <1>5, <1>6, <1>7

\* What the items of an application tell, by item.
LEMMA SeenStays ==
    ASSUME NEW a \in App, NEW rows,
           Stays(meta[a], meta'[a], rows)
    PROVE  (Seen(a) \ rows) \subseteq Seen(a)'
  BY DEF Seen, Stays

\* The first row of a store.
LEMMA StoreRowMeta ==
    ASSUME MetaInv, NEW x \in Exec, NEW a \in App, NEW d \in Days, StoreRow(x, a, d)
    PROVE  /\ Execs' /\ ItemsInv' /\ StoresInv'
           /\ Whole(a) => (Seen(a) \ Merging(a)) \subseteq Seen(a)'
           /\ \A b \in App \ {a} : meta'[b] = meta[b]
<1>1. /\ Storing(x) /\ scan[x].app = {a}
      /\ UNCHANGED <<jobDay, loaded, info, found, calls, late, torn>>
  BY DEF StoreRow, Storing, tableVars
<1>2. /\ scan[x] \in ScanRecord /\ Sorted(scan[x]) /\ meta[a] \in [Keys -> Item]
      /\ Kept(a) \in SUBSET Event /\ Unsettled(a) \in SUBSET Event
      /\ Merging(a) = scan[x].rows /\ scan[x].rows \subseteq Unsettled(a)
      /\ ~ByHand(a) => /\ Items(meta[a], Unsettled(a), Kept(a), Whole(a))
                       /\ Merges(scan[x], meta[a], Kept(a), Whole(a))
      /\ Whole(a) => Agree(scan[x], meta[a]) /\ ~ByHand(a)
  BY <1>1, StoreHas
<1>3. PICK m, top, key, marked :
        /\ m = Month(d) /\ top = Top(meta[a])
        /\ key = IF m < top THEN m ELSE Latest
        /\ marked = IF m < top THEN top ELSE m
  OBVIOUS
<1>4. top \in Months \cup {Never} BY <1>2, <1>3, KeysTyped DEF Top, Item
<1>5. m \in Months /\ key \in Keys /\ marked \in Months \cup {Never}
  BY <1>3, <1>4, MonthTyped, KeysTyped
<1>6. PICK left, drafts, old, draft :
        /\ left = scan[x].left \ {d} /\ old = scan[x].drafts
        /\ draft = Draft(x, m, d, key)
        /\ drafts = [old EXCEPT ![m] = draft]
  OBVIOUS
<1>7. left \in SUBSET Days /\ old \in [Months -> DraftRecord] BY <1>2, <1>6, ScanFields
<1>8. draft \in DraftRecord BY <1>5, <1>6, DraftTyped DEF MetaInv, ScanInv
<1>9. PICK s, r : /\ s = scan[x]
                  /\ r = [s EXCEPT !.left = left, !.marked = marked, !.drafts = drafts]
  OBVIOUS
<1>10. /\ r \in ScanRecord /\ Alike(s, r) /\ r.new = s.new
       /\ r.left = left /\ r.marked = marked /\ r.drafts = drafts
  BY <1>2, <1>5, <1>6, <1>7, <1>8, <1>9 DEF ScanRecord, Alike
<1>11. scan' = [scan EXCEPT ![x] = r]
  BY <1>2, <1>3, <1>6, <1>9, ScanTypes DEF StoreRow, ScanRecord, Top, MetaInv, ScanInv
<1>12. FirstRow(s, r, d, top)
  <2>1. d \in s.left /\ s.marked = Never BY <1>9 DEF StoreRow
  <2>2. r.drafts[m] = draft /\ \A n \in Months \ {m} : r.drafts[n] = s.drafts[n]
    BY <1>5, <1>6, <1>7, <1>8, <1>9, <1>10
  <2>3. /\ draft.key = key
        /\ draft.seen = s.drafts[m].seen \cup {e \in s.rows : DayOf[e] = d}
    BY <1>6, <1>9 DEF Draft
  <2>4. RowMerged(s, r, d, key)
    BY <1>3, <1>6, <1>9, <1>10, <2>1, <2>2, <2>3 DEF RowMerged, Alike
  <2>. QED BY <1>3, <1>10, <2>1, <2>2, <2>4 DEF FirstRow
<1>13. meta \in [App -> [Keys -> Item]] BY ScanTypes DEF MetaInv, ScanInv
<1>14. LatestCopied(meta[a], meta'[a], Month(d)) /\ \A b \in App \ {a} : meta'[b] = meta[b]
  <2>1. meta' = IF top # Never /\ top < m
                THEN [meta EXCEPT ![a][top] = meta[a][Latest]] ELSE meta
    BY <1>3 DEF StoreRow, Top
  <2>2. CASE top # Never /\ top < m
    <3>1. meta'[a] = [meta[a] EXCEPT ![top] = meta[a][Latest]]
      BY <1>13, <2>1, <2>2
    <3>2. \A b \in App \ {a} : meta'[b] = meta[b] BY <1>13, <2>1, <2>2
    <3>. QED BY <1>3, <2>2, <3>1, <3>2 DEF LatestCopied
  <2>3. CASE ~(top # Never /\ top < m) BY <1>3, <2>1, <2>3 DEF LatestCopied
  <2>. QED BY <2>2, <2>3
<1>15. PICK items : items = meta'[a] OBVIOUS
<1>16. Sorted(r) BY <1>2, <1>4, <1>9, <1>10, <1>12, FirstRowSorted
<1>17. ASSUME ~ByHand(a)
       PROVE  /\ Items(items, Unsettled(a), Kept(a), Whole(a))
              /\ Merges(r, items, Kept(a), Whole(a))
  <2>1. \E e \in Unsettled(a) : MonthOf(e) = m
    BY <1>2, <1>3, <1>9, <1>12 DEF FirstRow, RowMerged, Sorted, MonthOf
  <2>2. Items(items, Unsettled(a), Kept(a), Whole(a))
    BY <1>2, <1>3, <1>5, <1>14, <1>15, <1>17, <2>1, FirstRowItems
  <2>3. Merges(r, items, Kept(a), Whole(a))
    BY <1>2, <1>3, <1>9, <1>10, <1>12, <1>14, <1>15, <1>17, FirstRowMerges
  <2>. QED BY <2>2, <2>3
<1>18. ASSUME Whole(a)
       PROVE  Agree(r, items) /\ Stays(meta[a], items, scan[x].rows)
  <2>1. /\ Placed(meta[a], Unsettled(a)) /\ ReadFirst(s, meta[a]) /\ Agree(s, meta[a])
    BY <1>2, <1>9, <1>18 DEF Items, Merges
  <2>2. FirstRow(s, r, d, Top(meta[a])) /\ LatestCopied(meta[a], items, Month(d))
    BY <1>3, <1>12, <1>14, <1>15
  <2>. QED BY <1>2, <1>9, <1>10, <2>1, <2>2, FirstRowAgree
<1>19. Execs' /\ ItemsInv' /\ StoresInv'
  BY <1>1, <1>9, <1>10, <1>11, <1>14, <1>15, <1>16, <1>17, <1>18, StoreMeta
<1>20. Whole(a) => (Seen(a) \ Merging(a)) \subseteq Seen(a)'
  BY <1>2, <1>15, <1>18, SeenStays
<1>. QED BY <1>14, <1>19, <1>20

\* Any other row.
LEMMA NextRowMeta ==
    ASSUME MetaInv, NEW x \in Exec, NEW a \in App, NEW d \in Days, StoreNextRow(x, a, d)
    PROVE  Execs' /\ ItemsInv' /\ StoresInv'
<1>1. /\ Storing(x) /\ scan[x].app = {a}
      /\ UNCHANGED <<jobDay, loaded, info, found, calls, meta, late, torn>>
  BY DEF StoreNextRow, Storing, tableVars
<1>2. /\ scan[x] \in ScanRecord /\ Sorted(scan[x]) /\ meta[a] \in [Keys -> Item]
      /\ Kept(a) \in SUBSET Event
      /\ ~ByHand(a) => /\ Items(meta[a], Unsettled(a), Kept(a), Whole(a))
                       /\ Merges(scan[x], meta[a], Kept(a), Whole(a))
      /\ Whole(a) => Agree(scan[x], meta[a]) /\ ~ByHand(a)
  BY <1>1, StoreHas
<1>3. PICK m, last, old, key, marked :
        /\ m = Month(d) /\ last = scan[x].marked /\ old = scan[x].drafts
        /\ key = IF m < last THEN m ELSE Latest
        /\ marked = IF m < last THEN last ELSE m
  OBVIOUS
<1>4. last \in Months /\ old \in [Months -> DraftRecord]
  BY <1>2, <1>3, ScanFields DEF StoreNextRow
<1>5. m \in Months /\ key \in Keys /\ marked \in Months \cup {Never}
  BY <1>3, <1>4, MonthTyped, KeysTyped
<1>6. PICK left, moved, draft, drafts :
        /\ left = scan[x].left \ {d}
        /\ moved = IF m > last THEN [old EXCEPT ![last].key = last] ELSE old
        /\ draft = Draft(x, m, d, key)
        /\ drafts = [moved EXCEPT ![m] = draft]
  OBVIOUS
<1>7. left \in SUBSET Days /\ draft \in DraftRecord
  BY <1>2, <1>5, <1>6, ScanFields, DraftTyped DEF MetaInv, ScanInv
<1>8. /\ moved \in [Months -> DraftRecord]
      /\ \A n \in Months : /\ moved[n].seen = old[n].seen
                           /\ moved[n].key = IF n = last /\ last < m THEN n ELSE old[n].key
  <2>1. old[last] \in DraftRecord BY <1>4
  <2>2. PICK fixed : fixed = [old[last] EXCEPT !.key = last] OBVIOUS
  <2>3. fixed \in DraftRecord /\ fixed.key = last /\ fixed.seen = old[last].seen
    BY <1>4, <2>1, <2>2, KeysTyped DEF DraftRecord
  <2>4. last < m <=> m > last BY <1>4, <1>5, MonthsAndKeys
  <2>5. CASE m > last
    <3>1. moved = [old EXCEPT ![last] = fixed] BY <1>6, <2>2, <2>5
    <3>2. /\ moved \in [Months -> DraftRecord] /\ moved[last] = fixed
          /\ \A n \in Months \ {last} : moved[n] = old[n]
      BY <1>4, <2>3, <3>1
    <3>. QED BY <2>3, <2>4, <2>5, <3>2
  <2>6. CASE ~(m > last) BY <1>4, <1>6, <2>4, <2>6
  <2>. QED BY <2>5, <2>6
<1>9. /\ drafts \in [Months -> DraftRecord] /\ drafts[m] = draft
      /\ \A n \in Months \ {m} : drafts[n] = moved[n]
  BY <1>5, <1>6, <1>7, <1>8
<1>10. PICK s, r : /\ s = scan[x]
                   /\ r = [s EXCEPT !.left = left, !.marked = marked, !.drafts = drafts]
  OBVIOUS
<1>11. /\ r \in ScanRecord /\ Alike(s, r) /\ r.new = s.new
       /\ r.left = left /\ r.marked = marked /\ r.drafts = drafts
  BY <1>2, <1>5, <1>7, <1>9, <1>10 DEF ScanRecord, Alike
<1>12. scan' = [scan EXCEPT ![x] = r]
  BY <1>2, <1>3, <1>6, <1>10, ScanTypes DEF StoreNextRow, ScanRecord, MetaInv, ScanInv
<1>13. NextRow(s, r, d)
  <2>1. d \in s.left /\ s.marked = last /\ last # Never BY <1>3, <1>10 DEF StoreNextRow
  <2>2. last < m => Draws(s, last)
    <3>1. m > last => scan[x].drafts[last] # NoDraft BY <1>3 DEF StoreNextRow
    <3>. QED BY <1>4, <1>5, <1>10, <3>1, MonthsAndKeys DEF Draws
  <2>3. /\ draft.key = key
        /\ draft.seen = s.drafts[m].seen \cup {e \in s.rows : DayOf[e] = d}
    BY <1>6, <1>10 DEF Draft
  <2>4. RowMerged(s, r, d, key)
    BY <1>3, <1>6, <1>9, <1>10, <1>11, <2>1, <2>3 DEF RowMerged, Alike
  <2>5. \A n \in Months \ {m} :
           /\ r.drafts[n].seen = s.drafts[n].seen
           /\ r.drafts[n].key = IF n = last /\ last < m THEN n ELSE s.drafts[n].key
    BY <1>3, <1>8, <1>9, <1>10, <1>11
  <2>. QED BY <1>3, <1>11, <2>1, <2>2, <2>4, <2>5 DEF NextRow
<1>14. s \in ScanRecord /\ Sorted(s) BY <1>2, <1>10
<1>15. Sorted(r) BY <1>11, <1>13, <1>14, NextRowSorted
<1>16. ASSUME ~ByHand(a) PROVE Merges(r, meta[a], Kept(a), Whole(a))
  <2>1. Items(meta[a], Unsettled(a), Kept(a), Whole(a))
        /\ Merges(s, meta[a], Kept(a), Whole(a))
    BY <1>2, <1>10, <1>16
  <2>. QED BY <1>2, <1>11, <1>13, <1>14, <2>1, NextRowMerges
<1>17. ASSUME Whole(a) PROVE Agree(r, meta[a])
  <2>1. ReadFirst(s, meta[a]) /\ Agree(s, meta[a]) BY <1>2, <1>10, <1>17 DEF Merges
  <2>. QED BY <1>11, <1>13, <1>14, <2>1, NextRowAgree
<1>. QED BY <1>1, <1>2, <1>10, <1>11, <1>12, <1>15, <1>16, <1>17, StoreMeta

\* A batch.
LEMMA BatchMeta ==
    ASSUME MetaInv, NEW x \in Exec, NEW a \in App, NEW m \in Months, BatchWrite(x, a, m)
    PROVE  /\ Execs' /\ ItemsInv' /\ StoresInv'
           /\ Whole(a) => (Seen(a) \ Merging(a)) \subseteq Seen(a)'
           /\ \A b \in App \ {a} : meta'[b] = meta[b]
<1>1. /\ Storing(x) /\ scan[x].app = {a}
      /\ UNCHANGED <<jobDay, loaded, info, found, calls, late, torn>>
  BY DEF BatchWrite, Storing, tableVars
<1>2. /\ scan[x] \in ScanRecord /\ Sorted(scan[x]) /\ meta[a] \in [Keys -> Item]
      /\ Kept(a) \in SUBSET Event /\ Unsettled(a) \in SUBSET Event
      /\ Merging(a) = scan[x].rows /\ scan[x].rows \subseteq Unsettled(a)
      /\ Whole(a) => Unsettled(a) = scan[x].rows
      /\ ~ByHand(a) => /\ Items(meta[a], Unsettled(a), Kept(a), Whole(a))
                       /\ Merges(scan[x], meta[a], Kept(a), Whole(a))
      /\ Whole(a) => Agree(scan[x], meta[a]) /\ ~ByHand(a)
  BY <1>1, StoreHas
<1>3. PICK s, r, drafts, new :
        /\ s = scan[x] /\ drafts = [s.drafts EXCEPT ![m] = NoDraft] /\ new = s.new \ {m}
        /\ r = [s EXCEPT !.drafts = drafts, !.new = new]
  OBVIOUS
<1>4. s \in ScanRecord /\ s.drafts \in [Months -> DraftRecord] /\ new \in SUBSET Months
  BY <1>2, <1>3, ScanFields
<1>5. NoDraft \in DraftRecord BY DEF NoDraft, DraftRecord
<1>6. drafts \in [Months -> DraftRecord] BY <1>3, <1>4, <1>5
<1>7. /\ r \in ScanRecord /\ Alike(s, r) /\ r.new = new /\ r.drafts = drafts
      /\ r.left = s.left /\ r.marked = s.marked
  BY <1>3, <1>4, <1>6 DEF ScanRecord, Alike
<1>8. scan' = [scan EXCEPT ![x] = r]
  BY <1>2, <1>3, ScanTypes DEF BatchWrite, ScanRecord, MetaInv, ScanInv
<1>9. meta \in [App -> [Keys -> Item]] BY ScanTypes DEF MetaInv, ScanInv
<1>10. PICK items : items = meta'[a] OBVIOUS
<1>11. /\ items = [meta[a] EXCEPT ![s.drafts[m].key] =
                      [origin |-> m, seen |-> s.drafts[m].seen]]
       /\ \A b \in App \ {a} : meta'[b] = meta[b]
  BY <1>3, <1>9, <1>10 DEF BatchWrite
<1>12. Written(s, r, meta[a], items, m)
  <2>1. s.left = {} /\ s.drafts[m] # NoDraft
        /\ (m \in s.new => s.new = {n \in Months : s.drafts[n] # NoDraft})
    BY <1>3 DEF BatchWrite
  <2>. QED BY <1>3, <1>7, <1>11, <2>1 DEF Written, Draws, Alike
<1>13. Sorted(s) BY <1>2, <1>3
<1>14. Sorted(r) BY <1>4, <1>7, <1>12, <1>13, WrittenSorted
<1>15. ASSUME ~ByHand(a)
       PROVE  /\ Items(items, Unsettled(a), Kept(a), Whole(a))
              /\ Merges(r, items, Kept(a), Whole(a))
  <2>1. /\ Items(meta[a], Unsettled(a), Kept(a), Whole(a))
        /\ Merges(s, meta[a], Kept(a), Whole(a))
    BY <1>2, <1>3, <1>15
  <2>2. s.rows \subseteq Unsettled(a) /\ (Whole(a) => Unsettled(a) = s.rows)
    BY <1>2, <1>3
  <2>3. Items(items, Unsettled(a), Kept(a), Whole(a))
    BY <1>2, <1>4, <1>7, <1>12, <1>13, <2>1, <2>2, WrittenItems
  <2>4. Merges(r, items, Kept(a), Whole(a))
    BY <1>2, <1>4, <1>7, <1>12, <1>13, <2>1, WrittenMerges
  <2>. QED BY <2>3, <2>4
<1>16. ASSUME Whole(a)
       PROVE  Agree(r, items) /\ Stays(meta[a], items, s.rows)
  <2>1. /\ Items(meta[a], Unsettled(a), Kept(a), TRUE) /\ Merges(s, meta[a], Kept(a), TRUE)
        /\ Agree(s, meta[a])
    BY <1>2, <1>3, <1>16, ItemsLoosened, MergesLoosened
  <2>. QED BY <1>2, <1>4, <1>7, <1>12, <1>13, <2>1, WrittenAgree
<1>17. Execs' /\ ItemsInv' /\ StoresInv'
  BY <1>1, <1>3, <1>7, <1>8, <1>10, <1>11, <1>14, <1>15, <1>16, StoreMeta
<1>18. Whole(a) => (Seen(a) \ Merging(a)) \subseteq Seen(a)'
  BY <1>2, <1>3, <1>10, <1>16, SeenStays
<1>. QED BY <1>11, <1>17, <1>18

\* What a store begins with.
LEMMA BeginsFresh ==
    ASSUME ScanTypeOK, NEW x \in Exec, NEW a \in App, NEW rows \in SUBSET Event,
           \A e \in rows : DayOf[e] \in Days,
           NEW r, r = StoreBegins(x, a, rows)
    PROVE  /\ r \in ScanRecord /\ r.step = "rows" /\ r.app = {a} /\ r.rows = rows
           /\ r.manual = scan[x].manual /\ r.todo = scan[x].todo
           /\ r.start = scan[x].start /\ r.end = scan[x].end
           /\ Fresh(r, meta[a])
<1>1. scan[x] \in ScanRecord /\ r \in ScanRecord BY ScanTypes, StoreBeginsTyped
<1>2. /\ r.step = "rows" /\ r.app = {a} /\ r.rows = rows
      /\ r.manual = scan[x].manual /\ r.todo = scan[x].todo
      /\ r.start = scan[x].start /\ r.end = scan[x].end
  BY <1>1 DEF StoreBegins, ScanRecord
<1>3. /\ r.left = {DayOf[e] : e \in rows} /\ r.drafts = Existing(a, rows)
      /\ r.new = New(a, rows) /\ r.marked = Never
  BY <1>1 DEF StoreBegins, ScanRecord
<1>4. r.new = {m \in {MonthOf(e) : e \in r.rows} : ~HasMonth(meta[a], m)}
  BY <1>2, <1>3 DEF New, MonthOf, HasMonth
<1>5. ASSUME NEW m \in Months
      PROVE  /\ Draws(r, m) <=> HasMonth(meta[a], m) /\ \E e \in r.rows : MonthOf(e) = m
             /\ Draws(r, m) => \E k \in Keys : /\ meta[a][k].origin = m
                                               /\ r.drafts[m].seen = meta[a][k].seen
  BY <1>2, <1>3, ReadDrafts DEF Draws
<1>. QED BY <1>1, <1>2, <1>3, <1>4, <1>5 DEF Fresh

\* What was read is sorted, whatever the items are.
LEMMA FreshSorted ==
    ASSUME NEW items \in [Keys -> Item], NEW r \in ScanRecord, Fresh(r, items),
           \A e \in r.rows : DayOf[e] \in Days
    PROVE  Sorted(r)
<1>1. Holds(items, {}) BY DEF Holds
<1>. QED BY <1>1, FreshMerges

\* The store function is invoked again, over what its last invocation wrote.
LEMMA RepeatsMeta ==
    ASSUME MetaInv, NEW x \in Exec, NEW a \in App, StoreRepeats(x, a)
    PROVE  Execs' /\ ItemsInv' /\ StoresInv'
<1>1. /\ Storing(x) /\ scan[x].app = {a}
      /\ UNCHANGED <<jobDay, loaded, info, found, calls, meta, late, torn>>
  BY DEF StoreRepeats, tableVars
<1>2. /\ scan[x] \in ScanRecord /\ meta[a] \in [Keys -> Item] /\ Kept(a) \in SUBSET Event
      /\ ~ByHand(a) => Items(meta[a], Unsettled(a), Kept(a), Whole(a))
      /\ Whole(a) => Agree(scan[x], meta[a])
  BY <1>1, StoreHas
<1>3. PICK rows, r : rows = scan[x].rows /\ r = StoreBegins(x, a, rows) OBVIOUS
<1>4. rows \in SUBSET Event /\ (\A e \in rows : DayOf[e] \in Days) /\ ScanTypeOK
  BY <1>2, <1>3, ScanFields DEF MetaInv, ScanInv, RowsInDays
<1>5. /\ r \in ScanRecord /\ r.step = "rows" /\ r.app = {a} /\ r.rows = rows
      /\ r.manual = scan[x].manual /\ r.todo = scan[x].todo
      /\ r.start = scan[x].start /\ r.end = scan[x].end
      /\ Fresh(r, meta[a])
  BY <1>3, <1>4, BeginsFresh
<1>6. Alike(scan[x], r) BY <1>1, <1>3, <1>5 DEF Alike, Storing
<1>7. scan' = [scan EXCEPT ![x] = r]
  <2>1. found[a] = rows BY <1>1, <1>3 DEF MetaInv, Execs, Execution
  <2>. QED BY <1>3, <2>1 DEF StoreRepeats
<1>8. Sorted(r) BY <1>2, <1>4, <1>5, FreshSorted
<1>9. ASSUME ~ByHand(a) PROVE Merges(r, meta[a], Kept(a), Whole(a))
  <2>1. Holds(meta[a], Kept(a)) BY <1>2, <1>9 DEF Items
  <2>. QED BY <1>2, <1>4, <1>5, <2>1, FreshMerges
<1>10. ASSUME Whole(a) PROVE Agree(r, meta[a])
  <2>1. \A k, l \in Keys : meta[a][k].origin = meta[a][l].origin =>
            (meta[a][k].seen \ r.rows) \subseteq meta[a][l].seen
    BY <1>2, <1>3, <1>5, <1>10 DEF Agree
  <2>. QED BY <1>5, <2>1, FreshAgree
<1>. QED BY <1>1, <1>2, <1>5, <1>6, <1>7, <1>8, <1>9, <1>10, StoreMeta

\* The procedure of an application is done: its tables hold all that is owed.
LEMMA TablesMeta ==
    ASSUME MetaInv, NEW x \in Exec, NEW a \in App, ScanApp(x, a)
    PROVE  Execs' /\ ItemsInv' /\ StoresInv'
<1>1. /\ scan[x].step = "apps" /\ a \in scan[x].todo /\ \A call \in calls : call.app # a
      /\ found' = [found EXCEPT ![a] = InWindow(a, scan[x].start, scan[x].end)]
      /\ UNCHANGED <<jobDay, loaded, info, calls, meta, late, torn>>
  BY DEF ScanApp
<1>2. /\ scan[x] \in ScanRecord /\ Execution(x) /\ scan \in [Exec -> ScanRecord]
      /\ found \in [App -> SUBSET Event] /\ loaded \in SUBSET Event
  BY ScanTypes DEF MetaInv, ScanInv, Execs
<1>3. PICK s, r : s = scan[x] /\ r = [s EXCEPT !.step = "store", !.app = {a}] OBVIOUS
<1>4. /\ r.step = "store" /\ r.app = {a} /\ r.manual = s.manual /\ r.todo = s.todo
      /\ r.start = s.start /\ r.end = s.end
  BY <1>2, <1>3 DEF ScanRecord
<1>5. scan' = [scan EXCEPT ![x] = r] BY <1>2, <1>3 DEF ScanApp, ScanRecord
<1>6. scan'[x] = r /\ \A y \in Exec \ {x} : scan'[y] = scan[y] BY <1>2, <1>5
<1>7. PICK rows : rows = InWindow(a, scan[x].start, scan[x].end) OBVIOUS
<1>8. found'[a] = rows /\ \A b \in App \ {a} : found'[b] = found[b] BY <1>1, <1>2, <1>7
<1>9. /\ Active(x) /\ \A y \in Exec : Active(y) => y = x
      /\ \A y \in Exec : ~Storing(y) /\ ~Storing(y)'
      /\ \A y \in Exec : ~Filled(y) /\ (Filled(y)' <=> y = x)
  BY <1>1, <1>4, <1>6 DEF Active, Storing, Filled, MetaInv, ScanInv, OneScan
<1>10. \A y \in Exec : Scheduled(y)' <=> Scheduled(y)
  BY <1>1, <1>3, <1>4, <1>6, <1>9 DEF Active, Storing, Scheduled
<1>11. ASSUME NEW y \in Exec
       PROVE  scan'[y].todo = scan[y].todo /\ scan'[y].end = scan[y].end
  <2>1. CASE y = x BY <1>3, <1>4, <1>6, <2>1
  <2>2. CASE y # x BY <1>6, <2>2
  <2>. QED BY <2>1, <2>2
<1>12. \A b \in App : Kept(b)' = Kept(b)
  <2>1. \A e \in Event : Covered(e)' <=> Covered(e)
    BY <1>1, <1>10, <1>11 DEF Covered
  <2>. QED BY <1>1, <1>2, <2>1 DEF Kept
<1>13. \A b \in App : (Whole(b)' <=> Whole(b)) /\ (ByHand(b)' <=> ByHand(b))
  BY <1>1 DEF Whole, ByHand
<1>14. \A b \in App : Merging(b) = {} /\ Pending(b) = {}
  BY <1>9 DEF Merging, Pending, Filled
<1>15. ASSUME NEW b \in App, b # a PROVE Owed(b) \subseteq Owed(b)'
  <2>1. ASSUME NEW y \in Exec, b \in scan'[y].app PROVE b \in scan[y].app
    <3>1. y # x BY <1>4, <1>6, <1>15, <2>1
    <3>. QED BY <1>6, <2>1, <3>1
  <2>. QED BY <1>1, <1>10, <1>11, <2>1 DEF Owed
<1>16. Owed(a) \subseteq Owed(a)' \cup Pending(a)'
  <2>1. CASE Scheduled(x)
    <3>1. scan[x].start = info.end BY <1>2, <2>1 DEF Execution
    <3>2. ASSUME NEW e \in Owed(a) PROVE e \in rows
      <4>1. /\ e \in loaded /\ AppOf[e] = a /\ scan[x].start <= DayOf[e]
            /\ DayOf[e] < scan[x].end
        BY <2>1, <3>1, <3>2 DEF Owed
      <4>. QED BY <1>7, <4>1 DEF InWindow
    <3>3. Scheduled(x)' /\ scan'[x].step = "store" /\ scan'[x].app = {a}
      BY <1>4, <1>6, <1>10, <2>1
    <3>4. Pending(a)' = rows BY <1>8, <3>3 DEF Pending
    <3>. QED BY <3>2, <3>4
  <2>2. CASE ~Scheduled(x)
    <3>1. \A y \in Exec : Scheduled(y)' => Scheduled(y) /\ scan'[y] = scan[y]
      BY <1>6, <1>10, <2>2
    <3>. QED BY <1>1, <3>1 DEF Owed
  <2>. QED BY <2>1, <2>2
<1>17. ASSUME NEW b \in App PROVE Unsettled(b) \subseteq Unsettled(b)'
  <2>1. CASE b = a BY <1>13, <1>14, <1>16, <2>1 DEF Unsettled
  <2>2. CASE b # a BY <1>13, <1>14, <1>15, <2>2 DEF Unsettled
  <2>. QED BY <2>1, <2>2
<1>18. ItemsInv' /\ StoresInv' BY <1>1, <1>9, <1>12, <1>13, <1>17, Loosened DEF MetaInv
<1>19. ASSUME NEW y \in Exec PROVE Execution(y)'
  <2>1. CASE y = x
    <3>1. \A e \in rows : /\ e \in loaded /\ AppOf[e] = a
                          /\ scan[x].start <= DayOf[e] /\ DayOf[e] < scan[x].end
      BY <1>7 DEF InWindow
    <3>2. \A e \in loaded : AppOf[e] = a /\ scan[x].start <= DayOf[e]
                            /\ DayOf[e] < scan[x].end => e \in rows
      BY <1>7 DEF InWindow
    <3>3. Tables(x, a)'
      BY <1>1, <1>3, <1>4, <1>6, <1>8, <3>1, <3>2 DEF Tables
    <3>. QED BY <1>1, <1>2, <1>3, <1>4, <1>6, <1>9, <1>10, <2>1, <3>3 DEF Execution
  <2>2. CASE y # x
    <3>1. Execution(y) BY DEF MetaInv, Execs
    <3>. QED BY <1>1, <1>6, <1>9, <1>10, <2>2, <3>1 DEF Execution
  <2>. QED BY <2>1, <2>2
<1>. QED BY <1>18, <1>19 DEF Execs

\* A store begins: it has the rows of all that its procedure has found.
LEMMA BeginsMeta ==
    ASSUME MetaInv, NEW x \in Exec, NEW a \in App, StoreApp(x, a)
    PROVE  Execs' /\ ItemsInv' /\ StoresInv'
<1>1. /\ scan[x].step = "store" /\ scan[x].app = {a}
      /\ UNCHANGED <<jobDay, loaded, info, found, calls, meta, late, torn>>
  BY DEF StoreApp, tableVars
<1>2. /\ scan[x] \in ScanRecord /\ scan[x].start \in Int /\ scan[x].end \in Int
      /\ meta[a] \in [Keys -> Item]
      /\ Kept(a) \in SUBSET Event /\ ScanTypeOK /\ Execution(x) /\ scan \in [Exec -> ScanRecord]
  BY ExecTyped, ScanTypes, SetsTyped DEF MetaInv, ScanInv, Execs
<1>3. PICK rows, r : rows = found[a] /\ r = StoreBegins(x, a, rows) OBVIOUS
<1>4. rows \in SUBSET Event /\ \A e \in rows : DayOf[e] \in Days
  BY <1>3, ScanTypes DEF MetaInv, ScanInv, TablesInDays
<1>5. /\ r \in ScanRecord /\ r.step = "rows" /\ r.app = {a} /\ r.rows = rows
      /\ r.manual = scan[x].manual /\ r.todo = scan[x].todo
      /\ r.start = scan[x].start /\ r.end = scan[x].end
      /\ Fresh(r, meta[a])
  BY <1>2, <1>3, <1>4, BeginsFresh
<1>6. scan'[x] = r /\ \A y \in Exec \ {x} : scan'[y] = scan[y]
  BY <1>2, <1>3 DEF StoreApp
<1>7. /\ Active(x) /\ \A y \in Exec : Active(y) => y = x
      /\ \A y \in Exec : ~Storing(y)
      /\ \A y \in Exec : Storing(y)' <=> y = x
      /\ \A y \in Exec : (Filled(y) <=> y = x) /\ (Filled(y)' <=> y = x)
  BY <1>1, <1>5, <1>6 DEF Active, Storing, Filled, MetaInv, ScanInv, OneScan
<1>8. \A y \in Exec : Scheduled(y)' <=> Scheduled(y)
  BY <1>1, <1>5, <1>6, <1>7 DEF Active, Storing, Scheduled
<1>9. /\ Tables(x, a) /\ \A call \in calls : call.app # a
      /\ Scheduled(x) => scan[x].start = info.end /\ scan[x].end <= jobDay
  BY <1>1, <1>2, <1>7 DEF Execution
<1>10. \A e \in Event : Covered(e)' <=> Covered(e) BY <1>1, <1>5, <1>6, <1>8 DEF Covered
<1>11. loaded \in SUBSET Event BY <1>2, ScanTypes
<1>12. \A b \in App : Kept(b)' = Kept(b) BY <1>1, <1>10, <1>11 DEF Kept
<1>13. \A b \in App : (Whole(b)' <=> Whole(b)) /\ (ByHand(b)' <=> ByHand(b))
  BY <1>1 DEF Whole, ByHand
<1>14. \A b \in App : Merging(b) = {} /\ (b # a => Pending(b) = {})
  BY <1>1, <1>7 DEF Merging, Pending, Scheduled
<1>15. Merging(a)' = rows
  <2>1. {y \in Exec : Storing(y)' /\ scan'[y].app = {a}} = {x} BY <1>5, <1>6, <1>7
  <2>. QED BY <1>5, <1>6, <2>1 DEF Merging
<1>16. ASSUME NEW b \in App PROVE Owed(b) \subseteq Owed(b)'
  <2>1. \A y \in Exec : /\ scan'[y].todo = scan[y].todo /\ scan'[y].end = scan[y].end
                        /\ scan'[y].app = scan[y].app
    BY <1>1, <1>5, <1>6
  <2>. QED BY <1>1, <1>8, <2>1 DEF Owed
<1>17. Pending(a) \subseteq rows BY <1>3 DEF Pending
<1>18. ASSUME NEW b \in App PROVE Unsettled(b) \subseteq Unsettled(b)'
  <2>1. CASE b = a BY <1>13, <1>14, <1>15, <1>16, <1>17, <2>1 DEF Unsettled
  <2>2. CASE b # a BY <1>13, <1>14, <1>16, <2>2 DEF Unsettled
  <2>. QED BY <2>1, <2>2
<1>19. ASSUME NEW b \in App, ~ByHand(b)'
       PROVE  Items(meta[b], Unsettled(b)', Kept(b)', Whole(b)')
  <2>1. Items(meta[b], Unsettled(b), Kept(b), Whole(b))
    BY <1>13, <1>19 DEF MetaInv, ItemsInv
  <2>. QED BY <1>12, <1>13, <1>18, <2>1, ItemsLoosened
<1>20. ItemsInv' BY <1>1, <1>19 DEF ItemsInv
<1>21. Sorted(r) BY <1>2, <1>4, <1>5, FreshSorted
<1>22. ASSUME ~ByHand(a)' PROVE Merges(r, meta[a], Kept(a)', Whole(a)')
  <2>1. Holds(meta[a], Kept(a)) BY <1>13, <1>22 DEF MetaInv, ItemsInv, Items
  <2>2. Merges(r, meta[a], Kept(a), Whole(a)) BY <1>2, <1>4, <1>5, <2>1, FreshMerges
  <2>. QED BY <1>12, <1>13, <2>2, MergesLoosened
<1>23. ASSUME Whole(a)' PROVE Agree(r, meta[a])
  <2>1. Whole(a) /\ ~ByHand(a) BY <1>13, <1>23, WholeIsNotByHand
  <2>2. Unsettled(a) = {} BY <1>14, <2>1 DEF Unsettled
  <2>3. Placed(meta[a], {}) BY <2>1, <2>2 DEF MetaInv, ItemsInv, Items
  <2>4. \A k, l \in Keys : meta[a][k].origin = meta[a][l].origin =>
            (meta[a][k].seen \ r.rows) \subseteq meta[a][l].seen
    BY <1>2, <2>3, CopiesAgree
  <2>. QED BY <1>5, <2>4, FreshAgree
<1>24. StoresInv' BY <1>1, <1>5, <1>6, <1>7, <1>21, <1>22, <1>23 DEF StoresInv
<1>25. ASSUME NEW y \in Exec PROVE Execution(y)'
  <2>1. CASE y = x
    <3>1. Tables(x, a)' BY <1>1, <1>5, <1>6, <1>8, <1>9 DEF Tables
    <3>. QED BY <1>1, <1>3, <1>5, <1>6, <1>7, <1>8, <1>9, <2>1, <3>1 DEF Execution
  <2>2. CASE y # x
    <3>1. Execution(y) BY DEF MetaInv, Execs
    <3>. QED BY <1>1, <1>6, <1>7, <1>8, <2>2, <3>1 DEF Execution
  <2>. QED BY <2>1, <2>2
<1>. QED BY <1>20, <1>24, <1>25 DEF Execs

\* A store is done: what it had rows of is settled, and has to be there from now on.
LEMMA AppDoneMeta ==
    ASSUME MetaInv, NEW x \in Exec, NEW a \in App, AppDone(x, a)
    PROVE  Execs' /\ ItemsInv' /\ StoresInv'
<1>1. /\ Storing(x) /\ scan[x].left = {} /\ scan[x].app = {a} /\ scan[x].drafts = NoDrafts
      /\ UNCHANGED <<jobDay, loaded, info, found, calls, meta, late, torn>>
  BY DEF AppDone, Storing, tableVars
<1>2. /\ scan[x] \in ScanRecord /\ Sorted(scan[x]) /\ meta[a] \in [Keys -> Item]
      /\ Kept(a) \in SUBSET Event /\ Unsettled(a) \in SUBSET Event
      /\ Merging(a) = scan[x].rows
      /\ ~ByHand(a) => /\ Items(meta[a], Unsettled(a), Kept(a), Whole(a))
                       /\ Merges(scan[x], meta[a], Kept(a), Whole(a))
  BY <1>1, StoreHas
<1>3. /\ scan[x].start \in Int /\ scan[x].end \in Int /\ info.end \in Int
      /\ ScanTypeOK /\ Execution(x) /\ scan \in [Exec -> ScanRecord]
      /\ \A e \in Event : DayOf[e] \in Int
  BY ExecTyped, ScanTypes DEF MetaInv, ScanInv, Execs
<1>4. PICK at, todo, s, r :
        /\ at = scan[x].at /\ todo = scan[x].todo \ {a}
        /\ s = Continue(x, scan[x].start, scan[x].end)
        /\ r = [s EXCEPT !.at = at, !.todo = todo]
  OBVIOUS
<1>5. s \in ScanRecord /\ s.step = "apps"
  <2>1. scan[x].start \in Days \cup {Never} /\ scan[x].end \in Days \cup {Never}
    BY <1>2, ScanFields
  <2>2. PICK from, to \in Days \cup {Never} : from = scan[x].start /\ to = scan[x].end
    BY <2>1
  <2>3. s = Continue(x, from, to) BY <1>4, <2>2
  <2>. QED BY <1>3, <2>3, ContinueTyped
<1>6. /\ s.app = {} /\ s.manual = scan[x].manual
      /\ s.start = scan[x].start /\ s.end = scan[x].end
  BY <1>4 DEF Continue, Off
<1>7. /\ r.step = "apps" /\ r.app = {} /\ r.manual = scan[x].manual
      /\ r.start = scan[x].start /\ r.end = scan[x].end /\ r.todo = scan[x].todo \ {a}
  BY <1>4, <1>5, <1>6 DEF ScanRecord
<1>8. scan' = [scan EXCEPT ![x] = r] BY <1>4 DEF AppDone
<1>9. scan'[x] = r /\ \A y \in Exec \ {x} : scan'[y] = scan[y] BY <1>3, <1>8
<1>10. /\ Active(x) /\ \A y \in Exec : Active(y) => y = x
       /\ \A y \in Exec : ~Storing(y)' /\ ~Filled(y)'
  BY <1>1, <1>7, <1>9 DEF Active, Storing, Filled, MetaInv, ScanInv, OneScan
<1>11. \A y \in Exec : Scheduled(y)' <=> Scheduled(y)
  BY <1>1, <1>7, <1>9, <1>10 DEF Active, Storing, Scheduled
<1>12. Scheduled(x) => scan[x].start = info.end /\ scan[x].end <= jobDay
  BY <1>3 DEF Execution
<1>13. \A b \in App : (Whole(b)' <=> Whole(b)) /\ (ByHand(b)' <=> ByHand(b))
  BY <1>1 DEF Whole, ByHand
<1>14. loaded \in SUBSET Event BY <1>3, ScanTypes
<1>15. ASSUME NEW e \in Event, Covered(e)'
       PROVE  Covered(e) \/ (Scheduled(x) /\ AppOf[e] = a /\ DayOf[e] < scan[x].end)
  <2>1. CASE DayOf[e] < info.end BY <2>1 DEF Covered
  <2>2. CASE ~(DayOf[e] < info.end)
    <3>1. PICK y \in Exec : /\ Scheduled(y)' /\ AppOf[e] \notin scan'[y].todo
                            /\ DayOf[e] < scan'[y].end
      BY <1>1, <1>15, <2>2 DEF Covered
    <3>2. y = x BY <1>10, <1>11, <3>1 DEF Scheduled
    <3>3. Scheduled(x) /\ DayOf[e] < scan[x].end BY <1>7, <1>9, <1>11, <3>1, <3>2
    <3>4. AppOf[e] \notin scan[x].todo \/ AppOf[e] = a BY <1>7, <1>9, <3>1, <3>2
    <3>. QED BY <3>3, <3>4 DEF Covered
  <2>. QED BY <2>1, <2>2
<1>16. \A b \in App \ {a} : Kept(b)' \subseteq Kept(b) BY <1>1, <1>14, <1>15 DEF Kept
<1>17. Kept(a)' \subseteq Kept(a) \cup scan[x].rows
       /\ (Scheduled(x) \/ Kept(a)' \subseteq Kept(a))
  <2>1. ~Scheduled(x) => Kept(a)' \subseteq Kept(a) BY <1>1, <1>14, <1>15 DEF Kept
  <2>2. ASSUME Scheduled(x), NEW e \in Kept(a)', e \notin Kept(a) PROVE e \in scan[x].rows
    <3>1. e \in loaded \ late /\ AppOf[e] = a /\ Covered(e)' /\ e \in Event
      BY <1>1, <1>14, <2>2 DEF Kept
    <3>2. ~Covered(e) BY <2>2, <3>1 DEF Kept
    <3>3. DayOf[e] < scan[x].end BY <1>15, <3>1, <3>2
    <3>4. ~(DayOf[e] < info.end) BY <3>2 DEF Covered
    <3>5. scan[x].start <= DayOf[e] BY <1>3, <1>12, <2>2, <3>1, <3>4
    <3>6. Tables(x, a) /\ scan[x].rows = found[a]
      BY <1>1, <1>3 DEF Execution, Storing, Filled
    <3>. QED BY <2>2, <3>1, <3>3, <3>5, <3>6 DEF Tables
  <2>. QED BY <2>1, <2>2
<1>18. \A b \in App : Merging(b)' = {} /\ Pending(b)' = {} /\ Pending(b) = {}
  BY <1>1, <1>10 DEF Merging, Pending, Filled, Scheduled, Storing
<1>19. ASSUME NEW b \in App, b # a PROVE Unsettled(b) \subseteq Unsettled(b)'
  <2>1. Merging(b) = {} BY <1>1, <1>10, <1>19 DEF Merging, Active
  <2>2. \A y \in Exec : /\ scan'[y].end = scan[y].end
                        /\ b \in scan[y].todo \ scan[y].app => b \in scan'[y].todo \ scan'[y].app
    BY <1>7, <1>9, <1>19
  <2>3. Owed(b) \subseteq Owed(b)' BY <1>1, <1>11, <2>2 DEF Owed
  <2>. QED BY <1>13, <1>18, <2>1, <2>3 DEF Unsettled
<1>20. Unsettled(a) \subseteq Unsettled(a)' \cup scan[x].rows
  <2>1. Owed(a) \subseteq Owed(a)'
    <3>1. CASE Scheduled(x) BY <1>1, <3>1 DEF Owed
    <3>2. CASE ~Scheduled(x)
      <4>1. \A y \in Exec : Scheduled(y)' => Scheduled(y) /\ scan'[y] = scan[y]
        BY <1>9, <1>11, <3>2
      <4>. QED BY <1>1, <4>1 DEF Owed
    <3>. QED BY <3>1, <3>2
  <2>. QED BY <1>2, <1>13, <1>18, <2>1 DEF Unsettled
<1>21. Scheduled(x) => Unsettled(a)' = {}
  <2>1. Scheduled(x) => Owed(a)' = {}
    <3>1. a \notin scan'[x].todo BY <1>7, <1>9
    <3>. QED BY <1>11, <3>1 DEF Owed
  <2>. QED BY <1>18, <2>1 DEF Unsettled
<1>22. ASSUME ~ByHand(a)' PROVE Items(meta[a], Unsettled(a)', Kept(a)', Whole(a)')
  <2>1. PICK rows, unsettled2, kept2 :
           rows = scan[x].rows /\ unsettled2 = Unsettled(a)' /\ kept2 = Kept(a)'
    OBVIOUS
  <2>2. rows \in SUBSET Event /\ \A e \in rows : DayOf[e] \in Days
    BY <1>2, <2>1, ScanFields DEF MetaInv, ScanInv, RowsInDays
  <2>3. kept2 \in SUBSET Event BY <1>2, <1>17, <2>1, <2>2
  <2>4. unsettled2 \in SUBSET Event
    <3>1. Owed(a)' \in SUBSET Event BY <1>1, <1>14 DEF Owed
    <3>. QED BY <1>18, <2>1, <3>1 DEF Unsettled
  <2>5. \A m \in Months : ~Draws(scan[x], m) BY <1>1 DEF Draws, NoDrafts
  <2>6. /\ Items(meta[a], Unsettled(a), Kept(a), Whole(a))
        /\ Merges(scan[x], meta[a], Kept(a), Whole(a))
    BY <1>2, <1>13, <1>22
  <2>7. /\ Unsettled(a) \subseteq unsettled2 \cup scan[x].rows
        /\ kept2 \subseteq Kept(a) \cup scan[x].rows
        /\ unsettled2 = {} \/ kept2 \subseteq Kept(a)
    BY <1>17, <1>20, <1>21, <2>1
  <2>8. Items(meta[a], unsettled2, kept2, Whole(a))
    BY <1>1, <1>2, <2>1, <2>2, <2>3, <2>4, <2>5, <2>6, <2>7, DoneItems
  <2>. QED BY <1>13, <2>1, <2>8, ItemsLoosened
<1>23. ASSUME NEW b \in App, ~ByHand(b)'
       PROVE  Items(meta[b], Unsettled(b)', Kept(b)', Whole(b)')
  <2>1. CASE b = a BY <1>22, <1>23, <2>1
  <2>2. CASE b # a
    <3>1. Items(meta[b], Unsettled(b), Kept(b), Whole(b))
      BY <1>13, <1>23 DEF MetaInv, ItemsInv
    <3>. QED BY <1>13, <1>16, <1>19, <2>2, <3>1, ItemsLoosened
  <2>. QED BY <2>1, <2>2
<1>24. ItemsInv' BY <1>1, <1>23 DEF ItemsInv
<1>25. StoresInv' BY <1>10 DEF StoresInv
<1>26. ASSUME NEW y \in Exec PROVE Execution(y)'
  <2>1. CASE y = x BY <1>1, <1>7, <1>9, <1>10, <1>11, <1>12, <2>1 DEF Execution
  <2>2. CASE y # x
    <3>1. Execution(y) BY DEF MetaInv, Execs
    <3>2. ~Storing(y) /\ ~Filled(y) BY <1>10, <2>2 DEF Active, Storing, Filled
    <3>. QED BY <1>1, <1>9, <1>10, <1>11, <2>2, <3>1, <3>2 DEF Execution
  <2>. QED BY <2>1, <2>2
<1>. QED BY <1>24, <1>25, <1>26 DEF Execs

\* The item of a batch is left unprocessed: nothing is said any more of what the
\* items of the application tell.
LEMMA LeavesMeta ==
    ASSUME MetaInv, NEW x \in Exec, NEW a \in App, NEW m \in Months, BatchLeaves(x, a, m)
    PROVE  Execs' /\ ItemsInv' /\ StoresInv'
<1>1. /\ Storing(x) /\ scan[x].left = {} /\ scan[x].app = {a} /\ scan[x].drafts[m] # NoDraft
      /\ torn' = torn \cup {<<a, TRUE>>}
      /\ UNCHANGED <<jobDay, loaded, info, found, calls, meta, late>>
  BY DEF BatchLeaves, Storing, tableVars
<1>2. scan[x] \in ScanRecord /\ Sorted(scan[x]) BY <1>1, StoreHas
<1>3. PICK old, new, drafts, s, r :
        /\ old = scan[x].drafts /\ new = scan[x].new \ {m}
        /\ drafts = [old EXCEPT ![m] = NoDraft] /\ s = scan[x]
        /\ r = [s EXCEPT !.drafts = drafts, !.new = new]
  OBVIOUS
<1>4. old \in [Months -> DraftRecord] /\ new \in SUBSET Months BY <1>2, <1>3, ScanFields
<1>5. NoDraft \in DraftRecord BY DEF NoDraft, DraftRecord
<1>6. drafts \in [Months -> DraftRecord] BY <1>3, <1>4, <1>5
<1>7. /\ r \in ScanRecord /\ Alike(s, r) /\ r.left = s.left /\ r.marked = s.marked
      /\ r.drafts = drafts
  BY <1>2, <1>3, <1>4, <1>6 DEF ScanRecord, Alike
<1>8. scan' = [scan EXCEPT ![x] = r]
  BY <1>2, <1>3, ScanTypes DEF BatchLeaves, ScanRecord, MetaInv, ScanInv
<1>9. /\ Execs'
      /\ \A b \in App : /\ Kept(b)' = Kept(b) /\ Merging(b)' = Merging(b)
                        /\ Owed(b)' = Owed(b) /\ Pending(b)' = Pending(b)
      /\ scan'[x] = r /\ \A y \in Exec \ {x} : scan'[y] = scan[y]
      /\ \A y \in Exec : Storing(y)' <=> Storing(y)
  BY <1>1, <1>3, <1>7, <1>8, AlikeSets
<1>10. ByHand(a)' /\ ~Whole(a)'
  <2>1. <<a, TRUE>> \in torn' /\ <<a, TRUE>> \in {a} \X BOOLEAN BY <1>1
  <2>. QED BY <2>1 DEF ByHand, Whole
<1>11. ASSUME NEW b \in App, b # a
       PROVE  (Whole(b)' <=> Whole(b)) /\ (ByHand(b)' <=> ByHand(b))
  <2>1. <<a, TRUE>> \notin {b} \X BOOLEAN BY <1>11
  <2>2. torn' \cap ({b} \X BOOLEAN) = torn \cap ({b} \X BOOLEAN) BY <1>1, <2>1
  <2>3. <<b, TRUE>> \in torn' <=> <<b, TRUE>> \in torn BY <1>1, <1>11
  <2>. QED BY <2>2, <2>3 DEF Whole, ByHand
<1>12. ASSUME NEW b \in App, ~ByHand(b)'
       PROVE  Items(meta'[b], Unsettled(b)', Kept(b)', Whole(b)')
  <2>1. b # a /\ ~ByHand(b) BY <1>10, <1>11, <1>12
  <2>2. Items(meta[b], Unsettled(b), Kept(b), Whole(b)) BY <2>1 DEF MetaInv, ItemsInv
  <2>3. Unsettled(b)' = Unsettled(b) BY <1>9, <1>11, <2>1 DEF Unsettled
  <2>. QED BY <1>1, <1>9, <1>11, <2>1, <2>2, <2>3, ItemsLoosened
<1>13. ItemsInv' BY <1>12 DEF ItemsInv
<1>14. Sorted(r)
  <2>1. \A n \in Months : Draws(r, n) => Draws(s, n) /\ r.drafts[n] = s.drafts[n]
    BY <1>3, <1>4, <1>7 DEF Draws
  <2>2. r.rows = s.rows /\ Merged(r) = Merged(s) BY <1>7 DEF Alike, Merged
  <2>3. Merged(s) \subseteq s.rows BY DEF Merged
  <2>4. \A e \in s.rows : MonthOf(e) \in Months
    <3>1. s.rows \in SUBSET Event BY <1>2, <1>3, ScanFields
    <3>2. \A e \in s.rows : DayOf[e] \in Days BY <1>3 DEF MetaInv, ScanInv, RowsInDays
    <3>. QED BY <3>1, <3>2, MonthOfTyped
  <2>5. \A n : Final(r, n) = Final(s, n) BY <1>7 DEF Final
  <2>. QED BY <1>2, <1>3, <1>7, <2>1, <2>2, <2>3, <2>4, <2>5 DEF Sorted
<1>15. \A y \in Exec : Storing(y) => y = x BY <1>1 DEF MetaInv, ScanInv, OneScan, Active
<1>16. r.app = {a} BY <1>1, <1>3, <1>7 DEF Alike
<1>17. StoresInv' BY <1>9, <1>10, <1>14, <1>15, <1>16 DEF StoresInv
<1>. QED BY <1>9, <1>13, <1>17

-----------------------------------------------------------------------------
(* The theorems about the items.                                           *)

LEMMA MetaInit == ScanInit => MetaInv
<1>. SUFFICES ASSUME ScanInit PROVE MetaInv OBVIOUS
<1>1. ScanInv BY InitHolds
<1>2. \A x \in Exec : scan[x] = Off BY DEF ScanInit
<1>3. \A x \in Exec : ~Active(x) /\ ~Storing(x) /\ ~Filled(x) /\ scan[x].app = {}
  BY <1>2 DEF Active, Storing, Filled, Off
<1>4. Execs BY <1>3 DEF Execs, Execution, Scheduled
<1>5. StoresInv BY <1>3 DEF StoresInv
<1>6. ASSUME NEW a \in App PROVE Items(meta[a], Unsettled(a), Kept(a), Whole(a))
  <2>1. Kept(a) = {} BY DEF Kept, ScanInit
  <2>2. \A k \in Keys : meta[a][k] = NoItem /\ ~Present(meta[a], k)
    BY DEF ScanInit, NoItem, Present
  <2>3. Placed(meta[a], Unsettled(a)) BY <2>2, MonthsAndKeys DEF Placed
  <2>4. Copied(meta[a], Kept(a), Whole(a)) BY <2>2, MonthsAndKeys DEF Copied
  <2>5. Holds(meta[a], Kept(a)) BY <2>1 DEF Holds
  <2>. QED BY <2>3, <2>4, <2>5 DEF Items
<1>. QED BY <1>1, <1>4, <1>5, <1>6 DEF MetaInv, ItemsInv

LEMMA MetaStep == MetaInv /\ [ScanNext]_scanVars => MetaInv'
<1>. SUFFICES ASSUME MetaInv, [ScanNext]_scanVars PROVE MetaInv' OBVIOUS
<1>1. ScanInv' BY StepKeeps DEF MetaInv
<1> DEFINE Done == Execs' /\ ItemsInv' /\ StoresInv'
<1>2. ASSUME Pass \/ JobEnds \/ \E e \in Event : LoadEvent(e) PROVE Done
  BY <1>2, AroundMeta
<1>3. ASSUME NEW x \in Exec,
             StartAfterLoad(x) \/ \E from, to \in Days : StartByHand(x, from, to)
      PROVE  Done
  BY <1>3, StartsMeta
<1>4. ASSUME NEW x \in Exec, Proceed(x) PROVE Done
  <2>1. CASE CheckWorkflowStart(x) BY <2>1, CheckMeta
  <2>2. CASE Skip(x) BY <2>2, StartsMeta
  <2>3. CASE UpdateWorkflowInfo(x) BY <2>3, RecordedMeta
  <2>4. ASSUME NEW a \in App, ScanApp(x, a) PROVE Done BY <2>4, TablesMeta
  <2>9. ASSUME NEW a \in App, StoreApp(x, a) PROVE Done BY <2>9, BeginsMeta
  <2>5. ASSUME NEW a \in App, NEW d \in Days, StoreRow(x, a, d) PROVE Done
    BY <2>5, StoreRowMeta
  <2>6. ASSUME NEW a \in App, NEW d \in Days, StoreNextRow(x, a, d) PROVE Done
    BY <2>6, NextRowMeta
  <2>7. ASSUME NEW a \in App, NEW m \in Months, BatchWrite(x, a, m) PROVE Done
    BY <2>7, BatchMeta
  <2>8. ASSUME NEW a \in App, AppDone(x, a) PROVE Done BY <2>8, AppDoneMeta
  <2>. HIDE DEF Done
  <2>. QED BY <1>4, <2>1, <2>2, <2>3, <2>4, <2>5, <2>6, <2>7, <2>8, <2>9
     DEF Proceed
<1>5. ASSUME NEW x \in Exec, NEW a \in App, StoreRepeats(x, a) PROVE Done
  BY <1>5, RepeatsMeta
<1>6. ASSUME NEW x \in Exec, ExecutionFails(x) PROVE Done BY <1>6, FailsMeta
<1>7. ASSUME UNCHANGED scanVars PROVE Done
  <2>1. /\ scan' = scan /\ meta' = meta /\ loaded' = loaded /\ late' = late /\ torn' = torn
        /\ info' = info /\ jobDay' = jobDay /\ found' = found /\ calls' = calls
    BY <1>7 DEF scanVars
  <2>2. \A x \in Exec : (Storing(x)' <=> Storing(x)) /\ (Scheduled(x)' <=> Scheduled(x))
    BY <2>1 DEF Storing, Active, Scheduled
  <2>3. \A a \in App : /\ Kept(a)' = Kept(a) /\ Unsettled(a)' = Unsettled(a)
                       /\ Whole(a)' <=> Whole(a)
                       /\ ByHand(a)' <=> ByHand(a)
    BY <2>1, <2>2 DEF Kept, Covered, Unsettled, Merging, Owed, Pending, Whole, ByHand
  <2>4. \A x \in Exec : scan[x].app \subseteq App BY ExecTyped DEF MetaInv
  <2>5. ItemsInv' /\ StoresInv' BY <2>1, <2>2, <2>3, <2>4, Loosened DEF MetaInv
  <2>6. Execs' BY <2>1, <2>2 DEF MetaInv, Execs, Execution, Filled, Tables
  <2>. QED BY <2>5, <2>6
<1>8. ASSUME NEW x \in Exec, NEW a \in App, NEW m \in Months, BatchLeaves(x, a, m)
      PROVE  Done
  BY <1>8, LeavesMeta
<1>9. ASSUME NEW call \in calls, CallEnds(call) PROVE Done BY <1>9, CallEndsMeta
<1>10. Done
  <2>. HIDE DEF Done
  <2>. QED BY <1>2, <1>3, <1>4, <1>5, <1>6, <1>7, <1>8, <1>9 DEF ScanNext
<1>. QED BY <1>1, <1>10 DEF MetaInv

\* Whatever executions fail, skip or are started by hand, every event that was
\* in Redshift when the scheduled window of its day was scanned is in the
\* metadata once the window is recorded in workflow-job-info.json: windows tile
\* the days, and merging, moving and rewriting the items of a month keeps what
\* they tell, a store that is repeated or given up and scanned again included,
\* and no procedure that a failed execution left running fills the tables that a
\* store reads.  Only an application that a manual scan left half stored, or with
\* an item that DynamoDB left unprocessed, is excepted.
THEOREM NoEventSkipped == ScanSpec => []NothingSkipped
<1>1. MetaInv => NothingSkipped
  <2>. SUFFICES ASSUME MetaInv, NEW e \in loaded \ late, DayOf[e] < info.end,
                       <<AppOf[e], TRUE>> \notin torn
                PROVE  e \in Seen(AppOf[e])
    BY DEF NothingSkipped
  <2>1. e \in Event /\ AppOf[e] \in App
    BY ScanTypes, AppEventsAssumption DEF MetaInv, ScanInv
  <2>2. e \in Kept(AppOf[e]) BY DEF Kept, Covered
  <2>3. Holds(meta[AppOf[e]], Kept(AppOf[e]))
    BY <2>1 DEF MetaInv, ItemsInv, ByHand, Items
  <2>. QED BY <2>2, <2>3 DEF Holds, HasMonth, Seen
<1>. QED BY <1>1, MetaInit, MetaStep, PTL DEF ScanSpec

\* Between stores the item under 'latest' is the newest month and every other
\* item lies under its own month, unless a store of the application was given
\* up; and no batch that store-metadata-into-ddb writes has two items with one
\* sort key.
THEOREM LatestMonthIsNewest == ScanSpec => []LatestIsNewest
<1>1. ASSUME MetaInv, NEW a \in App, Whole(a),
             \A x \in Exec : Storing(x) => scan[x].app # {a}
      PROVE  InOrder(a)
  <2>1. Merging(a) = {} BY <1>1 DEF Merging
  <2>2. Unsettled(a) = {} BY <1>1, <2>1 DEF Unsettled
  <2>3. ~ByHand(a) BY <1>1, WholeIsNotByHand
  <2>4. Placed(meta[a], {}) BY <1>1, <2>2, <2>3 DEF MetaInv, ItemsInv, Items
  <2>5. meta[a] \in [Keys -> Item] BY <1>1, ScanTypes DEF MetaInv, ScanInv
  <2>6. \A m \in Months : meta[a][m] # NoItem => meta[a][m].origin = m
    BY <2>4, MonthsAndKeys DEF Placed
  <2>7. ASSUME NEW k \in Keys PROVE meta[a][k].origin <= meta[a][Latest].origin
    <3>1. PICK top, old \in Months \cup {Never} :
             top = meta[a][Latest].origin /\ old = meta[a][k].origin
      BY <2>5, MonthsAndKeys DEF Item
    <3>2. top \in Int /\ old \in Int /\ (old = Never => old <= top) /\ (old = top => old <= top)
      BY MonthsAndKeys
    <3>3. CASE k = Latest BY <3>1, <3>2, <3>3
    <3>4. CASE k # Latest /\ old # Never
      <4>1. k \in Months /\ old = k /\ old < top
        BY <2>4, <3>1, <3>4, MonthsAndKeys DEF Placed, Present, Top
      <4>. QED BY <3>1, <3>2, <4>1
    <3>. QED BY <3>1, <3>2, <3>3, <3>4
  <2>. QED BY <2>6, <2>7 DEF InOrder
<1>2. ASSUME MetaInv, NEW x \in Exec, Storing(x), scan[x].left = {},
             NEW m \in Months, NEW n \in Months, Draws(scan[x], m), Draws(scan[x], n),
             scan[x].drafts[m].key = scan[x].drafts[n].key
      PROVE  m = n
  <2>1. Sorted(scan[x]) BY <1>2 DEF MetaInv, StoresInv
  <2>2. Merged(scan[x]) = scan[x].rows BY <1>2 DEF Merged
  <2>3. \A l \in Months : Draws(scan[x], l) => scan[x].drafts[l].key = Final(scan[x], l)
    BY <2>1, <2>2 DEF Sorted
  <2>. QED BY <1>2, <2>3, MonthsAndKeys DEF Final
<1>3. MetaInv => LatestIsNewest BY <1>1, <1>2 DEF LatestIsNewest, Draws
<1>. QED BY <1>3, MetaInit, MetaStep, PTL DEF ScanSpec

\* Metadata once stored is never lost, as long as no store of the application
\* is given up: no move of a month and no batch, of a first invocation or a
\* repeated one, takes away what the store does not write again.
THEOREM MetadataIsKept == ScanSpec => MetadataStays
<1> DEFINE Keep == \A a \in App : Whole(a) => (Seen(a) \ Merging(a)) \subseteq Seen(a)'
<1>1. ASSUME MetaInv, [ScanNext]_scanVars PROVE Keep
  <2>1. ASSUME meta' = meta PROVE Keep BY <2>1 DEF Seen
  <2>2. ASSUME NEW x \in Exec, NEW a \in App,
               \/ \E d \in Days : StoreRow(x, a, d)
               \/ \E m \in Months : BatchWrite(x, a, m)
        PROVE  Keep
    <3>1. /\ Whole(a) => (Seen(a) \ Merging(a)) \subseteq Seen(a)'
          /\ \A b \in App \ {a} : meta'[b] = meta[b]
      BY <1>1, <2>2, StoreRowMeta, BatchMeta
    <3>2. \A b \in App \ {a} : Seen(b)' = Seen(b) BY <3>1 DEF Seen
    <3>. QED BY <3>1, <3>2
  <2>3. \/ meta' = meta
        \/ \E x \in Exec, a \in App : \/ \E d \in Days : StoreRow(x, a, d)
                                      \/ \E m \in Months : BatchWrite(x, a, m)
    <3>1. CASE Pass \/ JobEnds \/ \E e \in Event : LoadEvent(e)
      BY <3>1 DEF Pass, JobEnds, LoadEvent
    <3>5. ASSUME NEW call \in calls, CallEnds(call) PROVE meta' = meta
      BY <3>5 DEF CallEnds
    <3>2. ASSUME NEW x \in Exec,
                 \/ StartAfterLoad(x)
                 \/ \E from, to \in Days : StartByHand(x, from, to)
                 \/ CheckWorkflowStart(x) \/ Skip(x) \/ UpdateWorkflowInfo(x)
                 \/ ExecutionFails(x)
          PROVE  meta' = meta
      BY <3>2 DEF StartAfterLoad, StartByHand, CheckWorkflowStart, Skip,
                  UpdateWorkflowInfo, ExecutionFails
    <3>3. ASSUME NEW x \in Exec, NEW a \in App,
                 \/ ScanApp(x, a) \/ StoreApp(x, a) \/ AppDone(x, a) \/ StoreRepeats(x, a)
                 \/ \E d \in Days : StoreNextRow(x, a, d)
                 \/ \E m \in Months : BatchLeaves(x, a, m)
          PROVE  meta' = meta
      BY <3>3 DEF ScanApp, StoreApp, AppDone, StoreRepeats, StoreNextRow, BatchLeaves
    <3>4. CASE UNCHANGED scanVars BY <3>4 DEF scanVars
    <3>. QED BY <1>1, <3>1, <3>2, <3>3, <3>4, <3>5 DEF ScanNext, Proceed
  <2>. HIDE DEF Keep
  <2>. QED BY <2>1, <2>2, <2>3
<1>. QED BY <1>1, MetaInit, MetaStep, PTL DEF ScanSpec, MetadataStays
=============================================================================
