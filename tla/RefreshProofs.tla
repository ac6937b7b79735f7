---------------------------- MODULE RefreshProofs ----------------------------
(***************************************************************************)
(* Theorems about the refresh of the views, for any number of events,      *)
(* applications, executions and reports, however loads and failures fall.  *)
(***************************************************************************)
EXTENDS RefreshViews, FiniteSetTheorems, TLAPS

LEMMA Quotient ==
    ASSUME NEW t \in Nat, NEW d \in Nat \ {0}
    PROVE  t \div d \in Nat
  BY SMTT(30)

LEMMA QuotientOrder ==
    ASSUME NEW d \in Nat \ {0}, NEW s \in Nat, NEW t \in Nat, s <= t
    PROVE  s \div d <= t \div d
<1>1. /\ s \div d \in Nat /\ d * (s \div d) \in Nat /\ d * (s \div d) <= s
      /\ t \div d \in Nat /\ d * (t \div d) \in Nat /\ t < d * (t \div d) + d
  BY Quotient, SMTT(30)
<1>2. SUFFICES ASSUME (t \div d) + 1 <= s \div d PROVE FALSE
  BY <1>1
<1>3. d * ((t \div d) + 1) <= d * (s \div d)
  BY <1>1, <1>2, SMTT(30)
<1>4. d * ((t \div d) + 1) = d * (t \div d) + d
  BY <1>1
<1> QED
  BY <1>1, <1>3, <1>4

LEMMA OneMore ==
    ASSUME NEW m \in Nat, NEW n \in 0..m, n < m PROVE n + 1 \in 0..m
  OBVIOUS

LEMMA ReportNumber ==
    ASSUME NEW n \in 0..Reports, n # 0 PROVE n \in 1..Reports
  BY RefreshViewsAssumption

\* The days of ticks are days, and every day that an execution is given is one.
LEMMA Days ==
    ASSUME NEW t \in Ticks
    PROVE  /\ Day(t) \in Nat
           /\ Day(t) <= Day(LastTick)
           /\ 0..Day(t) \subseteq LastDates /\ LastDates \subseteq Dates
           /\ -1 \in LastDates
           /\ \A d \in LastDates : d - ReportDays + 1 \in Dates
           /\ \A d \in {Day(t) - 1, Day(t)} : d - 1 \in LastDates
<1>1. /\ TicksPerDay \in Nat \ {0} /\ ReportDays \in Nat \ {0} /\ LastTick \in Nat
      /\ t \in Nat /\ t <= LastTick
  BY RefreshViewsAssumption DEF Ticks
<1>2. Day(t) \in Nat /\ Day(LastTick) \in Nat
  BY <1>1, Quotient DEF Day
<1>3. Day(t) <= Day(LastTick)
  BY <1>1, QuotientOrder DEF Day
<1> QED
  BY <1>1, <1>2, <1>3 DEF Dates, LastDates

-----------------------------------------------------------------------------
(* Types.                                                                  *)

RefreshRecord ==
    [step : {"off", "check", "skip", "apps", "start sp", "sp", "done"},
     manual : BOOLEAN, from : Dates, to : LastDates, todo : SUBSET App,
     app : SUBSET App, due : SUBSET Event, sp : 0..Reports]

LEMMA StartRecords ==
    /\ Ended \in RefreshRecord
    /\ \A m \in BOOLEAN : \A d \in LastDates : Started(m, d) \in RefreshRecord
<1>1. -1 \in LastDates /\ LastDates \subseteq Dates
  <2>1. 0 \in Ticks
    BY RefreshViewsAssumption DEF Ticks
  <2> QED
    BY <2>1, Days
<1>2. 0 \in 0..Reports
  BY RefreshViewsAssumption
<1> QED
  BY <1>1, <1>2 DEF Ended, Started, None, RefreshRecord

\* The fields of an execution, and what those of a step of it make.
LEMMA Fields ==
    ASSUME refresh \in [Execution -> RefreshRecord], NEW x \in Execution
    PROVE  /\ refresh[x] \in RefreshRecord
           /\ refresh[x].manual \in BOOLEAN
           /\ refresh[x].from \in Dates
           /\ refresh[x].to \in LastDates
           /\ refresh[x].todo \subseteq App
           /\ refresh[x].app \subseteq App
           /\ refresh[x].due \subseteq Event
           /\ refresh[x].sp \in 0..Reports
  BY DEF RefreshRecord

LEMMA AtRecord ==
    ASSUME refresh \in [Execution -> RefreshRecord], NEW x \in Execution,
           NEW step \in {"apps", "start sp", "sp", "done"},
           NEW app \in SUBSET App, NEW due \in SUBSET Event, NEW sp \in 0..Reports
    PROVE  At(x, step, app, due, sp) \in RefreshRecord
  BY Fields DEF At, RefreshRecord

LEMMA RefreshTypeInit == RefreshInit => RefreshTypeOK
<1> SUFFICES ASSUME RefreshInit PROVE RefreshTypeOK
  OBVIOUS
<1>1. Cardinality(Event) \in Nat
  BY FS_CardinalityType, AppEventsAssumption
<1>2. created \in [Event -> 0..Cardinality(Event)]
  BY <1>1 DEF RefreshInit
<1>3. refresh \in [Execution -> RefreshRecord]
  BY StartRecords DEF RefreshInit
<1>4. /\ now \in Ticks /\ lastRefresh \in Ticks \cup {None}
      /\ manualRuns \in 0..MaxManualRuns /\ failures \in 0..MaxFailures
  BY RefreshViewsAssumption DEF RefreshInit, Ticks
<1>5. report \in [1..Reports -> SUBSET Event] /\ marked \in [App -> SUBSET Dates]
  BY DEF RefreshInit
<1> QED
  BY <1>2, <1>3, <1>4, <1>5 DEF RefreshInit, RefreshTypeOK, RefreshRecord

\* The events that a load has started with.
Begun == {f \in Event : created[f] # 0}

LEMMA NextPlace ==
    ASSUME NEW e \in Event, created \in [Event -> 0..Cardinality(Event)], created[e] = 0
    PROVE  /\ Cardinality(Begun) \in Nat
           /\ Cardinality(Begun) + 1 \in 0..Cardinality(Event)
           /\ Cardinality(Begun \cup {e}) = Cardinality(Begun) + 1
<1>1. IsFiniteSet(Event) /\ Begun \subseteq Event /\ e \notin Begun
  BY AppEventsAssumption DEF Begun
<1>2. IsFiniteSet(Begun)
  BY <1>1, FS_Subset
<1>3. Cardinality(Begun) \in Nat /\ Cardinality(Begun \cup {e}) = Cardinality(Begun) + 1
  BY <1>1, <1>2, FS_CardinalityType, FS_AddElement
<1>4. Cardinality(Begun \cup {e}) <= Cardinality(Event) /\ Cardinality(Event) \in Nat
  BY <1>1, FS_Subset, FS_CardinalityType
<1> QED
  BY <1>3, <1>4

\* What an execution becomes is an execution again.
LEMMA RefreshTypeOfExecution ==
    ASSUME refresh \in [Execution -> RefreshRecord], now \in Ticks, table \subseteq Event,
           NEW x \in Execution,
           \/ TriggerRefresh(x)
           \/ RecalculateByHand(x)
           \/ CheckRefreshStart(x)
           \/ RefreshEnds(x)
           \/ RefreshFails(x)
           \/ \E a \in App : \/ RefreshBasicView(x, a) \/ CheckStartSp(x, a)
                             \/ RefreshSp(x, a) \/ MarkRefreshed(x, a) \/ MarkIsLost(x, a)
    PROVE  refresh' \in [Execution -> RefreshRecord]
<1>1. CASE TriggerRefresh(x)
  <2>1. PICK end \in LatestJobDay : refresh' = [refresh EXCEPT ![x] = Started(FALSE, end - 1)]
    BY <1>1 DEF TriggerRefresh
  <2>2. end - 1 \in LastDates
    BY Days DEF LatestJobDay
  <2> QED
    BY <2>1, <2>2, StartRecords
<1>2. CASE RecalculateByHand(x)
  <2>1. None \in LastDates
    BY RefreshViewsAssumption, Days DEF Ticks, None
  <2> QED
    BY <1>2, <2>1, StartRecords DEF RecalculateByHand
<1>3. CASE CheckRefreshStart(x)
  <2>1. CASE refresh' = [refresh EXCEPT ![x].step = "skip"]
    BY ZenonT(60), <2>1 DEF RefreshRecord
  <2>2. ASSUME NEW days \in DaysOf(x),
               refresh' = [refresh EXCEPT ![x] = Continued(x, days)]
        PROVE  refresh' \in [Execution -> RefreshRecord]
    <3>1. days[1] \in Dates /\ days[2] \in LastDates
      <4>1. CASE refresh[x].manual
        BY <4>1, Days DEF DaysOf
      <4>2. CASE ~refresh[x].manual
        BY <4>2, Days, Fields DEF DaysOf
      <4> QED
        BY <4>1, <4>2
    <3>2. 0 \in 0..Reports
      BY RefreshViewsAssumption
    <3>3. Continued(x, days) \in RefreshRecord
      BY <3>1, <3>2, Fields DEF Continued, RefreshRecord
    <3> QED
      BY <2>2, <3>3
  <2> QED
    BY <1>3, <2>1, <2>2 DEF CheckRefreshStart
<1>4. CASE RefreshEnds(x)
  BY <1>4, StartRecords DEF RefreshEnds
<1>5. CASE RefreshFails(x)
  BY <1>5, StartRecords DEF RefreshFails
<1>6. ASSUME NEW a \in App, RefreshBasicView(x, a)
      PROVE  refresh' \in [Execution -> RefreshRecord]
  <2>1. Due(x, a) \subseteq Event
    BY DEF Due
  <2>2. At(x, "start sp", {a}, Due(x, a), 0) \in RefreshRecord
    <3>1. 0 \in 0..Reports /\ {a} \in SUBSET App /\ Due(x, a) \in SUBSET Event
      BY <2>1, RefreshViewsAssumption
    <3> QED
      BY <3>1, AtRecord
  <2> QED
    BY <1>6, <2>2 DEF RefreshBasicView
<1>7. ASSUME NEW a \in App, CheckStartSp(x, a) \/ MarkRefreshed(x, a) \/ MarkIsLost(x, a)
      PROVE  refresh' \in [Execution -> RefreshRecord]
  <2>1. At(x, "apps", {}, {}, 0) \in RefreshRecord
    <3>1. 0 \in 0..Reports /\ {} \in SUBSET App /\ {} \in SUBSET Event
      BY RefreshViewsAssumption
    <3> QED
      BY <3>1, AtRecord
  <2>2. NextApp(x, a) \in RefreshRecord
    BY <2>1 DEF NextApp, RefreshRecord
  <2>3. [refresh[x] EXCEPT !.step = "sp"] \in RefreshRecord
    BY DEF RefreshRecord
  <2> QED
    BY <1>7, <2>2, <2>3 DEF CheckStartSp, MarkRefreshed, MarkIsLost
<1>8. ASSUME NEW a \in App, RefreshSp(x, a)
      PROVE  refresh' \in [Execution -> RefreshRecord]
  <2> DEFINE n == refresh[x].sp + 1
             r == At(x, IF n = Reports THEN "done" ELSE "sp", {a}, refresh[x].due, n)
  <2>1. n \in 0..Reports
    BY <1>8, Fields, RefreshViewsAssumption DEF RefreshSp
  <2>2. r \in RefreshRecord
    BY <2>1, AtRecord, Fields
  <2>3. refresh' = [refresh EXCEPT ![x] = r]
    BY <1>8 DEF RefreshSp
  <2> QED
    BY <2>2, <2>3
<1> QED
  BY <1>1, <1>2, <1>3, <1>4, <1>5, <1>6, <1>7, <1>8

\* What an execution may be waiting for is a statement.
LEMMA SubmittedStatements ==
    ASSUME refresh \in [Execution -> RefreshRecord], now \in Ticks, NEW x \in Execution
    PROVE  Submitted(x) \subseteq Statement
<1>1. HoursAgo(x) \in Int
  <2>1. refresh[x].from \in Int
    BY Fields DEF Dates
  <2>2. now \in Int /\ TicksPerDay \in Nat /\ Freshness \in Nat
    BY RefreshViewsAssumption DEF Ticks
  <2>3. refresh[x].from * TicksPerDay \in Int
    BY <2>1, <2>2
  <2> QED
    BY <2>2, <2>3 DEF HoursAgo
<1>2. refresh[x].app \subseteq App /\ refresh[x].todo \subseteq App
  BY Fields
<1>3. refresh[x].from \in Dates /\ refresh[x].to \in LastDates
  BY Fields
<1> QED
  BY <1>1, <1>2, <1>3 DEF Submitted, Statement

LEMMA RefreshTypeStep == RefreshTypeOK /\ [RefreshNext]_refreshVars => RefreshTypeOK'
<1> SUFFICES ASSUME RefreshTypeOK, [RefreshNext]_refreshVars PROVE RefreshTypeOK'
  OBVIOUS
<1> USE DEF RefreshTypeOK
<1>0. refresh \in [Execution -> RefreshRecord] /\ now \in Ticks
  BY DEF RefreshRecord
<1>1. CASE PassTick
  <2>1. now' \in Ticks
    BY <1>1, OneMore, RefreshViewsAssumption DEF PassTick, Ticks
  <2> QED
    BY <1>1, <2>1 DEF PassTick
<1>2. ASSUME NEW e \in Event, LoadStarts(e) PROVE RefreshTypeOK'
  <2>1. created' \in [Event -> 0..Cardinality(Event)]
    BY <1>2, NextPlace DEF LoadStarts, Begun
  <2> QED
    BY <1>2, <2>1 DEF LoadStarts
<1>3. ASSUME NEW e \in Event, LoadCommits(e) PROVE RefreshTypeOK'
  BY <1>3 DEF LoadCommits
<1>4. CASE StampRefresh
  BY <1>4 DEF StampRefresh
<1>5. CASE TriggerFails
  <2>1. failures' \in 0..MaxFailures
    BY <1>5, OneMore, RefreshViewsAssumption DEF TriggerFails, Fails
  <2> QED
    BY <1>5, <2>1 DEF TriggerFails
<1>6. ASSUME NEW x \in Execution, TriggerRefresh(x) PROVE RefreshTypeOK'
  <2>1. refresh' \in [Execution -> RefreshRecord]
    BY <1>0, <1>6, RefreshTypeOfExecution
  <2> QED
    BY <1>6, <2>1 DEF TriggerRefresh, RefreshRecord
<1>7. ASSUME NEW x \in Execution, RecalculateByHand(x) PROVE RefreshTypeOK'
  <2>1. refresh' \in [Execution -> RefreshRecord]
    BY <1>0, <1>7, RefreshTypeOfExecution
  <2>2. manualRuns' \in 0..MaxManualRuns
    BY <1>7, OneMore, RefreshViewsAssumption DEF RecalculateByHand
  <2> QED
    BY <1>7, <2>1, <2>2 DEF RecalculateByHand, RefreshRecord
<1>8. ASSUME NEW x \in Execution, CheckRefreshStart(x) PROVE RefreshTypeOK'
  <2>1. refresh' \in [Execution -> RefreshRecord]
    BY <1>0, <1>8, RefreshTypeOfExecution
  <2> QED
    BY <1>8, <2>1 DEF CheckRefreshStart, RefreshRecord
<1>9. ASSUME NEW x \in Execution, RefreshEnds(x) PROVE RefreshTypeOK'
  <2>1. refresh' \in [Execution -> RefreshRecord]
    BY <1>0, <1>9, RefreshTypeOfExecution
  <2> QED
    BY <1>9, <2>1 DEF RefreshEnds, RefreshRecord
<1>10. ASSUME NEW x \in Execution, RefreshFails(x) PROVE RefreshTypeOK'
  <2>1. refresh' \in [Execution -> RefreshRecord]
    BY <1>0, <1>10, RefreshTypeOfExecution
  <2>2. failures' \in 0..MaxFailures
    BY <1>10, OneMore, RefreshViewsAssumption DEF RefreshFails, Fails
  <2>3. unpolled' \subseteq Statement
    BY <1>0, <1>10, SubmittedStatements DEF RefreshFails
  <2> QED
    BY <1>10, <2>1, <2>2, <2>3 DEF RefreshFails, RefreshRecord
<1>11. ASSUME NEW x \in Execution, NEW a \in App, RefreshBasicView(x, a) PROVE RefreshTypeOK'
  <2>1. refresh' \in [Execution -> RefreshRecord]
    BY <1>0, <1>11, RefreshTypeOfExecution
  <2>2. view' \subseteq table'
    BY <1>11 DEF RefreshBasicView, NewEvents
  <2> QED
    BY <1>11, <2>1, <2>2 DEF RefreshBasicView, RefreshRecord
<1>12. ASSUME NEW x \in Execution, NEW a \in App, CheckStartSp(x, a) PROVE RefreshTypeOK'
  <2>1. refresh' \in [Execution -> RefreshRecord]
    BY <1>0, <1>12, RefreshTypeOfExecution
  <2> QED
    BY <1>12, <2>1 DEF CheckStartSp, RefreshRecord
<1>13. ASSUME NEW x \in Execution, NEW a \in App, RefreshSp(x, a) PROVE RefreshTypeOK'
  <2>1. refresh' \in [Execution -> RefreshRecord]
    BY <1>0, <1>13, RefreshTypeOfExecution
  <2>2. report' \in [1..Reports -> SUBSET Event]
    BY <1>13 DEF RefreshSp, CountsAgain, OfDays
  <2> QED
    BY <1>13, <2>1, <2>2 DEF RefreshSp, RefreshRecord
<1>14. ASSUME NEW x \in Execution, NEW a \in App, MarkRefreshed(x, a) PROVE RefreshTypeOK'
  <2>1. refresh' \in [Execution -> RefreshRecord]
    BY <1>0, <1>14, RefreshTypeOfExecution
  <2>2. marked' \in [App -> SUBSET Dates]
    BY <1>0, <1>14, Fields, Days DEF MarkRefreshed
  <2> QED
    BY <1>14, <2>1, <2>2 DEF MarkRefreshed, RefreshRecord
<1>15. ASSUME NEW x \in Execution, NEW a \in App, MarkIsLost(x, a) PROVE RefreshTypeOK'
  <2>1. refresh' \in [Execution -> RefreshRecord]
    BY <1>0, <1>15, RefreshTypeOfExecution
  <2>2. failures' \in 0..MaxFailures
    BY <1>15, OneMore, RefreshViewsAssumption DEF MarkIsLost, Fails
  <2> QED
    BY <1>15, <2>1, <2>2 DEF MarkIsLost, RefreshRecord
<1>16. ASSUME NEW s \in unpolled, UnpolledEnds(s) PROVE RefreshTypeOK'
  <2>1. view' \subseteq table'
    BY <1>16 DEF UnpolledEnds, NewEvents
  <2>2. report' \in [1..Reports -> SUBSET Event]
    <3> DEFINE Of(S) == OfDays(S, s.app, s.from..s.to)
               counts == (report[s.sp] \ Of(report[s.sp])) \cup Of(view)
    <3>1. s.sp \in 0..Reports
      BY DEF Statement
    <3>2. CASE s.sp # 0 /\ report' = [report EXCEPT ![s.sp] = counts]
      <4>1. s.sp \in 1..Reports
        <5>1. s.sp # 0
          BY <3>2
        <5> QED
          BY <3>1, <5>1, ReportNumber
      <4>2. counts \in SUBSET Event
        BY <4>1 DEF OfDays
      <4> HIDE DEF counts
      <4> QED
        BY <3>2, <4>1, <4>2
    <3> QED
      BY <1>16, <3>2 DEF UnpolledEnds, CountsAgain
  <2> QED
    BY <1>16, <2>1, <2>2 DEF UnpolledEnds
<1>17. CASE UNCHANGED refreshVars
  BY <1>17 DEF refreshVars
<1> QED
  BY <1>1, <1>2, <1>3, <1>4, <1>5, <1>6, <1>7, <1>8, <1>9, <1>10, <1>11, <1>12, <1>13,
     <1>14, <1>15, <1>16, <1>17 DEF RefreshNext, Refreshes

\* The variables of the refresh workflow keep their types, for every instance.
THEOREM RefreshTypeCorrect == RefreshSpec => []RefreshTypeOK
<1>1. RefreshInit => RefreshTypeOK
  BY RefreshTypeInit
<1>2. RefreshTypeOK /\ [RefreshNext]_refreshVars => RefreshTypeOK'
  BY RefreshTypeStep
<1> QED
  BY <1>1, <1>2, PTL DEF RefreshSpec

-----------------------------------------------------------------------------
(* One execution refreshes.                                                *)

\* An action that changes one execution, which was refreshing already, or sees
\* no other, or does not refresh after it, leaves at most one that refreshes.
LEMMA OneChanges ==
    ASSUME refresh \in [Execution -> RefreshRecord], OneRefresh,
           NEW x \in Execution, NEW r \in RefreshRecord,
           refresh' = [refresh EXCEPT ![x] = r],
           \/ Refreshing(x)
           \/ r.step \notin {"apps", "start sp", "sp", "done"}
           \/ ~HasOtherRunningRefresh(x)
    PROVE  OneRefresh'
<1>1. \A y \in Execution : Refreshing(y)' => Refreshing(y) \/ y = x
  BY DEF Refreshing
<1>2. \A y \in Execution \ {x} : Refreshing(y)' => Refreshing(y)
  BY <1>1
<1>3. Refreshing(x)' => r.step \in {"apps", "start sp", "sp", "done"}
  BY DEF Refreshing
<1>4. ~HasOtherRunningRefresh(x) => \A y \in Execution \ {x} : ~Refreshing(y)
  BY DEF HasOtherRunningRefresh, Refreshing
<1> QED
  BY <1>1, <1>2, <1>3, <1>4 DEF OneRefresh

LEMMA OneRefreshStep ==
    RefreshTypeOK /\ OneRefresh /\ [RefreshNext]_refreshVars => OneRefresh'
<1> SUFFICES ASSUME RefreshTypeOK, OneRefresh, [RefreshNext]_refreshVars PROVE OneRefresh'
  OBVIOUS
<1>0. refresh \in [Execution -> RefreshRecord] /\ now \in Ticks /\ table \subseteq Event
  BY DEF RefreshTypeOK, RefreshRecord
<1>1. CASE UNCHANGED refresh
  BY <1>1 DEF OneRefresh, Refreshing
<1>2. ASSUME NEW x \in Execution,
             \/ TriggerRefresh(x) \/ RecalculateByHand(x) \/ RefreshEnds(x) \/ RefreshFails(x)
      PROVE  OneRefresh'
  <2>1. refresh' \in [Execution -> RefreshRecord]
    BY <1>0, <1>2, RefreshTypeOfExecution
  <2>2. refresh' = [refresh EXCEPT ![x] = refresh'[x]]
    BY <1>0, <1>2 DEF TriggerRefresh, RecalculateByHand, RefreshEnds, RefreshFails
  <2>3. refresh'[x].step \in {"off", "check"}
    BY <1>0, <1>2 DEF TriggerRefresh, RecalculateByHand, RefreshEnds, RefreshFails, Started, Ended
  <2> QED
    BY <1>0, <2>1, <2>2, <2>3, OneChanges
<1>3. ASSUME NEW x \in Execution, CheckRefreshStart(x)
      PROVE  OneRefresh'
  <2>1. refresh' \in [Execution -> RefreshRecord]
    BY <1>0, <1>3, RefreshTypeOfExecution
  <2>2. refresh' = [refresh EXCEPT ![x] = refresh'[x]]
    BY <1>0, <1>3 DEF CheckRefreshStart
  <2>3. HasOtherRunningRefresh(x) => refresh'[x].step = "skip"
    <3>1. ASSUME refresh' = [refresh EXCEPT ![x].step = "skip"]
          PROVE  refresh'[x].step = "skip"
      BY <1>0, <3>1 DEF RefreshRecord
    <3> QED
      BY <1>3, <3>1 DEF CheckRefreshStart
  <2> QED
    BY <1>0, <2>1, <2>2, <2>3, OneChanges
<1>4. ASSUME NEW x \in Execution, NEW a \in App,
             \/ RefreshBasicView(x, a) \/ CheckStartSp(x, a) \/ RefreshSp(x, a)
             \/ MarkRefreshed(x, a) \/ MarkIsLost(x, a)
      PROVE  OneRefresh'
  <2>1. refresh' \in [Execution -> RefreshRecord]
    BY <1>0, <1>4, RefreshTypeOfExecution
  <2>2. refresh' = [refresh EXCEPT ![x] = refresh'[x]]
    BY <1>0, <1>4 DEF RefreshBasicView, CheckStartSp, RefreshSp, MarkRefreshed, MarkIsLost
  <2>3. Refreshing(x)
    BY <1>4 DEF RefreshBasicView, CheckStartSp, RefreshSp, MarkRefreshed, MarkIsLost, Refreshing
  <2> QED
    BY <1>0, <2>1, <2>2, <2>3, OneChanges
<1>5. CASE \/ PassTick \/ StampRefresh \/ TriggerFails \/ UNCHANGED refreshVars
           \/ \E e \in Event : LoadStarts(e) \/ LoadCommits(e)
           \/ \E s \in unpolled : UnpolledEnds(s)
  <2>1. UNCHANGED refresh
    BY <1>5 DEF PassTick, StampRefresh, TriggerFails, refreshVars, LoadStarts, LoadCommits,
       UnpolledEnds
  <2> QED
    BY <1>1, <2>1
<1> QED
  BY <1>2, <1>3, <1>4, <1>5 DEF RefreshNext, Refreshes

\* At most one execution is past its check, whatever the order of checks, skips
\* and ends: CheckRefreshStart sees every other RUNNING one.
THEOREM RefreshesOneAtATime == RefreshSpec => []OneRefresh
<1>1. RefreshInit => OneRefresh
  <2>1. RefreshInit => \A x \in Execution : refresh[x].step = "off"
    BY DEF RefreshInit, Ended
  <2> QED
    BY <2>1 DEF OneRefresh, Refreshing
<1>2. RefreshTypeOK /\ OneRefresh /\ [RefreshNext]_refreshVars => OneRefresh'
  BY OneRefreshStep
<1> QED
  BY <1>1, <1>2, RefreshTypeCorrect, PTL DEF RefreshSpec

-----------------------------------------------------------------------------
(* No event falls between two refreshes.                                   *)

Same(e, f) == AppOf[e] = AppOf[f]

\* Loads of one table follow one another, and are created in their order.
LoadsInv ==
    /\ \A e \in Event : created[e] = 0 <=> e \notin loading \cup table
    /\ loading \cap table = {}
    /\ \A e \in Event : created[e] <= Cardinality(Begun)
    /\ \A e, f \in loading : Same(e, f) => e = f
    /\ \A e \in loading, f \in table : Same(e, f) => created[f] < created[e]

\* What the view has left behind and may still take was created after all it has.
ViewInv ==
    \A e \in table \ view, f \in view :
        Same(e, f) /\ Fresh(e, Freshness) => created[f] < created[e]

\* A manual execution goes at least as far back as a scheduled one.
HoursInv ==
    \A x \in Execution : refresh[x].manual /\ Refreshing(x) =>
        refresh[x].from * TicksPerDay <= now - Freshness

\* So does a statement for the base view that an execution has left running.
UnpolledInv == \A s \in unpolled : s.sp = 0 => s.ago \in Int /\ Freshness <= s.ago

\* What a scheduled execution owes is in the view and in the reports it has done.
DueOf(x) ==
    /\ refresh[x].app # {} => refresh[x].step \in {"start sp", "sp", "done"}
    /\ refresh[x].step = "done" => refresh[x].sp = Reports
    /\ ~refresh[x].manual =>
          /\ refresh[x].due \subseteq view
          /\ \A e \in refresh[x].due :
                AppOf[e] \in refresh[x].app /\ DayOfEvent(e) \in Counted(x)
          /\ \A n \in 1..refresh[x].sp : refresh[x].due \subseteq report[n]

DueInv == \A x \in Execution : DueOf(x)

ReportsInv ==
    /\ RefreshTypeOK /\ OneRefresh /\ LoadsInv
    /\ ViewInv /\ HoursInv /\ UnpolledInv /\ DueInv

LEMMA ReportsInvInit == RefreshInit => ReportsInv
<1> SUFFICES ASSUME RefreshInit PROVE ReportsInv
  OBVIOUS
<1>1. RefreshTypeOK
  BY RefreshTypeInit
<1>2. \A x \in Execution : /\ refresh[x].step = "off" /\ refresh[x].manual = FALSE
                            /\ refresh[x].app = {} /\ refresh[x].due = {} /\ refresh[x].sp = 0
  BY DEF RefreshInit, Ended
<1>3. Begun = {} /\ Cardinality(Begun) = 0
  BY FS_EmptySet DEF RefreshInit, Begun
<1>4. LoadsInv
  BY <1>3 DEF LoadsInv, RefreshInit
<1>5. ViewInv
  BY DEF ViewInv, RefreshInit
<1>6. OneRefresh /\ HoursInv /\ UnpolledInv
  BY <1>2 DEF OneRefresh, HoursInv, UnpolledInv, Refreshing, RefreshInit
<1>7. DueInv
  BY <1>2 DEF DueInv, DueOf
<1> QED
  BY <1>1, <1>4, <1>5, <1>6, <1>7 DEF ReportsInv

LEMMA Data ==
    ASSUME RefreshTypeOK
    PROVE  /\ created \in [Event -> 0..Cardinality(Event)]
           /\ Cardinality(Event) \in Nat
           /\ \A e \in Event : created[e] \in Nat
           /\ loading \subseteq Event /\ table \subseteq Event /\ view \subseteq table
           /\ now \in Int /\ TimeOf \in [Event -> Nat] /\ Freshness \in Nat
           /\ TicksPerDay \in Nat
           /\ \A x \in Execution : refresh[x].from \in Int
<1>1. Cardinality(Event) \in Nat
  BY AppEventsAssumption, FS_CardinalityType
<1>2. /\ created \in [Event -> 0..Cardinality(Event)]
      /\ loading \subseteq Event /\ table \subseteq Event /\ view \subseteq table
      /\ now \in Ticks
  BY DEF RefreshTypeOK
<1>3. \A e \in Event : created[e] \in Nat
  BY <1>1, <1>2
<1>4. now \in Int
  BY <1>2 DEF Ticks
<1>5. TimeOf \in [Event -> Nat] /\ Freshness \in Nat /\ TicksPerDay \in Nat
  BY RefreshViewsAssumption
<1>6. \A x \in Execution : refresh[x].from \in Int
  <2>1. refresh \in [Execution -> RefreshRecord]
    BY DEF RefreshTypeOK, RefreshRecord
  <2>2. Dates \subseteq Int
    BY DEF Dates
  <2> QED
    BY <2>1, <2>2, Fields
<1> QED
  BY <1>1, <1>2, <1>3, <1>4, <1>5, <1>6

LEMMA LoadsStep == ReportsInv /\ [RefreshNext]_refreshVars => LoadsInv'
<1> SUFFICES ASSUME ReportsInv, [RefreshNext]_refreshVars PROVE LoadsInv'
  OBVIOUS
<1>0. /\ created \in [Event -> 0..Cardinality(Event)] /\ loading \subseteq Event
      /\ table \subseteq Event /\ Cardinality(Event) \in Nat
  BY Data DEF ReportsInv
<1>1. ASSUME NEW e \in Event, LoadStarts(e) PROVE LoadsInv'
  <2> DEFINE c == Cardinality(Begun)
  <2>1. created[e] = 0 /\ c \in Nat /\ Cardinality(Begun \cup {e}) = c + 1
    BY <1>0, <1>1, NextPlace DEF LoadStarts
  <2>2. created' = [created EXCEPT ![e] = c + 1] /\ loading' = loading \cup {e} /\ table' = table
    BY <1>1 DEF LoadStarts, Begun
  <2>3. Begun' = Begun \cup {e}
    BY <1>0, <2>1, <2>2 DEF Begun
  <2> HIDE DEF c
  <2>4. \A f \in Event : created[f] \in Nat /\ created[f] <= c
    BY <1>0 DEF ReportsInv, LoadsInv, c
  <2>5. e \notin loading /\ e \notin table
    BY <2>1 DEF ReportsInv, LoadsInv
  <2>6. \A f \in Event : created'[f] = 0 <=> f \notin loading' \cup table'
    BY <1>0, <2>1, <2>2 DEF ReportsInv, LoadsInv
  <2>7. \A f \in Event : created'[f] <= Cardinality(Begun')
    BY <1>0, <2>1, <2>2, <2>3, <2>4
  <2>8. \A f, g \in loading' : Same(f, g) => f = g
    BY <1>1, <2>2 DEF ReportsInv, LoadsInv, LoadStarts, Same
  <2>9. \A f \in loading', g \in table' : Same(f, g) => created'[g] < created'[f]
    BY <1>0, <2>1, <2>2, <2>4, <2>5 DEF ReportsInv, LoadsInv
  <2> QED
    BY <2>2, <2>5, <2>6, <2>7, <2>8, <2>9 DEF ReportsInv, LoadsInv, Same
<1>2. ASSUME NEW e \in Event, LoadCommits(e) PROVE LoadsInv'
  BY <1>0, <1>2 DEF ReportsInv, LoadsInv, LoadCommits, Begun, Same
<1>3. CASE UNCHANGED <<created, loading, table>>
  BY <1>3 DEF ReportsInv, LoadsInv, Begun, Same
<1>4. CASE \/ PassTick \/ StampRefresh \/ TriggerFails \/ UNCHANGED refreshVars
           \/ \E s \in unpolled : UnpolledEnds(s)
           \/ \E x \in Execution : \/ TriggerRefresh(x) \/ RecalculateByHand(x) \/ Refreshes(x)
                                   \/ RefreshFails(x) \/ \E a \in App : MarkIsLost(x, a)
  <2>1. UNCHANGED <<created, loading, table>>
    BY ZenonT(60), <1>4 DEF PassTick, StampRefresh, TriggerFails, refreshVars, TriggerRefresh,
       RecalculateByHand, Refreshes, RefreshFails, MarkIsLost, CheckRefreshStart, RefreshEnds,
       UnpolledEnds, RefreshBasicView, CheckStartSp, RefreshSp, MarkRefreshed
  <2> QED
    BY <1>3, <2>1
<1> QED
  BY <1>1, <1>2, <1>4 DEF RefreshNext

\* How far back a refresh of the base view goes, at least.
LEMMA HoursEnough ==
    ASSUME ReportsInv, NEW x \in Execution, Refreshing(x)
    PROVE  HoursAgo(x) \in Int /\ Freshness <= HoursAgo(x)
<1>1. /\ refresh[x].from \in Int /\ TicksPerDay \in Nat /\ Freshness \in Nat /\ now \in Int
  BY Data DEF ReportsInv
<1>2. refresh[x].from * TicksPerDay \in Int
  BY <1>1
<1>3. CASE refresh[x].manual
  <2>1. refresh[x].from * TicksPerDay <= now - Freshness
    BY <1>3 DEF ReportsInv, HoursInv
  <2> QED
    BY <1>1, <1>2, <1>3, <2>1 DEF HoursAgo
<1>4. CASE ~refresh[x].manual
  BY <1>1, <1>4 DEF HoursAgo
<1> QED
  BY <1>3, <1>4

\* After a refresh of its base view an application has all its fresh events in it.
LEMMA ViewTakesFresh ==
    ASSUME ReportsInv, NEW a \in App, NEW ago \in Int, Freshness <= ago,
           view' = view \cup NewEvents(a, ago)
    PROVE  \A e \in table : AppOf[e] = a /\ Fresh(e, Freshness) => e \in view'
<1>1. Freshness \in Nat
  BY RefreshViewsAssumption
<1>2. /\ now \in Int /\ TimeOf \in [Event -> Nat] /\ table \subseteq Event /\ view \subseteq table
      /\ \A e \in Event : created[e] \in Nat
  BY Data DEF ReportsInv
<1>3. SUFFICES ASSUME NEW e \in table \ view, AppOf[e] = a, Fresh(e, Freshness)
               PROVE  e \in NewEvents(a, ago)
  OBVIOUS
<1>4. Fresh(e, ago)
  BY <1>1, <1>2, <1>3 DEF Fresh
<1>5. \A f \in view : AppOf[f] = a => created[e] >= created[f]
  BY <1>2, <1>3 DEF ReportsInv, ViewInv, Same
<1> QED
  BY <1>3, <1>4, <1>5 DEF NewEvents

\* A refresh of the base view that goes back far enough keeps its invariant.
LEMMA ViewTakes ==
    ASSUME ReportsInv, NEW a \in App, NEW ago \in Int, Freshness <= ago,
           view' = view \cup NewEvents(a, ago), UNCHANGED <<now, created, table>>
    PROVE  ViewInv'
<1>1. \A e \in table : AppOf[e] = a /\ Fresh(e, Freshness) => e \in view'
  BY ViewTakesFresh
<1>2. \A f \in view' : f \in view \/ AppOf[f] = a
  BY DEF NewEvents
<1> QED
  BY <1>1, <1>2 DEF ReportsInv, ViewInv, Same, Fresh

LEMMA ViewStep == ReportsInv /\ [RefreshNext]_refreshVars => ViewInv'
<1> SUFFICES ASSUME ReportsInv, [RefreshNext]_refreshVars PROVE ViewInv'
  OBVIOUS
<1>0. /\ created \in [Event -> 0..Cardinality(Event)] /\ Cardinality(Event) \in Nat
      /\ loading \subseteq Event /\ table \subseteq Event /\ view \subseteq table
      /\ now \in Int /\ TimeOf \in [Event -> Nat] /\ Freshness \in Nat
  BY Data DEF ReportsInv
<1>1. CASE PassTick
  <2>1. \A e \in Event : Fresh(e, Freshness)' => Fresh(e, Freshness)
    BY <1>0, <1>1 DEF PassTick, Fresh
  <2> QED
    BY <1>0, <1>1, <2>1 DEF PassTick, ReportsInv, ViewInv, Same
<1>2. ASSUME NEW e \in Event, LoadStarts(e) PROVE ViewInv'
  <2>1. e \notin table
    BY <1>2 DEF LoadStarts, ReportsInv, LoadsInv
  <2>2. \A f \in table : created'[f] = created[f]
    BY <1>0, <1>2, <2>1 DEF LoadStarts
  <2> QED
    BY <1>0, <1>2, <2>2 DEF LoadStarts, ReportsInv, ViewInv, Same, Fresh
<1>3. ASSUME NEW e \in Event, LoadCommits(e) PROVE ViewInv'
  BY <1>0, <1>3 DEF LoadCommits, ReportsInv, LoadsInv, ViewInv, Same, Fresh
<1>4. ASSUME NEW x \in Execution, NEW a \in App, RefreshBasicView(x, a) PROVE ViewInv'
  <2>1. HoursAgo(x) \in Int /\ Freshness <= HoursAgo(x)
    BY <1>4, HoursEnough DEF RefreshBasicView, Refreshing
  <2> QED
    BY <1>4, <2>1, ViewTakes DEF RefreshBasicView
<1>5. CASE UNCHANGED <<now, created, table, view>>
  BY <1>5 DEF ReportsInv, ViewInv, Same, Fresh
<1>6. CASE \/ StampRefresh \/ TriggerFails \/ UNCHANGED refreshVars
           \/ \E x \in Execution :
                 \/ TriggerRefresh(x) \/ RecalculateByHand(x) \/ CheckRefreshStart(x)
                 \/ RefreshEnds(x) \/ RefreshFails(x)
                 \/ \E a \in App : \/ CheckStartSp(x, a) \/ RefreshSp(x, a)
                                   \/ MarkRefreshed(x, a) \/ MarkIsLost(x, a)
  <2>1. UNCHANGED <<now, created, table, view>>
    BY ZenonT(60), <1>6 DEF StampRefresh, TriggerFails, refreshVars, TriggerRefresh,
       RecalculateByHand, RefreshFails, MarkIsLost, CheckRefreshStart, RefreshEnds,
       CheckStartSp, RefreshSp, MarkRefreshed
  <2> QED
    BY <1>5, <2>1
<1>7. ASSUME NEW s \in unpolled, UnpolledEnds(s) PROVE ViewInv'
  <2>1. s.app \in App
    BY DEF ReportsInv, RefreshTypeOK, Statement
  <2>2. CASE view' = view
    BY <1>5, <1>7, <2>2 DEF UnpolledEnds
  <2>3. CASE s.sp = 0 /\ view' = view \cup NewEvents(s.app, s.ago)
    <3>1. s.ago \in Int /\ Freshness <= s.ago
      BY <2>3 DEF ReportsInv, UnpolledInv
    <3> QED
      BY <1>7, <2>1, <2>3, <3>1, ViewTakes DEF UnpolledEnds
  <2> QED
    BY <1>7, <2>2, <2>3 DEF UnpolledEnds
<1> QED
  BY <1>1, <1>2, <1>3, <1>4, <1>6, <1>7 DEF RefreshNext, Refreshes

LEMMA UnpolledStep == ReportsInv /\ [RefreshNext]_refreshVars => UnpolledInv'
<1> SUFFICES ASSUME ReportsInv, [RefreshNext]_refreshVars PROVE UnpolledInv'
  OBVIOUS
<1>1. CASE unpolled' \subseteq unpolled
  BY <1>1 DEF ReportsInv, UnpolledInv
<1>2. ASSUME NEW x \in Execution, RefreshFails(x) PROVE UnpolledInv'
  <2>1. ASSUME NEW s \in Submitted(x), s.sp = 0 PROVE s.ago \in Int /\ Freshness <= s.ago
    <3>1. s.ago = HoursAgo(x)
      BY <2>1 DEF Submitted
    <3>2. refresh[x].step = "apps" \/ (refresh[x].step = "sp" /\ 0 = refresh[x].sp + 1)
      BY <2>1 DEF Submitted
    <3>3. Refreshing(x)
      BY <3>2 DEF Refreshing
    <3> QED
      BY <3>1, <3>3, HoursEnough
  <2> QED
    BY <1>2, <2>1 DEF RefreshFails, ReportsInv, UnpolledInv
<1>3. CASE \/ PassTick \/ StampRefresh \/ TriggerFails \/ UNCHANGED refreshVars
           \/ \E e \in Event : LoadStarts(e) \/ LoadCommits(e)
           \/ \E s \in unpolled : UnpolledEnds(s)
           \/ \E x \in Execution : \/ TriggerRefresh(x) \/ RecalculateByHand(x) \/ Refreshes(x)
                                   \/ \E a \in App : MarkIsLost(x, a)
  <2>1. unpolled' \subseteq unpolled
    BY ZenonT(60), <1>3 DEF PassTick, StampRefresh, TriggerFails, refreshVars, LoadStarts,
       LoadCommits, UnpolledEnds, TriggerRefresh, RecalculateByHand, Refreshes, MarkIsLost,
       CheckRefreshStart, RefreshEnds, RefreshBasicView, CheckStartSp, RefreshSp, MarkRefreshed
  <2> QED
    BY <1>1, <2>1
<1> QED
  BY <1>2, <1>3 DEF RefreshNext

\* What the next step of an application's refresh makes of the execution.
LEMMA NextAppFields ==
    ASSUME NEW x \in Execution, NEW a \in App
    PROVE  LET r == NextApp(x, a)
           IN /\ r.step = "apps" /\ r.app = {} /\ r.due = {} /\ r.sp = 0
              /\ r.manual = refresh[x].manual /\ r.from = refresh[x].from
              /\ r.to = refresh[x].to
  BY DEF NextApp, At

LEMMA KeepsDays ==
    ASSUME refresh \in [Execution -> RefreshRecord], NEW x \in Execution, NEW a \in App,
           \/ RefreshBasicView(x, a) \/ CheckStartSp(x, a) \/ RefreshSp(x, a)
           \/ MarkRefreshed(x, a) \/ MarkIsLost(x, a)
    PROVE  /\ \A y \in Execution \ {x} : refresh'[y] = refresh[y]
           /\ refresh'[x].from = refresh[x].from /\ refresh'[x].to = refresh[x].to
           /\ refresh'[x].manual = refresh[x].manual
<1>1. \A y \in Execution \ {x} : refresh'[y] = refresh[y]
  BY DEF RefreshBasicView, CheckStartSp, RefreshSp, MarkRefreshed, MarkIsLost
<1>2. CASE refresh' = [refresh EXCEPT ![x] = NextApp(x, a)]
  BY <1>1, <1>2, NextAppFields
<1>3. CASE refresh' = [refresh EXCEPT ![x] = [refresh[x] EXCEPT !.step = "sp"]]
  BY <1>1, <1>3 DEF RefreshRecord
<1>4. CASE RefreshBasicView(x, a)
  BY <1>1, <1>4 DEF RefreshBasicView, At
<1>5. CASE RefreshSp(x, a)
  <2> DEFINE n == refresh[x].sp + 1
             r == At(x, IF n = Reports THEN "done" ELSE "sp", {a}, refresh[x].due, n)
  <2>1. refresh' = [refresh EXCEPT ![x] = r]
    BY <1>5 DEF RefreshSp
  <2>2. r.from = refresh[x].from /\ r.to = refresh[x].to /\ r.manual = refresh[x].manual
    BY DEF At
  <2> QED
    BY <1>1, <2>1, <2>2
<1> QED
  BY <1>1, <1>2, <1>3, <1>4, <1>5 DEF CheckStartSp, MarkRefreshed, MarkIsLost

LEMMA HoursStep == ReportsInv /\ [RefreshNext]_refreshVars => HoursInv'
<1> SUFFICES ASSUME ReportsInv, [RefreshNext]_refreshVars PROVE HoursInv'
  OBVIOUS
<1>0. /\ refresh \in [Execution -> RefreshRecord]
      /\ now \in Int /\ Freshness \in Nat
      /\ \A x \in Execution : refresh[x].from * TicksPerDay \in Int
  <2>1. refresh \in [Execution -> RefreshRecord]
    BY DEF ReportsInv, RefreshTypeOK, RefreshRecord
  <2>2. now \in Int /\ Freshness \in Nat /\ TicksPerDay \in Nat
    BY Data DEF ReportsInv
  <2>3. ASSUME NEW x \in Execution PROVE refresh[x].from * TicksPerDay \in Int
    <3>1. refresh[x].from \in Int
      BY Data DEF ReportsInv
    <3> QED
      BY <2>2, <3>1
  <2> QED
    BY <2>1, <2>2, <2>3
\* An execution keeps its days once it refreshes.
<1>1. ASSUME NEW x \in Execution,
             \/ TriggerRefresh(x) \/ RecalculateByHand(x) \/ RefreshEnds(x) \/ RefreshFails(x)
      PROVE  HoursInv'
  <2>1. \A y \in Execution \ {x} : refresh'[y] = refresh[y]
    BY <1>0, <1>1 DEF TriggerRefresh, RecalculateByHand, RefreshEnds, RefreshFails
  <2>2. refresh'[x].step \in {"off", "check"} /\ now' = now
    BY <1>0, <1>1 DEF TriggerRefresh, RecalculateByHand, RefreshEnds, RefreshFails, Started, Ended
  <2> QED
    BY <2>1, <2>2 DEF ReportsInv, HoursInv, Refreshing
<1>2. ASSUME NEW x \in Execution, CheckRefreshStart(x) PROVE HoursInv'
  <2>1. CASE refresh' = [refresh EXCEPT ![x].step = "skip"]
    <3>1. \A y \in Execution \ {x} : refresh'[y] = refresh[y]
      BY <1>0, <2>1
    <3>2. refresh'[x].step = "skip"
      BY <1>0, <2>1 DEF RefreshRecord
    <3> QED
      BY <1>2, <3>1, <3>2 DEF CheckRefreshStart, ReportsInv, HoursInv, Refreshing
  <2>2. ASSUME NEW days \in DaysOf(x), refresh' = [refresh EXCEPT ![x] = Continued(x, days)]
        PROVE  HoursInv'
    <3>1. \A y \in Execution \ {x} : refresh'[y] = refresh[y]
      BY <1>0, <2>2
    <3>2. refresh'[x].from = days[1] /\ refresh'[x].manual = refresh[x].manual
      BY <1>0, <2>2 DEF Continued
    <3>3. refresh[x].manual => days[1] * TicksPerDay <= now - Freshness
      BY <2>2 DEF DaysOf
    <3> QED
      BY <1>2, <3>1, <3>2, <3>3 DEF CheckRefreshStart, ReportsInv, HoursInv, Refreshing
  <2> QED
    BY <1>2, <2>1, <2>2 DEF CheckRefreshStart
<1>3. ASSUME NEW x \in Execution, NEW a \in App,
             \/ RefreshBasicView(x, a) \/ CheckStartSp(x, a) \/ RefreshSp(x, a)
             \/ MarkRefreshed(x, a) \/ MarkIsLost(x, a)
      PROVE  HoursInv'
  <2>1. /\ \A y \in Execution \ {x} : refresh'[y] = refresh[y]
        /\ refresh'[x].from = refresh[x].from /\ refresh'[x].manual = refresh[x].manual
    BY <1>0, <1>3, KeepsDays
  <2>2. Refreshing(x) /\ now' = now
    BY <1>3 DEF RefreshBasicView, CheckStartSp, RefreshSp, MarkRefreshed, MarkIsLost, Refreshing
  <2> QED
    BY <2>1, <2>2 DEF ReportsInv, HoursInv, Refreshing
<1>4. CASE PassTick
  <2>1. refresh' = refresh /\ now' = now + 1
    BY <1>4 DEF PassTick
  <2>2. \A x \in Execution :
           refresh[x].from * TicksPerDay <= now - Freshness =>
           refresh[x].from * TicksPerDay <= now' - Freshness
    <3>1. ASSUME NEW i \in Int, i <= now - Freshness PROVE i <= now + 1 - Freshness
      BY <1>0, <3>1
    <3> QED
      BY <1>0, <2>1, <3>1
  <2> QED
    BY <2>1, <2>2 DEF ReportsInv, HoursInv, Refreshing
<1>5. CASE \/ StampRefresh \/ TriggerFails \/ UNCHANGED refreshVars
           \/ \E e \in Event : LoadStarts(e) \/ LoadCommits(e)
           \/ \E s \in unpolled : UnpolledEnds(s)
  <2>1. refresh' = refresh /\ now' = now
    BY <1>5 DEF StampRefresh, TriggerFails, refreshVars, LoadStarts, LoadCommits, UnpolledEnds
  <2> QED
    BY <2>1 DEF ReportsInv, HoursInv, Refreshing
<1> QED
  BY <1>1, <1>2, <1>3, <1>4, <1>5 DEF RefreshNext, Refreshes

\* An execution that no step changes keeps what it owes, if the reports stay.
LEMMA KeepsDue ==
    ASSUME NEW x \in Execution, DueOf(x), refresh'[x] = refresh[x], view \subseteq view',
           \/ report' = report
           \/ refresh[x].manual \/ refresh[x].due = {}
    PROVE  DueOf(x)'
  BY DEF DueOf, Counted

\* An execution between two applications owes nothing.
LEMMA OwesNothing ==
    ASSUME NEW x \in Execution, refresh'[x].app = {}, refresh'[x].due = {},
           refresh'[x].step # "done"
    PROVE  DueOf(x)'
  BY DEF DueOf

LEMMA DueStep == ReportsInv /\ [RefreshNext]_refreshVars => DueInv'
<1> SUFFICES ASSUME ReportsInv, [RefreshNext]_refreshVars PROVE DueInv'
  OBVIOUS
<1>0. refresh \in [Execution -> RefreshRecord] /\ DueInv /\ view \subseteq table
      /\ table \subseteq Event
  BY DEF ReportsInv, RefreshTypeOK, RefreshRecord
\* Only the execution that refreshes owes anything.
<1>1. ASSUME NEW x \in Execution, Refreshing(x), NEW y \in Execution \ {x}
      PROVE  refresh[y].manual \/ refresh[y].due = {}
  <2>1. refresh[y].app = {}
    BY <1>0, <1>1 DEF DueInv, DueOf, ReportsInv, OneRefresh, Refreshing
  <2> QED
    BY <1>0, <2>1 DEF DueInv, DueOf
<1>2. ASSUME NEW x \in Execution,
             \/ TriggerRefresh(x) \/ RecalculateByHand(x) \/ RefreshEnds(x) \/ RefreshFails(x)
      PROVE  DueInv'
  <2>1. /\ \A y \in Execution \ {x} : refresh'[y] = refresh[y]
        /\ view' = view /\ report' = report
    BY <1>0, <1>2 DEF TriggerRefresh, RecalculateByHand, RefreshEnds, RefreshFails
  <2>2. refresh'[x].app = {} /\ refresh'[x].due = {} /\ refresh'[x].step # "done"
    BY <1>0, <1>2 DEF TriggerRefresh, RecalculateByHand, RefreshEnds, RefreshFails, Started, Ended
  <2> QED
    BY <1>0, <2>1, <2>2, KeepsDue, OwesNothing DEF DueInv
<1>3. ASSUME NEW x \in Execution, CheckRefreshStart(x) PROVE DueInv'
  <2>1. CASE refresh' = [refresh EXCEPT ![x].step = "skip"]
    <3>1. /\ \A y \in Execution \ {x} : refresh'[y] = refresh[y]
          /\ view' = view /\ report' = report
      BY <1>0, <1>3, <2>1 DEF CheckRefreshStart
    <3>2. /\ refresh'[x].step = "skip" /\ refresh'[x].app = refresh[x].app
          /\ refresh'[x].due = refresh[x].due /\ refresh'[x].sp = refresh[x].sp
          /\ refresh'[x].manual = refresh[x].manual
      BY <1>0, <2>1 DEF RefreshRecord
    <3>3. refresh[x].app = {} /\ (refresh[x].manual \/ refresh[x].due = {})
      BY <1>0, <1>3 DEF CheckRefreshStart, DueInv, DueOf
    <3>4. DueOf(x)'
      BY <3>2, <3>3 DEF DueOf
    <3> QED
      BY <1>0, <3>1, <3>4, KeepsDue DEF DueInv
  <2>2. ASSUME NEW days \in DaysOf(x), refresh' = [refresh EXCEPT ![x] = Continued(x, days)]
        PROVE  DueInv'
    <3>1. /\ \A y \in Execution \ {x} : refresh'[y] = refresh[y]
          /\ view' = view /\ report' = report
      BY <1>0, <1>3, <2>2 DEF CheckRefreshStart
    <3>2. refresh'[x].app = {} /\ refresh'[x].due = {} /\ refresh'[x].step # "done"
      BY <1>0, <2>2 DEF Continued
    <3> QED
      BY <1>0, <3>1, <3>2, KeepsDue, OwesNothing DEF DueInv
  <2> QED
    BY <1>3, <2>1, <2>2 DEF CheckRefreshStart
<1>4. ASSUME NEW x \in Execution, NEW a \in App, RefreshBasicView(x, a) PROVE DueInv'
  <2>1. /\ \A y \in Execution \ {x} : refresh'[y] = refresh[y]
        /\ refresh'[x].from = refresh[x].from /\ refresh'[x].to = refresh[x].to
        /\ refresh'[x].manual = refresh[x].manual
    BY <1>0, <1>4, KeepsDays
  <2>2. view \subseteq view' /\ report' = report
    BY <1>4 DEF RefreshBasicView
  <2>3. /\ refresh'[x].app = {a} /\ refresh'[x].due = Due(x, a) /\ refresh'[x].sp = 0
        /\ refresh'[x].step = "start sp"
    BY <1>0, <1>4 DEF RefreshBasicView, At
  <2>4. ~refresh[x].manual => Due(x, a) \subseteq view'
    <3>1. HoursAgo(x) \in Int /\ Freshness <= HoursAgo(x)
      BY <1>4, HoursEnough DEF RefreshBasicView, Refreshing
    <3>2. view' = view \cup NewEvents(a, HoursAgo(x))
      BY <1>4 DEF RefreshBasicView
    <3>3. \A e \in table : AppOf[e] = a /\ Fresh(e, Freshness) => e \in view'
      BY <3>1, <3>2, ViewTakesFresh
    <3> QED
      BY <3>3 DEF Due, HoursAgo
  <2>5. \A e \in Due(x, a) : AppOf[e] = a /\ DayOfEvent(e) \in Counted(x)'
    BY <2>1 DEF Due, Counted
  <2>6. DueOf(x)'
    <3>1. ~\E n \in 1..0 : TRUE
      OBVIOUS
    <3>2. \A e \in Event : DayOfEvent(e)' = DayOfEvent(e)
      BY DEF DayOfEvent
    <3>3. Due(x, a) \subseteq Event
      BY <1>0 DEF Due
    <3> QED
      BY <2>1, <2>3, <2>4, <2>5, <3>1, <3>2, <3>3 DEF DueOf
  <2> QED
    BY <1>0, <2>1, <2>2, <2>6, KeepsDue DEF DueInv
<1>5. ASSUME NEW x \in Execution, NEW a \in App,
             CheckStartSp(x, a) \/ MarkRefreshed(x, a) \/ MarkIsLost(x, a)
      PROVE  DueInv'
  <2>1. /\ \A y \in Execution \ {x} : refresh'[y] = refresh[y]
        /\ view' = view /\ report' = report
    BY <1>0, <1>5 DEF CheckStartSp, MarkRefreshed, MarkIsLost
  <2>2. CASE refresh' = [refresh EXCEPT ![x] = NextApp(x, a)]
    <3>1. refresh'[x].app = {} /\ refresh'[x].due = {} /\ refresh'[x].step # "done"
      BY <1>0, <2>2, NextAppFields
    <3> QED
      BY <1>0, <2>1, <3>1, KeepsDue, OwesNothing DEF DueInv
  <2>3. CASE refresh' = [refresh EXCEPT ![x] = [refresh[x] EXCEPT !.step = "sp"]]
    <3>1. /\ refresh'[x].step = "sp" /\ refresh'[x].app = refresh[x].app
          /\ refresh'[x].due = refresh[x].due /\ refresh'[x].sp = refresh[x].sp
          /\ refresh'[x].manual = refresh[x].manual
          /\ refresh'[x].from = refresh[x].from /\ refresh'[x].to = refresh[x].to
      BY <1>0, <2>3 DEF RefreshRecord
    <3>2. DueOf(x)'
      BY <1>0, <2>1, <3>1 DEF DueInv, DueOf, Counted
    <3> QED
      BY <1>0, <2>1, <3>2, KeepsDue DEF DueInv
  <2> QED
    BY <1>5, <2>2, <2>3 DEF CheckStartSp, MarkRefreshed, MarkIsLost
<1>6. ASSUME NEW x \in Execution, NEW a \in App, RefreshSp(x, a) PROVE DueInv'
  <2> DEFINE n == refresh[x].sp + 1
             Of(S) == {e \in S : AppOf[e] = a /\ DayOfEvent(e) \in Counted(x)}
  <2>1. /\ \A y \in Execution \ {x} : refresh'[y] = refresh[y]
        /\ refresh'[x].from = refresh[x].from /\ refresh'[x].to = refresh[x].to
        /\ refresh'[x].manual = refresh[x].manual
    BY <1>0, <1>6, KeepsDays
  <2>2. /\ refresh'[x].app = {a} /\ refresh'[x].due = refresh[x].due
        /\ refresh'[x].sp = n /\ view' = view
        /\ refresh'[x].step = IF n = Reports THEN "done" ELSE "sp"
    BY <1>0, <1>6 DEF RefreshSp, At
  <2>3. report' = [report EXCEPT ![n] = (report[n] \ Of(report[n])) \cup Of(view)]
    BY <1>6 DEF RefreshSp, CountsAgain, OfDays
  <2>4. refresh[x].app = {a}
    BY <1>6 DEF RefreshSp
  <2>5. refresh[x].sp \in Nat /\ n \in 1..Reports
    BY <1>0, <1>6, Fields, RefreshViewsAssumption DEF RefreshSp
  <2>6. ASSUME ~refresh[x].manual, NEW m \in 1..n PROVE refresh[x].due \subseteq report'[m]
    <3>1. DOMAIN report = 1..Reports
      BY DEF ReportsInv, RefreshTypeOK
    <3>2. refresh[x].due \subseteq Of(view)
      BY <1>0, <2>4, <2>6 DEF DueInv, DueOf
    <3>3. CASE m = n
      BY <2>3, <2>5, <3>1, <3>2, <3>3
    <3>4. CASE m # n
      <4>1. m \in 1..refresh[x].sp /\ m \in 1..Reports
        BY <2>5, <2>6, <3>4, RefreshViewsAssumption
      <4>2. report'[m] = report[m]
        BY <2>3, <3>1, <3>4, <4>1
      <4> QED
        BY <1>0, <2>6, <4>1, <4>2 DEF DueInv, DueOf
    <3> QED
      BY <3>3, <3>4
  <2>7. DueOf(x)'
    <3>1. ~refresh[x].manual =>
             /\ refresh[x].due \subseteq view'
             /\ \A e \in refresh[x].due : AppOf[e] = a /\ DayOfEvent(e) \in Counted(x)'
      BY <1>0, <2>1, <2>2, <2>4 DEF DueInv, DueOf, Counted
    <3> HIDE DEF n
    <3> QED
      BY <2>1, <2>2, <2>6, <3>1 DEF DueOf, DayOfEvent
  <2>8. ASSUME NEW y \in Execution \ {x} PROVE DueOf(y)'
    <3>1. refresh[y].manual \/ refresh[y].due = {}
      BY <1>1, <1>6 DEF RefreshSp, Refreshing
    <3> QED
      BY <1>0, <2>1, <2>2, <3>1, KeepsDue DEF DueInv
  <2> QED
    BY <2>7, <2>8 DEF DueInv
<1>7. CASE \/ PassTick \/ StampRefresh \/ TriggerFails \/ UNCHANGED refreshVars
           \/ \E e \in Event : LoadStarts(e) \/ LoadCommits(e)
  <2>1. refresh' = refresh /\ view' = view /\ report' = report
    BY <1>7 DEF PassTick, StampRefresh, TriggerFails, refreshVars, LoadStarts, LoadCommits
  <2> QED
    BY <1>0, <2>1, KeepsDue DEF DueInv
\* What a statement left running counts again, it counts from the view, which has
\* all that is owed.
<1>8. ASSUME NEW s \in unpolled, UnpolledEnds(s) PROVE DueInv'
  <2> DEFINE Of(S) == OfDays(S, s.app, s.from..s.to)
  <2>1. refresh' = refresh /\ view \subseteq view'
    BY <1>8 DEF UnpolledEnds
  <2>2. CASE report' = report
    BY <1>0, <2>1, <2>2, KeepsDue DEF DueInv
  <2>3. CASE report' = [report EXCEPT ![s.sp] = (report[s.sp] \ Of(report[s.sp])) \cup Of(view)]
    <3>1. DOMAIN report = 1..Reports
      BY DEF ReportsInv, RefreshTypeOK
    <3>2. ASSUME NEW x \in Execution, ~refresh[x].manual, NEW n \in 1..refresh[x].sp
          PROVE  refresh[x].due \subseteq report'[n]
      <4>1. refresh[x].due \subseteq view /\ refresh[x].due \subseteq report[n]
        BY <1>0, <3>2 DEF DueInv, DueOf
      <4>2. n \in 1..Reports
        <5>1. refresh[x].sp \in 0..Reports /\ Reports \in Nat
          BY <1>0, Fields, RefreshViewsAssumption
        <5> QED
          BY <3>2, <5>1
      <4>3. ASSUME NEW e \in refresh[x].due PROVE e \in report'[n]
        <5>1. e \in Of(report[s.sp]) => e \in Of(view)
          BY <4>1, <4>3 DEF OfDays
        <5>2. n = s.sp => report'[n] = (report[n] \ Of(report[n])) \cup Of(view)
          BY <2>3, <3>1, <4>2
        <5>3. n # s.sp => report'[n] = report[n]
          BY <2>3, <3>1, <4>2
        <5> HIDE DEF Of
        <5> QED
          BY <4>1, <4>3, <5>1, <5>2, <5>3
      <4> QED
        BY <4>3
    <3>3. ASSUME NEW x \in Execution PROVE DueOf(x)'
      BY <1>0, <2>1, <3>2 DEF DueInv, DueOf, Counted, DayOfEvent
    <3> QED
      BY <3>3 DEF DueInv
  <2> QED
    BY <1>8, <2>2, <2>3 DEF UnpolledEnds, CountsAgain
<1> QED
  BY <1>2, <1>3, <1>4, <1>5, <1>6, <1>7, <1>8 DEF RefreshNext, Refreshes

LEMMA ReportsInvariant == RefreshSpec => []ReportsInv
<1>1. ReportsInv /\ [RefreshNext]_refreshVars => ReportsInv'
  <2> SUFFICES ASSUME ReportsInv, [RefreshNext]_refreshVars PROVE ReportsInv'
    OBVIOUS
  <2>1. RefreshTypeOK'
    BY RefreshTypeStep DEF ReportsInv
  <2>2. OneRefresh'
    BY OneRefreshStep DEF ReportsInv
  <2> QED
    BY <2>1, <2>2, LoadsStep, ViewStep, HoursStep, UnpolledStep, DueStep DEF ReportsInv
<1> QED
  BY <1>1, ReportsInvInit, PTL DEF RefreshSpec

\* The step that marks a day is the last of the one execution that refreshes,
\* which has all that it owes in every report by then.
LEMMA MarkedWhenCounted ==
    ASSUME ReportsInv, [RefreshNext]_refreshVars,
           NEW a \in App, marked'[a] # marked[a],
           NEW x \in Execution, refresh[x].app = {a}, NEW n \in 1..Reports
    PROVE  refresh[x].due \subseteq report[n]
<1>1. PICK y \in Execution, b \in App : MarkRefreshed(y, b)
  BY ZenonT(60) DEF RefreshNext, Refreshes, refreshVars, PassTick, StampRefresh, TriggerFails,
     LoadStarts, LoadCommits, TriggerRefresh, RecalculateByHand, CheckRefreshStart,
     RefreshEnds, RefreshFails, RefreshBasicView, CheckStartSp, RefreshSp, MarkIsLost,
     UnpolledEnds
<1>2. ~refresh[y].manual /\ refresh[y].step = "done"
  BY <1>1 DEF MarkRefreshed
<1>3. Refreshing(x) /\ Refreshing(y)
  BY <1>2 DEF ReportsInv, DueInv, DueOf, Refreshing
<1>4. x = y
  BY <1>3 DEF ReportsInv, OneRefresh
<1>5. refresh[x].sp = Reports
  BY <1>2, <1>4 DEF ReportsInv, DueInv, DueOf
<1> QED
  BY <1>2, <1>4, <1>5 DEF ReportsInv, DueInv, DueOf

\* When a day is marked, every report has counted all that was there to count
\* when the base view was refreshed: no event falls between two refreshes, also
\* beside statements that failed executions left running.
THEOREM ReportsCountAll == RefreshSpec => ReportsComplete
<1>1. ReportsInv /\ [RefreshNext]_refreshVars =>
        [\A a \in App : marked'[a] # marked[a] =>
            \A x \in Execution : refresh[x].app = {a} =>
                \A n \in 1..Reports : refresh[x].due \subseteq report[n]]_refreshVars
  BY MarkedWhenCounted
<1> QED
  BY <1>1, ReportsInvariant, PTL DEF RefreshSpec, ReportsComplete
=============================================================================
