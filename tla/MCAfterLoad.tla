---------------------------- MODULE MCAfterLoad ----------------------------
(* The two workflows that the end of a load starts.  They share no state, so *)
(* each behaviour is one of either of them, the other being at rest.         *)
EXTENDS ScanMetadata, RefreshViews, TLC

CONSTANTS v1, v2, v3, p1, s1, s2

VARIABLE part  \* the workflow that runs

(* Two events of the first day, one of the second.  The third is too late to  *)
(* get into a report.                                                        *)
Days001 == v1 :> 0 @@ v2 :> 0 @@ v3 :> 1
Ticks012 == v1 :> 0 @@ v2 :> 1 @@ v3 :> 2
OneApp == v1 :> p1 @@ v2 :> p1 @@ v3 :> p1

AfterInit == ScanInit /\ RefreshInit /\ part \in {"scan", "refresh"}

(* Names are alike: the second execution starts only beside the first. *)
FirstOf(executions, later) ==
    executions[s1].step = "off" /\ executions[s2].step = "off" => later[s2].step = "off"

(* What bounds the scan: a manual one is of both days, a job ends on every    *)
(* day, and an event of the first day is loaded first.                        *)
Bounded ==
    /\ \A x \in Exec : scan'[x].manual => scan'[x].start = 0 /\ scan'[x].end = 2
    /\ today' # today => jobDay = today
    /\ v1 \in loaded' \/ loaded' = {}

InScan(A) ==
    /\ part = "scan" /\ A /\ UNCHANGED <<part, refreshVars>>
    /\ FirstOf(scan, scan') /\ Bounded
InRefresh(A) ==
    /\ part = "refresh" /\ A /\ UNCHANGED <<part, scanVars>>
    /\ FirstOf(refresh, refresh')

AfterNext == InScan(ScanNext) \/ InRefresh(RefreshNext)

afterVars == <<part, scanVars, refreshVars>>

(* ScanFairness and RefreshFairness, each when its workflow runs: a condition *)
(* of the one and a condition of the other are one here, since only one of    *)
(* them can ever be enabled in a behaviour.                                   *)
AfterFairness ==
    /\ WF_afterVars(InScan(Pass) \/ InRefresh(PassTick))
    /\ WF_afterVars(InScan(JobEnds) \/ InRefresh(StampRefresh))
    /\ WF_afterVars(\/ InScan(\E x \in Exec : StartAfterLoad(x))
                    \/ InRefresh(\E x \in Execution : TriggerRefresh(x)))
    /\ \A x \in Exec : WF_afterVars(InScan(Proceed(x)) \/ InRefresh(Refreshes(x)))
    /\ WF_afterVars(\/ InScan(\E call \in calls : CallEnds(call))
                    \/ InRefresh(\E e \in Event : LoadCommits(e)))

AfterSpec == AfterInit /\ [][AfterNext]_afterVars /\ AfterFairness
=============================================================================
