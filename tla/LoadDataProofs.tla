--------------------------- MODULE LoadDataProofs ---------------------------
(* What holds of the load-data workflow for every set of tables,           *)
(* applications, files and executions, and every bound.                    *)
EXTENDS LoadData, FunctionTheorems, TLAPS

-----------------------------------------------------------------------------
(* Lemmas about the operators of the ledger.                               *)

\* An update of job_status keeps the ledger a function to item statuses.
LEMMA MarkedType ==
    ASSUME TypeOK, NEW S, NEW status \in Indexed
    PROVE  Marked(S, status) \in [File -> ItemStatus]
BY DEF TypeOK, Marked, ItemStatus, Indexed

LEMMA DeletedType ==
    ASSUME TypeOK, NEW S
    PROVE  Deleted(S) \in [File -> ItemStatus]
BY DEF TypeOK, Deleted, ItemStatus

\* The sub-workflows that end leave well-typed variables behind.
LEMMA StopType ==
    ASSUME TypeOK, NEW S, NEW next \in {"idle", "failed"}, Stop(S, next)
    PROVE  /\ pc' \in [Sub -> Working \cup {"idle", "succeeded", "failed"}]
           /\ asked' \in [Exec \cup Sub -> Nat]
           /\ files' \in [Sub -> SUBSET File]
           /\ queue' \in [Sub -> SUBSET SUBSET File]
           /\ retry' \in [Sub -> Nat]
           /\ stmt' \in [Sub -> StatementStatus]
BY DEF TypeOK, Stop, StatementStatus

LEMMA UnpolledType ==
    ASSUME TypeOK, NEW S \in SUBSET Sub
    PROVE  Unpolled(S) \subseteq SUBSET File
BY DEF TypeOK, Unpolled

LEMMA ManifestsType ==
    ASSUME NEW S \in SUBSET File
    PROVE  Manifests(S) \subseteq SUBSET File
BY DEF Manifests

LEMMA NextManifestType ==
    ASSUME TypeOK, NEW s \in Sub, NEW q \in SUBSET SUBSET File, NextManifest(s, q)
    PROVE  /\ pc' \in [Sub -> Working \cup {"idle", "succeeded", "failed"}]
           /\ asked' \in [Exec \cup Sub -> Nat]
           /\ files' \in [Sub -> SUBSET File]
           /\ queue' \in [Sub -> SUBSET SUBSET File]
           /\ retry' \in [Sub -> Nat]
           /\ stmt' \in [Sub -> StatementStatus]
BY DEF TypeOK, NextManifest, StatementStatus, Working

\* What a query returns is on the ledger as the index shows it.
LEMMA AnswerFiles ==
    ASSUME NEW i, NEW queries
    PROVE  Answer(i, queries) \in SUBSET File
BY DEF Answer, Result, Items

LEMMA CandidatesIndexed ==
    ASSUME NEW s \in Sub
    PROVE  Answer(s, CandidateQueries[s[2]]) \in SUBSET {f \in File : index[f] \in Indexed}
<1>1. PICK queries : queries = CandidateQueries[s[2]] OBVIOUS
<1>2. queries = <<[table |-> s[2], status |-> "NEW"], [table |-> s[2], status |-> "PROCESSING"],
                  [table |-> s[2], status |-> "ENQUEUE"]>>
  BY <1>1 DEF CandidateQueries, Sub
<1>3. \A n \in DOMAIN queries : queries[n].status \in Indexed
  BY <1>2 DEF Indexed
<1>. QED BY <1>1, <1>3 DEF Answer, Asked, Result, Items

LEMMA AsksType ==
    ASSUME TypeOK, NEW i \in Exec \cup Sub, NEW over, Asks(i, over)
    PROVE  asked' \in [Exec \cup Sub -> Nat]
BY DEF TypeOK, Asks

LEMMA MishapType ==
    ASSUME TypeOK, Mishap
    PROVE  mishaps' \in Nat
BY DEF TypeOK, Mishap

LEMMA CutShortType ==
    ASSUME TypeOK, NEW s \in Sub, NEW sent, CutShort(s, sent)
    PROVE  store' \in [File -> ItemStatus]
<1>1. \A S : Marked(S, "ENQUEUE") \in [File -> ItemStatus]
  BY MarkedType DEF Indexed
<1>2. \A S : Marked(S, "PROCESSING") \in [File -> ItemStatus]
  BY MarkedType DEF Indexed
<1>3. \A S : Deleted(S) \in [File -> ItemStatus]
  BY DeletedType
<1>4. store \in [File -> ItemStatus]
  BY DEF TypeOK
<1> QED
  BY <1>1, <1>2, <1>3, <1>4 DEF CutShort

-----------------------------------------------------------------------------
(* Type correctness.                                                       *)

LEMMA LedgerTypeStep ==
    ASSUME TypeOK, NEW f \in File,
           ObjectCreated(f) \/ ObjectCreatedAgain(f) \/ Propagate(f)
    PROVE  TypeOK'
<1>1. CASE ObjectCreated(f)
  BY <1>1 DEF TypeOK, ObjectCreated, subVars, ItemStatus, Indexed
<1>2. CASE ObjectCreatedAgain(f)
  BY <1>2, MishapType DEF TypeOK, ObjectCreatedAgain, subVars, historyVars, ItemStatus, Indexed
<1>3. CASE Propagate(f)
  BY <1>3 DEF TypeOK, Propagate, InIndex, subVars, historyVars, ItemStatus
<1> QED
  BY <1>1, <1>2, <1>3

LEMMA MainTypeStep ==
    ASSUME TypeOK, NEW e \in Exec, Trigger(e) \/ MainStep(e)
    PROVE  TypeOK'
<1>1. CASE Trigger(e)
  BY <1>1 DEF TypeOK, Trigger, ledgerVars, historyVars, subVars
<1>2. CASE CountPending(e)
  <2>1. asked' \in [Exec \cup Sub -> Nat] BY <1>2, AsksType DEF CountPending
  <2>. QED BY <1>2, <2>1 DEF TypeOK, CountPending, ledgerVars, historyVars
<1>3. CASE ListExecutions(e)
  BY <1>3 DEF TypeOK, ListExecutions, ledgerVars, historyVars, Working
<1>4. CASE EndExecution(e)
  BY <1>4 DEF TypeOK, EndExecution, ledgerVars, historyVars, subVars
<1>5. CASE AllBranchesSucceeded(e)
  <2>1. Stop({e} \X Table, "idle")
    BY <1>5 DEF AllBranchesSucceeded
  <2> QED
    BY <1>5, <2>1, StopType DEF TypeOK, AllBranchesSucceeded, ledgerVars, historyVars
<1>6. CASE BranchFailed(e)
  <2> DEFINE ended == {s \in {e} \X Table : PromptStop \/ pc[s] \in {"failed", "succeeded"}}
  <2>1. Stop(ended, "idle") /\ orphans' = orphans \cup Unpolled(ended)
    BY <1>6 DEF BranchFailed
  <2>2. ended \in SUBSET Sub
    BY DEF Sub
  <2> HIDE DEF ended
  <2>3. Unpolled(ended) \subseteq SUBSET File
    BY <2>2, UnpolledType
  <2> QED
    BY <1>6, <2>1, <2>3, StopType DEF TypeOK, BranchFailed, ledgerVars, historyVars
<1> QED
  BY <1>1, <1>2, <1>3, <1>4, <1>5, <1>6 DEF MainStep

LEMMA SubTypeStep ==
    ASSUME TypeOK, NEW s \in Sub, SubStep(s)
    PROVE  TypeOK'
<1>1. CASE QueryCandidates(s)
  <2>1. asked' \in [Exec \cup Sub -> Nat] BY <1>1, AsksType DEF QueryCandidates
  <2>2. PICK S \in SUBSET Answer(s, CandidateQueries[s[2]]) : files' = [files EXCEPT ![s] = @ \cup S]
    BY <1>1 DEF QueryCandidates
  <2>3. files' \in [Sub -> SUBSET File]
    <3>1. S \in SUBSET File BY AnswerFiles
    <3>. QED BY <2>2, <3>1 DEF TypeOK
  <2>4. pc' \in [Sub -> Working \cup {"idle", "succeeded", "failed"}]
    BY <1>1 DEF QueryCandidates, TypeOK, Working
  <2>. QED BY <1>1, <2>1, <2>3, <2>4 DEF TypeOK, QueryCandidates, ledgerVars, historyVars
<1>2. CASE WaitAndCheckAgain(s)
  BY <1>2 DEF TypeOK, WaitAndCheckAgain, ledgerVars, historyVars, Working
<1>3. CASE Enqueue(s)
  <2>1. store' \in [File -> ItemStatus]
    BY <1>3, MarkedType DEF Enqueue, Indexed
  <2>2. NextManifest(s, Manifests(files[s])) /\ Manifests(files[s]) \in SUBSET SUBSET File
    BY <1>3, ManifestsType DEF Enqueue, TypeOK
  <2> QED
    BY <1>3, <2>1, <2>2, NextManifestType DEF TypeOK, Enqueue, historyVars
<1>4. CASE EnqueueRefused(s)
  <2>1. store' \in [File -> ItemStatus]
    BY <1>4, MarkedType DEF EnqueueRefused, Indexed
  <2>2. Stop({s}, "failed")
    BY <1>4 DEF EnqueueRefused
  <2> QED
    BY <1>4, <2>1, <2>2, StopType DEF TypeOK, EnqueueRefused, historyVars
<1>5. CASE Submit(s)
  <2>1. store' \in [File -> ItemStatus]
    BY <1>5, MarkedType DEF Submit, Indexed
  <2> QED
    BY <1>5, <2>1 DEF TypeOK, Submit, historyVars, Working, StatementStatus
<1>6. CASE PollFinished(s)
  <2>1. store' \in [File -> ItemStatus]
    BY <1>6, DeletedType DEF PollFinished
  <2>2. NextManifest(s, queue[s]) /\ queue[s] \in SUBSET SUBSET File
    BY <1>6 DEF PollFinished, TypeOK
  <2> QED
    BY <1>6, <2>1, <2>2, NextManifestType DEF TypeOK, PollFinished, historyVars
<1>7. CASE PollConflict(s)
  BY <1>7 DEF TypeOK, PollConflict, ledgerVars, historyVars, Working, StatementStatus
<1>8. CASE PollFailed(s)
  <2>1. Stop({s}, "failed")
    BY <1>8 DEF PollFailed
  <2> QED
    BY <1>8, <2>1, StopType DEF TypeOK, PollFailed, ledgerVars, historyVars
<1>9. CASE CheckMoreWork(s)
  <2>1. asked' \in [Exec \cup Sub -> Nat] BY <1>9, AsksType DEF CheckMoreWork
  <2>. QED BY <1>9, <2>1 DEF TypeOK, CheckMoreWork, ledgerVars, historyVars, Working
<1>10. CASE StatementMerges(s)
  BY <1>10 DEF TypeOK, StatementMerges, ledgerVars, StatementStatus
<1> QED
  BY <1>1, <1>2, <1>3, <1>4, <1>5, <1>6, <1>7, <1>8, <1>9, <1>10 DEF SubStep

LEMMA FailureTypeStep ==
    ASSUME TypeOK, NEW s \in Sub,
           \/ AbortLeftover(s) \/ LambdaFails(s) \/ LambdaRepeats(s)
           \/ StatementSwallowsError(s) \/ StatementFails(s)
    PROVE  TypeOK'
<1>1. Unpolled({s}) \subseteq SUBSET File /\ files[s] \in SUBSET File
  BY UnpolledType DEF TypeOK
<1>2. CASE AbortLeftover(s)
  BY <1>1, <1>2, StopType DEF TypeOK, AbortLeftover, ledgerVars, historyVars
<1>3. CASE LambdaFails(s)
  <2>1. PICK sent \in BOOLEAN :
          /\ CutShort(s, sent)
          /\ orphans' = orphans \cup Unpolled({s}) \cup (IF sent THEN {files[s]} ELSE {})
    BY <1>3 DEF LambdaFails
  <2>2. store' \in [File -> ItemStatus]
    BY <2>1, CutShortType
  <2>3. mishaps' \in Nat /\ Stop({s}, "failed")
    BY <1>3, MishapType DEF LambdaFails
  <2> QED
    BY <1>1, <1>3, <2>1, <2>2, <2>3, StopType DEF TypeOK, LambdaFails, historyVars
<1>4. CASE LambdaRepeats(s)
  <2>1. PICK sent \in BOOLEAN :
          /\ CutShort(s, sent)
          /\ orphans' = orphans \cup (IF sent THEN {files[s]} ELSE {})
    BY <1>4 DEF LambdaRepeats
  <2>2. store' \in [File -> ItemStatus]
    BY <2>1, CutShortType
  <2> QED
    BY <1>1, <1>4, <2>1, <2>2, MishapType DEF TypeOK, LambdaRepeats, historyVars, subVars
<1>5. CASE StatementSwallowsError(s)
  BY <1>5, MishapType DEF TypeOK, StatementSwallowsError, ledgerVars, StatementStatus
<1>6. CASE StatementFails(s)
  BY <1>6, MishapType DEF TypeOK, StatementFails, ledgerVars, historyVars, StatementStatus
<1> QED
  BY <1>2, <1>3, <1>4, <1>5, <1>6

LEMMA OrphanTypeStep ==
    ASSUME TypeOK, NEW m \in orphans, OrphanEnds(m)
    PROVE  TypeOK'
BY DEF TypeOK, OrphanEnds, ledgerVars, subVars

\* The types are inductive: Init establishes them, every step keeps them.
LEMMA TypeInit == Init => TypeOK
BY DEF Init, TypeOK, ItemStatus, StatementStatus

LEMMA TypeStep == TypeOK /\ [Next]_vars => TypeOK'
<1> SUFFICES ASSUME TypeOK, [Next]_vars PROVE TypeOK'
  OBVIOUS
<1>1. CASE UNCHANGED vars
  BY <1>1 DEF TypeOK, vars
<1>2. CASE Next
  BY <1>2, LedgerTypeStep, MainTypeStep, SubTypeStep, FailureTypeStep, OrphanTypeStep DEF Next
<1> QED
  BY <1>1, <1>2

\* Every variable keeps its type, whatever fails.
THEOREM TypeCorrect == Spec => []TypeOK
BY TypeInit, TypeStep, PTL DEF Spec

-----------------------------------------------------------------------------
(* The inductive invariant.                                                *)

\* A sub-workflow has a statement only while check-load-status polls it.
StatementPolled == \A s \in Sub : stmt[s] # "none" => pc[s] = "poll"

\* An execution's branches exist only while it loads, or are leftovers of one
\* that failed.
BranchesOfLoading ==
    \A e \in Exec : main[e] \notin {"loading", "idle"} =>
        \A t \in Table : pc[<<e, t>>] = "idle"

\* What a FINISHED statement was to load is loaded, or its error was swallowed.
FinishedIsDone ==
    \A s \in Sub : stmt[s] = "finished" => files[s] \subseteq Done

\* Every file the workflow handles was announced by a creation event.
OnlyArrived ==
    /\ \A f \in File : store[f] \in Indexed \/ index[f] # "absent" => f \in arrived
    /\ \A s \in Sub : files[s] \subseteq arrived
    /\ \A s \in Sub : \A m \in queue[s] : m \subseteq arrived
    /\ \A m \in orphans : m \subseteq arrived

Inv ==
    /\ StatementPolled
    /\ BranchesOfLoading
    /\ FinishedIsDone
    /\ OnlyArrived

IInv == TypeOK /\ Inv

\* The sub-workflows that end have no statement and no file; those that have
\* ended their files' statement go on with files that had arrived.
LEMMA StopInv ==
    ASSUME IInv, NEW S \in SUBSET Sub, NEW next \in {"idle", "failed"}, Stop(S, next),
           arrived' = arrived, Done \subseteq Done'
    PROVE  /\ StatementPolled'
           /\ FinishedIsDone'
           /\ \A s \in Sub : files'[s] \subseteq arrived'
           /\ \A s \in Sub : \A m \in queue'[s] : m \subseteq arrived'
<1> USE DEF IInv, Inv, TypeOK
<1>1. StatementPolled'
  BY DEF StatementPolled, Stop
<1>2. FinishedIsDone'
  BY DEF FinishedIsDone, Stop
<1>3. \A s \in Sub : files'[s] \subseteq arrived'
  BY DEF OnlyArrived, Stop
<1>4. \A s \in Sub : \A m \in queue'[s] : m \subseteq arrived'
  BY DEF OnlyArrived, Stop
<1> QED
  BY <1>1, <1>2, <1>3, <1>4

LEMMA NextManifestInv ==
    ASSUME IInv, NEW s \in Sub, NEW q \in SUBSET SUBSET File, NextManifest(s, q),
           pc[s] # "idle", \A m \in q : m \subseteq arrived,
           arrived' = arrived, Done \subseteq Done', main' = main
    PROVE  /\ StatementPolled'
           /\ FinishedIsDone'
           /\ BranchesOfLoading'
           /\ \A r \in Sub : files'[r] \subseteq arrived'
           /\ \A r \in Sub : \A m \in queue'[r] : m \subseteq arrived'
<1> USE DEF IInv, Inv, TypeOK
<1>1. StatementPolled'
  BY DEF StatementPolled, NextManifest
<1>2. FinishedIsDone'
  BY DEF FinishedIsDone, NextManifest
<1>3. BranchesOfLoading'
  BY DEF BranchesOfLoading, NextManifest, Sub
<1>4. \A r \in Sub : files'[r] \subseteq arrived'
  BY DEF OnlyArrived, NextManifest
<1>5. \A r \in Sub : \A m \in queue'[r] : m \subseteq arrived'
  BY DEF OnlyArrived, NextManifest
<1> QED
  BY <1>1, <1>2, <1>3, <1>4, <1>5

LEMMA UnpolledArrived ==
    ASSUME IInv, NEW S \in SUBSET Sub
    PROVE  \A m \in Unpolled(S) : m \subseteq arrived
BY DEF IInv, Inv, OnlyArrived, Unpolled

LEMMA ManifestsArrived ==
    ASSUME IInv, NEW s \in Sub
    PROVE  \A m \in Manifests(files[s]) : m \subseteq arrived
BY DEF IInv, Inv, OnlyArrived, Manifests

\* An update or a deletion of items announces no file.
LEMMA ItemsArrived ==
    ASSUME IInv, NEW S, NEW status \in Indexed
    PROVE  \A f \in File : Marked(S, status)[f] \in Indexed \/ Deleted(S)[f] \in Indexed
                              => f \in arrived
BY DEF IInv, Inv, TypeOK, OnlyArrived, Marked, Deleted, Indexed

LEMMA LedgerInvStep ==
    ASSUME IInv, NEW f \in File,
           ObjectCreated(f) \/ ObjectCreatedAgain(f) \/ Propagate(f)
    PROVE  Inv'
<1> USE DEF IInv, Inv, TypeOK
<1>1. UNCHANGED <<main, subVars, orphans, loaded, swallowed>> /\ arrived \subseteq arrived'
  BY DEF ObjectCreated, ObjectCreatedAgain, Propagate, historyVars
<1>2. StatementPolled' /\ BranchesOfLoading' /\ FinishedIsDone'
  BY <1>1 DEF StatementPolled, BranchesOfLoading, FinishedIsDone, Done, subVars
<1>3. \A g \in File : store'[g] \in Indexed \/ index'[g] # "absent" => g \in arrived'
  BY DEF OnlyArrived, ObjectCreated, ObjectCreatedAgain, Propagate, InIndex, Indexed,
         ItemStatus, historyVars
<1>4. OnlyArrived'
  BY <1>1, <1>3 DEF OnlyArrived, subVars
<1> QED
  BY <1>2, <1>4

LEMMA MainInvStep ==
    ASSUME IInv, NEW e \in Exec, Trigger(e) \/ MainStep(e)
    PROVE  Inv'
<1> USE DEF IInv, Inv, TypeOK
<1>1. CASE Trigger(e) \/ CountPending(e) \/ EndExecution(e)
  <2>1. UNCHANGED <<store, index, historyVars, pc, files, queue, retry, stmt, orphans>>
    BY <1>1 DEF Trigger, CountPending, EndExecution, ledgerVars, subVars
  <2>2. BranchesOfLoading'
    BY <1>1, <2>1 DEF BranchesOfLoading, Trigger, CountPending, EndExecution, subVars
  <2> QED
    BY <2>1, <2>2 DEF StatementPolled, FinishedIsDone, OnlyArrived, Done, historyVars
<1>2. CASE ListExecutions(e)
  <2>1. UNCHANGED <<store, index, historyVars, files, queue, retry, stmt, orphans>>
    BY <1>2 DEF ListExecutions, ledgerVars
  <2>2. \A t \in Table : pc[<<e, t>>] = "idle"
    BY <1>2 DEF ListExecutions, BranchesOfLoading
  <2>3. BranchesOfLoading'
    BY <1>2, <2>2 DEF BranchesOfLoading, ListExecutions, Sub
  <2>4. StatementPolled'
    BY <1>2, <2>1, <2>2 DEF StatementPolled, ListExecutions, Sub
  <2> QED
    BY <2>1, <2>3, <2>4 DEF FinishedIsDone, OnlyArrived, Done, historyVars
<1>3. CASE AllBranchesSucceeded(e)
  <2>1. Stop({e} \X Table, "idle") /\ {e} \X Table \in SUBSET Sub
    BY <1>3 DEF AllBranchesSucceeded, Sub
  <2>2. UNCHANGED <<store, index, historyVars, orphans>>
    BY <1>3 DEF AllBranchesSucceeded, ledgerVars
  <2>3. arrived' = arrived /\ Done' = Done
    BY <2>2 DEF Done, historyVars
  <2>4. BranchesOfLoading'
    BY <1>3, <2>1 DEF BranchesOfLoading, AllBranchesSucceeded, Stop, Sub
  <2> QED
    BY <2>1, <2>2, <2>3, <2>4, StopInv DEF OnlyArrived
<1>4. CASE BranchFailed(e)
  <2> DEFINE ended == {s \in {e} \X Table : PromptStop \/ pc[s] \in {"failed", "succeeded"}}
  <2>1. Stop(ended, "idle") /\ orphans' = orphans \cup Unpolled(ended)
    BY <1>4 DEF BranchFailed
  <2>2. ended \in SUBSET Sub
    BY DEF Sub
  <2>3. UNCHANGED <<store, index, historyVars>>
    BY <1>4 DEF BranchFailed, ledgerVars
  <2>4. arrived' = arrived /\ Done' = Done
    BY <2>3 DEF Done, historyVars
  <2>5. BranchesOfLoading'
    BY <1>4, <2>1 DEF BranchesOfLoading, BranchFailed, Stop, Sub
  <2> HIDE DEF ended
  <2>6. \A m \in orphans' : m \subseteq arrived'
    BY <2>1, <2>2, <2>4, UnpolledArrived DEF OnlyArrived
  <2> QED
    BY <2>1, <2>2, <2>3, <2>4, <2>5, <2>6, StopInv DEF OnlyArrived
<1> QED
  BY <1>1, <1>2, <1>3, <1>4 DEF MainStep

LEMMA SubInvStep ==
    ASSUME IInv, NEW s \in Sub, SubStep(s)
    PROVE  Inv'
<1> USE DEF IInv, Inv, TypeOK
<1>1. CASE QueryCandidates(s)
  <2>1. stmt[s] = "none"
    BY <1>1 DEF QueryCandidates, StatementPolled
  <2>2. files'[s] \subseteq arrived
    <3>1. PICK S \in SUBSET Answer(s, CandidateQueries[s[2]]) :
             files' = [files EXCEPT ![s] = @ \cup S]
      BY <1>1 DEF QueryCandidates
    <3>2. \A f \in S : f \in File /\ index[f] # "absent"
      BY AnswerFiles, CandidatesIndexed DEF Indexed
    <3>3. files'[s] = files[s] \cup S
      BY <3>1
    <3>. QED BY <3>2, <3>3 DEF OnlyArrived
  <2>3. UNCHANGED <<store, index, historyVars, main, queue, stmt, orphans>>
    BY <1>1 DEF QueryCandidates, ledgerVars
  <2>4. BranchesOfLoading' /\ StatementPolled' /\ FinishedIsDone'
    BY <1>1, <2>1, <2>3 DEF QueryCandidates, BranchesOfLoading, StatementPolled,
       FinishedIsDone, Done, historyVars, Sub
  <2>5. \A r \in Sub : files'[r] \subseteq arrived'
    BY <1>1, <2>2, <2>3 DEF QueryCandidates, OnlyArrived, historyVars
  <2> QED
    BY <2>3, <2>4, <2>5 DEF OnlyArrived, historyVars
<1>2. CASE WaitAndCheckAgain(s) \/ CheckMoreWork(s)
  <2>1. UNCHANGED <<store, index, historyVars, main, files, queue, stmt, orphans>>
    BY <1>2 DEF WaitAndCheckAgain, CheckMoreWork, ledgerVars
  <2>2. BranchesOfLoading' /\ StatementPolled'
    BY <1>2, <2>1 DEF WaitAndCheckAgain, CheckMoreWork, BranchesOfLoading, StatementPolled, Sub
  <2> QED
    BY <2>1, <2>2 DEF FinishedIsDone, OnlyArrived, Done, historyVars
<1>3. CASE Enqueue(s) \/ PollFinished(s)
  <2>1. PICK q \in SUBSET SUBSET File :
          NextManifest(s, q) /\ \A m \in q : m \subseteq arrived
    <3>1. CASE Enqueue(s)
      BY <3>1, ManifestsType, ManifestsArrived DEF Enqueue
    <3>2. CASE PollFinished(s)
      BY <3>2 DEF PollFinished, OnlyArrived
    <3> QED
      BY <1>3, <3>1, <3>2
  <2>2. UNCHANGED <<index, historyVars, main, orphans>> /\ pc[s] # "idle"
    BY <1>3 DEF Enqueue, PollFinished
  <2>3. arrived' = arrived /\ Done' = Done
    BY <2>2 DEF Done, historyVars
  <2>4. \A f \in File : store'[f] \in Indexed => f \in arrived
    BY <1>3, ItemsArrived DEF Enqueue, PollFinished, Indexed
  <2>5. \A f \in File : store'[f] \in Indexed \/ index'[f] # "absent" => f \in arrived'
    BY <2>2, <2>3, <2>4 DEF OnlyArrived
  <2>6. main' = main /\ orphans' = orphans
    BY <2>2
  <2>7. /\ StatementPolled' /\ FinishedIsDone' /\ BranchesOfLoading'
        /\ \A r \in Sub : files'[r] \subseteq arrived'
        /\ \A r \in Sub : \A m \in queue'[r] : m \subseteq arrived'
    BY <2>1, <2>2, <2>3, <2>6, NextManifestInv
  <2> QED
    BY <2>3, <2>5, <2>6, <2>7 DEF OnlyArrived
<1>4. CASE EnqueueRefused(s) \/ PollFailed(s)
  <2>1. Stop({s}, "failed") /\ UNCHANGED <<index, historyVars, main, orphans>> /\ pc[s] # "idle"
    BY <1>4 DEF EnqueueRefused, PollFailed, ledgerVars
  <2>2. arrived' = arrived /\ Done' = Done
    BY <2>1 DEF Done, historyVars
  <2>3. \A f \in File : store'[f] \in Indexed => f \in arrived
    BY <1>4, ItemsArrived DEF EnqueueRefused, PollFailed, OnlyArrived, ledgerVars, Indexed
  <2>4. BranchesOfLoading'
    BY <2>1 DEF BranchesOfLoading, Stop, Sub
  <2> QED
    BY <2>1, <2>2, <2>3, <2>4, StopInv DEF OnlyArrived
<1>5. CASE Submit(s) \/ PollConflict(s)
  <2>1. UNCHANGED <<index, historyVars, main, files, queue, orphans>> /\ pc[s] # "idle"
    BY <1>5 DEF Submit, PollConflict, ledgerVars
  <2>2. StatementPolled'
    BY <1>5, <2>1 DEF Submit, PollConflict, StatementPolled
  <2>3. FinishedIsDone'
    BY <1>5, <2>1 DEF Submit, PollConflict, FinishedIsDone, Done, historyVars
  <2>4. BranchesOfLoading'
    BY <1>5, <2>1 DEF Submit, PollConflict, BranchesOfLoading, Sub
  <2>5. \A f \in File : store'[f] \in Indexed => f \in arrived
    BY <1>5, ItemsArrived DEF Submit, PollConflict, OnlyArrived, ledgerVars, Indexed
  <2> QED
    BY <2>1, <2>2, <2>3, <2>4, <2>5 DEF OnlyArrived, historyVars
<1>6. CASE StatementMerges(s)
  BY <1>6 DEF StatementMerges, StatementPolled, FinishedIsDone, BranchesOfLoading,
     OnlyArrived, Done, ledgerVars
<1> QED
  BY <1>1, <1>2, <1>3, <1>4, <1>5, <1>6 DEF SubStep

LEMMA CutShortArrived ==
    ASSUME IInv, NEW s \in Sub, NEW sent \in BOOLEAN, CutShort(s, sent)
    PROVE  /\ pc[s] # "idle"
           /\ \A f \in File : store'[f] \in Indexed => f \in arrived
BY ItemsArrived DEF CutShort, IInv, Inv, OnlyArrived, Indexed

LEMMA FailureInvStep ==
    ASSUME IInv, NEW s \in Sub,
           \/ AbortLeftover(s) \/ LambdaFails(s) \/ LambdaRepeats(s)
           \/ StatementSwallowsError(s) \/ StatementFails(s)
    PROVE  Inv'
<1> USE DEF IInv, Inv, TypeOK
<1>1. \A m \in Unpolled({s}) \cup {files[s]} : m \subseteq arrived
  BY UnpolledArrived DEF OnlyArrived
<1>2. CASE AbortLeftover(s)
  <2>1. /\ Stop({s}, "idle") /\ UNCHANGED <<store, index, historyVars, main>>
        /\ orphans' = orphans \cup Unpolled({s})
    BY <1>2 DEF AbortLeftover, ledgerVars
  <2>2. arrived' = arrived /\ Done' = Done
    BY <2>1 DEF Done, historyVars
  <2>3. BranchesOfLoading'
    BY <2>1 DEF BranchesOfLoading, Stop, Sub
  <2> QED
    BY <1>1, <2>1, <2>2, <2>3, StopInv DEF OnlyArrived
<1>3. CASE LambdaFails(s)
  <2>1. PICK sent \in BOOLEAN :
          /\ CutShort(s, sent)
          /\ orphans' = orphans \cup Unpolled({s}) \cup (IF sent THEN {files[s]} ELSE {})
    BY <1>3 DEF LambdaFails
  <2>2. Stop({s}, "failed") /\ UNCHANGED <<index, historyVars, main>>
    BY <1>3 DEF LambdaFails
  <2>3. pc[s] # "idle" /\ \A f \in File : store'[f] \in Indexed => f \in arrived
    BY <2>1, CutShortArrived
  <2>4. arrived' = arrived /\ Done' = Done
    BY <2>2 DEF Done, historyVars
  <2>5. BranchesOfLoading'
    BY <2>2, <2>3 DEF BranchesOfLoading, Stop, Sub
  <2>6. \A m \in orphans' : m \subseteq arrived'
    BY <1>1, <2>1, <2>4 DEF OnlyArrived
  <2> QED
    BY <2>2, <2>3, <2>4, <2>5, <2>6, StopInv DEF OnlyArrived
<1>4. CASE LambdaRepeats(s)
  <2>1. PICK sent \in BOOLEAN :
          /\ CutShort(s, sent)
          /\ orphans' = orphans \cup (IF sent THEN {files[s]} ELSE {})
    BY <1>4 DEF LambdaRepeats
  <2>2. UNCHANGED <<index, arrived, loaded, swallowed, main, pc, queue, stmt>>
    BY <1>4 DEF LambdaRepeats, historyVars
  <2>3. \A f \in File : store'[f] \in Indexed => f \in arrived
    BY <2>1, CutShortArrived
  <2>4. \A m \in orphans' : m \subseteq arrived
    BY <1>1, <2>1 DEF OnlyArrived
  <2>5. \A r \in Sub : files'[r] \subseteq files[r]
    BY <1>4 DEF LambdaRepeats
  <2>6. StatementPolled' /\ BranchesOfLoading' /\ FinishedIsDone'
    BY <2>2, <2>5 DEF StatementPolled, BranchesOfLoading, FinishedIsDone, Done
  <2>7. \A r \in Sub : files'[r] \subseteq arrived'
    BY <2>2, <2>5 DEF OnlyArrived
  <2> QED
    BY <2>2, <2>3, <2>4, <2>6, <2>7 DEF OnlyArrived
<1>5. CASE StatementSwallowsError(s) \/ StatementFails(s)
  <2>1. UNCHANGED <<store, index, arrived, main, pc, files, queue, orphans>>
    BY <1>5 DEF StatementSwallowsError, StatementFails, ledgerVars, historyVars
  <2>2. StatementPolled'
    BY <1>5, <2>1 DEF StatementSwallowsError, StatementFails, StatementPolled
  <2>3. FinishedIsDone'
    BY <1>5, <2>1 DEF StatementSwallowsError, StatementFails, FinishedIsDone, Done, historyVars
  <2> QED
    BY <2>1, <2>2, <2>3 DEF BranchesOfLoading, OnlyArrived
<1> QED
  BY <1>2, <1>3, <1>4, <1>5

LEMMA OrphanInvStep ==
    ASSUME IInv, NEW m \in orphans, OrphanEnds(m)
    PROVE  Inv'
BY DEF IInv, Inv, TypeOK, OrphanEnds, StatementPolled, BranchesOfLoading, FinishedIsDone,
   OnlyArrived, Done, ledgerVars, subVars

LEMMA InvInit == Init => IInv
<1> SUFFICES ASSUME Init PROVE IInv
  OBVIOUS
<1>1. TypeOK
  BY TypeInit
<1>2. Inv
  BY DEF Init, Inv, StatementPolled, BranchesOfLoading, FinishedIsDone, OnlyArrived, Indexed, Sub
<1> QED
  BY <1>1, <1>2 DEF IInv

LEMMA InvStep == IInv /\ [Next]_vars => IInv'
<1> SUFFICES ASSUME IInv, [Next]_vars PROVE IInv'
  OBVIOUS
<1>1. TypeOK'
  BY TypeStep DEF IInv
<1>2. CASE UNCHANGED vars
  <2>1. Inv'
    BY <1>2 DEF vars, IInv, Inv, StatementPolled, BranchesOfLoading, FinishedIsDone,
       OnlyArrived, Done
  <2> QED
    BY <1>1, <2>1 DEF IInv
<1>3. CASE Next
  <2>1. Inv'
    BY <1>3, LedgerInvStep, MainInvStep, SubInvStep, FailureInvStep, OrphanInvStep DEF Next
  <2> QED
    BY <1>1, <2>1 DEF IInv
<1> QED
  BY <1>2, <1>3

LEMMA InvCorrect == Spec => []IInv
BY InvInit, InvStep, PTL DEF Spec

-----------------------------------------------------------------------------
(* The ledger implements its abstract specification.                       *)

\* Only a deletion takes items off the ledger.
LEMMA RecordedMarked ==
    ASSUME TypeOK, NEW S, NEW status \in Indexed, store' = Marked(S, status)
    PROVE  Recorded' = Recorded
BY DEF TypeOK, Recorded, Marked, Indexed

LEMMA RecordedDeleted ==
    ASSUME TypeOK, NEW S, store' = Deleted(S)
    PROVE  Recorded' = Recorded \ S
BY DEF TypeOK, Recorded, Deleted, Indexed

\* A step that leaves the ledger's files and the history alone is a stutter.
LEMMA LedgerStutter ==
    ASSUME Recorded' = Recorded, UNCHANGED historyVars
    PROVE  UNCHANGED Ledger!vars
BY DEF Ledger!vars, historyVars, Done

LEMMA LedgerDrop ==
    ASSUME NEW S \in SUBSET File, S \subseteq Done, Recorded' = Recorded \ S,
           UNCHANGED historyVars
    PROVE  Ledger!Next
<1>1. Ledger!Drop(S)
  BY DEF Ledger!Drop, historyVars, Done
<1> QED
  BY <1>1 DEF Ledger!Next

LEMMA LedgerLoad ==
    ASSUME NEW S \in SUBSET File, S \subseteq arrived, Done' = Done \cup S,
           UNCHANGED <<store, arrived>>
    PROVE  Ledger!Next
<1>1. Ledger!Load(S)
  BY DEF Ledger!Load, Recorded
<1> QED
  BY <1>1 DEF Ledger!Next

LEMMA CutShortLedger ==
    ASSUME IInv, NEW s \in Sub, NEW sent \in BOOLEAN, CutShort(s, sent), UNCHANGED historyVars
    PROVE  [Ledger!Next]_(Ledger!vars)
<1> USE DEF IInv, TypeOK
<1>1. CASE UNCHANGED store
  BY <1>1, LedgerStutter DEF Recorded
<1>2. CASE \E S \in SUBSET File, status \in Indexed : store' = Marked(S, status)
  BY <1>2, RecordedMarked, LedgerStutter
<1>3. CASE stmt[s] = "finished" /\ \E S \in SUBSET files[s] : store' = Deleted(S)
  <2>1. PICK S \in SUBSET files[s] : store' = Deleted(S)
    BY <1>3
  <2>2. S \subseteq Done /\ S \in SUBSET File
    BY <1>3, <2>1 DEF Inv, FinishedIsDone
  <2>3. Recorded' = Recorded \ S
    BY <2>1, RecordedDeleted
  <2> QED
    BY <2>2, <2>3, LedgerDrop
<1> QED
  <2>1. files[s] \subseteq File
    OBVIOUS
  <2> QED
    BY <1>1, <1>2, <1>3, <2>1 DEF CutShort, Indexed

LEMMA LedgerInit == Init => Ledger!Init
BY DEF Init, Ledger!Init, Recorded, Done, Indexed

LEMMA LedgerStep == IInv /\ [Next]_vars => [Ledger!Next]_(Ledger!vars)
<1> SUFFICES ASSUME IInv, [Next]_vars PROVE [Ledger!Next]_(Ledger!vars)
  OBVIOUS
<1> USE DEF IInv, TypeOK
<1>1. CASE UNCHANGED vars
  BY <1>1, LedgerStutter DEF vars, Recorded, historyVars
<1>2. ASSUME NEW f \in File, ObjectCreated(f) \/ ObjectCreatedAgain(f)
      PROVE  Ledger!Next
  <2>1. Recorded' = Recorded \cup {f}
    BY <1>2 DEF ObjectCreated, ObjectCreatedAgain, Recorded, Indexed
  <2>2. arrived' = arrived \cup {f} /\ Done' = Done
    BY <1>2 DEF ObjectCreated, ObjectCreatedAgain, historyVars, Done
  <2>3. Ledger!Record(f)
    BY <2>1, <2>2 DEF Ledger!Record
  <2> QED
    BY <2>3 DEF Ledger!Next
<1>3. ASSUME NEW f \in File, Propagate(f)
      PROVE  UNCHANGED Ledger!vars
  BY <1>3, LedgerStutter DEF Propagate, Recorded
<1>4. ASSUME NEW e \in Exec, Trigger(e) \/ MainStep(e)
      PROVE  UNCHANGED Ledger!vars
  BY <1>4, LedgerStutter DEF Trigger, MainStep, CountPending, ListExecutions, EndExecution,
     AllBranchesSucceeded, BranchFailed, ledgerVars, Recorded
<1>5. ASSUME NEW s \in Sub,
             \/ QueryCandidates(s) \/ WaitAndCheckAgain(s) \/ PollConflict(s) \/ PollFailed(s)
             \/ CheckMoreWork(s) \/ AbortLeftover(s) \/ StatementFails(s)
      PROVE  UNCHANGED Ledger!vars
  BY <1>5, LedgerStutter DEF QueryCandidates, WaitAndCheckAgain, PollConflict, PollFailed,
     CheckMoreWork, AbortLeftover, StatementFails, ledgerVars, Recorded
<1>6. ASSUME NEW s \in Sub, Enqueue(s) \/ EnqueueRefused(s) \/ Submit(s)
      PROVE  UNCHANGED Ledger!vars
  <2>1. \E S \in SUBSET File, status \in Indexed : store' = Marked(S, status)
    <3>1. CASE Enqueue(s)
      BY <3>1 DEF Enqueue, Indexed
    <3>2. CASE EnqueueRefused(s)
      BY <3>2 DEF EnqueueRefused, Indexed
    <3>3. CASE Submit(s)
      BY <3>3 DEF Submit, Indexed
    <3> QED
      BY <1>6, <3>1, <3>2, <3>3
  <2>2. UNCHANGED historyVars
    BY <1>6 DEF Enqueue, EnqueueRefused, Submit
  <2> QED
    BY <2>1, <2>2, RecordedMarked, LedgerStutter
<1>7. ASSUME NEW s \in Sub, PollFinished(s)
      PROVE  Ledger!Next
  <2>1. files[s] \in SUBSET File /\ files[s] \subseteq Done
    BY <1>7 DEF PollFinished, Inv, FinishedIsDone
  <2>2. Recorded' = Recorded \ files[s]
    BY <1>7, RecordedDeleted DEF PollFinished
  <2> QED
    BY <1>7, <2>1, <2>2, LedgerDrop DEF PollFinished
<1>8. ASSUME NEW s \in Sub, LambdaFails(s) \/ LambdaRepeats(s)
      PROVE  [Ledger!Next]_(Ledger!vars)
  BY <1>8, CutShortLedger DEF LambdaFails, LambdaRepeats
<1>9. ASSUME NEW s \in Sub, StatementMerges(s) \/ StatementSwallowsError(s)
      PROVE  Ledger!Next
  <2>1. Done' = Done \cup files[s] /\ UNCHANGED <<store, arrived>>
    BY <1>9 DEF StatementMerges, StatementSwallowsError, ledgerVars, Done
  <2>2. files[s] \in SUBSET File /\ files[s] \subseteq arrived
    BY DEF IInv, TypeOK, Inv, OnlyArrived
  <2> QED
    BY <2>1, <2>2, LedgerLoad
<1>10. ASSUME NEW m \in orphans, OrphanEnds(m)
       PROVE  [Ledger!Next]_(Ledger!vars)
  <2>1. UNCHANGED <<store, arrived, swallowed>> /\ loaded' \in {loaded, loaded \cup m}
    BY <1>10 DEF OrphanEnds, ledgerVars
  <2>2. CASE loaded' = loaded
    BY <2>1, <2>2, LedgerStutter DEF Recorded, historyVars
  <2>3. CASE loaded' = loaded \cup m
    <3>1. Done' = Done \cup m /\ m \in SUBSET File /\ m \subseteq arrived
      BY <2>1, <2>3 DEF Done, Inv, OnlyArrived
    <3> QED
      BY <2>1, <3>1, LedgerLoad
  <2> QED
    BY <2>1, <2>2, <2>3
<1> QED
  BY <1>1, <1>2, <1>3, <1>4, <1>5, <1>6, <1>7, <1>8, <1>9, <1>10 DEF Next, SubStep

\* Whatever functions fail or run twice, whatever events are repeated and
\* whatever branches are left running, the DynamoDB table behaves as the
\* at-least-once queue of FileLedger.
THEOREM LedgerImplemented == Spec => LedgerSpec
<1>1. Spec => []IInv
  BY InvCorrect
<1> QED
  BY <1>1, LedgerInit, LedgerStep, PTL DEF Spec, LedgerSpec, Ledger!Spec

-----------------------------------------------------------------------------
(* What the abstract ledger guarantees, the workflow guarantees.           *)

\* Every step of the abstract ledger keeps what is known recorded or done.
LEMMA NothingLostStep ==
    ASSUME Ledger!NothingLost, [Ledger!Next]_(Ledger!vars)
    PROVE  Ledger!NothingLost'
<1> USE DEF Ledger!NothingLost
<1>1. CASE UNCHANGED Ledger!vars
  BY <1>1 DEF Ledger!vars
<1>2. ASSUME NEW f \in File, Ledger!Record(f) PROVE Ledger!NothingLost'
  BY <1>2 DEF Ledger!Record
<1>3. ASSUME NEW S \in SUBSET File, Ledger!Load(S) \/ Ledger!Drop(S)
      PROVE  Ledger!NothingLost'
  BY <1>3 DEF Ledger!Load, Ledger!Drop
<1> QED
  BY <1>1, <1>2, <1>3 DEF Ledger!Next

\* A file whose creation event was handled stays on the ledger until a
\* statement with its manifest has finished.
THEOREM NeverForgotten == Spec => []NothingForgotten
<1>1. Ledger!Init => Ledger!NothingLost
  BY DEF Ledger!Init, Ledger!NothingLost
<1>2. Ledger!Spec => []Ledger!NothingLost
  BY <1>1, NothingLostStep, PTL DEF Ledger!Spec
<1>3. Ledger!NothingLost => NothingForgotten
  BY DEF Ledger!NothingLost, NothingForgotten
<1> QED
  BY <1>2, <1>3, LedgerImplemented, PTL DEF LedgerSpec

-----------------------------------------------------------------------------
(* Mutual exclusion.                                                       *)

\* Init and every step keep two executions from loading at once: only
\* ListExecutions starts a load, and it saw the others idle.
LEMMA OneLoadingStep == TypeOK /\ OneLoading /\ [Next]_vars => OneLoading'
<1> SUFFICES ASSUME TypeOK, OneLoading, [Next]_vars PROVE OneLoading'
  OBVIOUS
<1> USE DEF TypeOK, OneLoading
<1>1. CASE UNCHANGED main
  BY <1>1
<1>2. ASSUME NEW e \in Exec, ListExecutions(e) PROVE OneLoading'
  BY <1>2 DEF ListExecutions
<1>3. ASSUME NEW e \in Exec, Trigger(e) \/ CountPending(e) \/ EndExecution(e)
      PROVE  OneLoading'
  BY <1>3 DEF Trigger, CountPending, EndExecution
<1>4. ASSUME NEW e \in Exec, AllBranchesSucceeded(e) \/ BranchFailed(e)
      PROVE  OneLoading'
  BY <1>4 DEF AllBranchesSucceeded, BranchFailed
<1>5. ASSUME NEW f \in File, ObjectCreated(f) \/ ObjectCreatedAgain(f) \/ Propagate(f)
      PROVE  UNCHANGED main
  BY <1>5 DEF ObjectCreated, ObjectCreatedAgain, Propagate
<1>6. ASSUME NEW s \in Sub,
             \/ SubStep(s) \/ AbortLeftover(s) \/ LambdaFails(s) \/ LambdaRepeats(s)
             \/ StatementSwallowsError(s) \/ StatementFails(s)
      PROVE  UNCHANGED main
  BY <1>6 DEF SubStep, QueryCandidates, WaitAndCheckAgain, Enqueue, EnqueueRefused, Submit,
     PollFinished, PollConflict, PollFailed, CheckMoreWork, StatementMerges, AbortLeftover,
     LambdaFails, LambdaRepeats, StatementSwallowsError, StatementFails
<1>7. ASSUME NEW m \in orphans, OrphanEnds(m) PROVE UNCHANGED main
  BY <1>7 DEF OrphanEnds
<1> QED
  BY <1>1, <1>2, <1>3, <1>4, <1>5, <1>6, <1>7 DEF Next, MainStep, vars

\* The skip check is a mutual exclusion for any number of executions.
THEOREM MutualExclusion == Spec => []OneLoading
<1>1. Init => OneLoading
  BY DEF Init, OneLoading
<1> QED
  BY <1>1, OneLoadingStep, TypeCorrect, PTL DEF Spec

-----------------------------------------------------------------------------
(* What a table has when a failed execution takes its branches with it:    *)
(* one sub-workflow at a time, whose files stay PROCESSING on the ledger   *)
(* while their statement runs.  First, one sub-workflow for a table.       *)

\* An execution has branches only while it loads: none is left over.
NoLeftovers ==
    \A e \in Exec : main[e] # "loading" => \A t \in Table : pc[<<e, t>>] = "idle"

\* A step of a sub-workflow is one of an execution that loads.
LEMMA SubOnly ==
    ASSUME TypeOK, NEW s \in Sub,
           \/ SubStep(s) \/ AbortLeftover(s) \/ LambdaFails(s) \/ LambdaRepeats(s)
           \/ StatementSwallowsError(s) \/ StatementFails(s)
    PROVE  /\ main' = main
           /\ \A r \in Sub \ {s} : pc'[r] = pc[r]
           /\ pc[s] = "idle" => pc'[s] = "idle" \/ stmt[s] = "running"
<1> USE DEF TypeOK
<1>1. CASE QueryCandidates(s) BY <1>1 DEF QueryCandidates
<1>2. CASE WaitAndCheckAgain(s) BY <1>2 DEF WaitAndCheckAgain
<1>3. CASE Enqueue(s) BY <1>3 DEF Enqueue, NextManifest
<1>4. CASE EnqueueRefused(s) BY <1>4 DEF EnqueueRefused, Stop
<1>5. CASE Submit(s) BY <1>5 DEF Submit
<1>6. CASE PollFinished(s) BY <1>6 DEF PollFinished, NextManifest
<1>7. CASE PollConflict(s) BY <1>7 DEF PollConflict
<1>8. CASE PollFailed(s) BY <1>8 DEF PollFailed, Stop
<1>9. CASE CheckMoreWork(s) BY <1>9 DEF CheckMoreWork
<1>10. CASE StatementMerges(s) BY <1>10 DEF StatementMerges
<1>11. CASE AbortLeftover(s) BY <1>11 DEF AbortLeftover, Stop
<1>12. CASE LambdaFails(s) BY <1>12 DEF LambdaFails, Stop, CutShort
<1>13. CASE LambdaRepeats(s) BY <1>13 DEF LambdaRepeats, subVars
<1>14. CASE StatementSwallowsError(s) BY <1>14 DEF StatementSwallowsError
<1>15. CASE StatementFails(s) BY <1>15 DEF StatementFails
<1>. QED
  BY <1>1, <1>2, <1>3, <1>4, <1>5, <1>6, <1>7, <1>8, <1>9, <1>10, <1>11, <1>12, <1>13,
     <1>14, <1>15 DEF SubStep

LEMMA NoLeftoversStep ==
    ASSUME PromptStop, IInv, NoLeftovers, [Next]_vars
    PROVE  NoLeftovers'
<1> USE DEF IInv, TypeOK, NoLeftovers, Sub
<1>1. CASE UNCHANGED <<main, pc>> BY <1>1
<1>2. ASSUME NEW e \in Exec, ListExecutions(e) PROVE NoLeftovers'
  BY <1>2 DEF ListExecutions
<1>3. ASSUME NEW e \in Exec, Trigger(e) \/ CountPending(e) \/ EndExecution(e)
      PROVE  NoLeftovers'
  BY <1>3 DEF Trigger, CountPending, EndExecution, subVars
<1>4. ASSUME NEW e \in Exec, AllBranchesSucceeded(e) PROVE NoLeftovers'
  BY <1>4 DEF AllBranchesSucceeded, Stop
<1>5. ASSUME NEW e \in Exec, BranchFailed(e) PROVE NoLeftovers'
  <2>1. main' = [main EXCEPT ![e] = "idle"] BY <1>5 DEF BranchFailed
  <2>2. \A t \in Table : pc'[<<e, t>>] = "idle"
    BY <1>5 DEF BranchFailed, Stop
  <2>3. \A r \in Sub : r[1] # e => pc'[r] = pc[r]
    BY <1>5 DEF BranchFailed, Stop
  <2>. QED BY <2>1, <2>2, <2>3
<1>6. ASSUME NEW f \in File, ObjectCreated(f) \/ ObjectCreatedAgain(f) \/ Propagate(f)
      PROVE  UNCHANGED <<main, pc>>
  BY <1>6 DEF ObjectCreated, ObjectCreatedAgain, Propagate, subVars
<1>7. ASSUME NEW s \in Sub,
             \/ SubStep(s) \/ AbortLeftover(s) \/ LambdaFails(s) \/ LambdaRepeats(s)
             \/ StatementSwallowsError(s) \/ StatementFails(s)
      PROVE  NoLeftovers'
  <2>1. /\ main' = main
        /\ \A r \in Sub \ {s} : pc'[r] = pc[r]
        /\ pc[s] = "idle" => pc'[s] = "idle" \/ stmt[s] = "running"
    BY <1>7, SubOnly
  <2>2. pc[s] = "idle" => stmt[s] # "running"
    BY DEF Inv, StatementPolled
  <2>. QED BY <2>1, <2>2
<1>8. ASSUME NEW m \in orphans, OrphanEnds(m) PROVE UNCHANGED <<main, pc>>
  BY <1>8 DEF OrphanEnds, subVars
<1>. QED
  BY <1>1, <1>2, <1>3, <1>4, <1>5, <1>6, <1>7, <1>8 DEF Next, MainStep, vars

\* The branches of the one execution that loads are of different tables.
LEMMA OneLoaderFollows ==
    ASSUME TypeOK, OneLoading, NoLeftovers
    PROVE  OneLoaderPerTable
<1> SUFFICES ASSUME NEW s1 \in Sub, NEW s2 \in Sub, s1[2] = s2[2],
                    pc[s1] # "idle", pc[s2] # "idle"
             PROVE  s1 = s2
  BY DEF OneLoaderPerTable
<1>1. main[s1[1]] = "loading" /\ main[s2[1]] = "loading"
  BY DEF NoLeftovers, Sub
<1>2. s1[1] = s2[1] BY <1>1 DEF OneLoading, Sub
<1>. QED BY <1>2 DEF Sub

LEMMA NoLeftoversHolds == PromptStop => (Spec => []NoLeftovers)
<1>1. PromptStop /\ Init => NoLeftovers BY DEF Init, NoLeftovers, Sub
<1>2. PromptStop /\ IInv /\ NoLeftovers /\ [Next]_vars => NoLeftovers'
  BY NoLeftoversStep
<1>3. ASSUME PromptStop PROVE Spec => []NoLeftovers
  BY <1>1, <1>2, <1>3, InvCorrect, PTL DEF Spec
<1>. QED BY <1>3

\* No table is ever loaded by two sub-workflows, if a failed execution takes its
\* branches with it: the skip check and the Parallel state are enough.
THEOREM OneLoaderForTable == PromptStop => (Spec => []OneLoaderPerTable)
<1>1. TypeOK /\ OneLoading /\ NoLeftovers => OneLoaderPerTable BY OneLoaderFollows
<1>2. ASSUME PromptStop PROVE Spec => []OneLoaderPerTable
  <2>1. Spec => []NoLeftovers BY <1>2, NoLeftoversHolds
  <2>. QED BY <2>1, <1>1, TypeCorrect, MutualExclusion, PTL
<1>. QED BY <1>2

-----------------------------------------------------------------------------
(* Files in flight.                                                        *)

\* The files in a sub-workflow's hands are of its table.  From their batch to
\* the end of their statement they are on the ledger, each in one manifest, so
\* that no item is made by an update or taken away while it counts.
Safe(s) ==
    /\ \A f \in files[s] : TableOf[f] = s[2]
    /\ pc[s] \in {"submit", "poll"} =>
          /\ \A m \in queue[s] : /\ m \cap files[s] = {}
                                 /\ \A f \in m : TableOf[f] = s[2] /\ store[f] \in Indexed
          /\ \A m, n \in queue[s] : m # n => m \cap n = {}
          /\ stmt[s] # "finished" => \A f \in files[s] : store[f] \in Indexed
          /\ stmt[s] \notin {"none", "finished"} =>
                \A f \in files[s] : store[f] \in {"PROCESSING", "NEW"}

\* No update makes an item of its own.
NoGhost == \A f \in File : store[f] # "GHOST"

Flight == NoGhost /\ \A s \in Sub : Safe(s)

\* What else the steps rest on.
Known == IInv /\ OneLoaderPerTable /\ Flight

\* A sub-workflow that does nothing keeps its files safe, when what changes on
\* the ledger are files of another that is at work.
LEMMA OthersSafe ==
    ASSUME Known, NEW s \in Sub, NEW r \in Sub, r # s, pc[s] # "idle",
           \A f \in File : store'[f] # store[f] => f \in files[s],
           pc'[r] = pc[r], files'[r] = files[r], queue'[r] = queue[r], stmt'[r] = stmt[r]
    PROVE  Safe(r)'
<1>1. CASE pc[r] \notin {"submit", "poll"} BY <1>1 DEF Known, Flight, Safe
<1>2. CASE pc[r] \in {"submit", "poll"}
  <2>1. r[2] # s[2] BY <1>2 DEF Known, OneLoaderPerTable
  <2>2. \A f \in File : TableOf[f] = r[2] => store'[f] = store[f]
    BY <2>1 DEF Known, Flight, Safe
  <2>3. files[r] \subseteq File /\ \A m \in queue[r] : m \subseteq File
    BY DEF Known, IInv, TypeOK
  <2>4. \A f \in files[r] : store'[f] = store[f]
    BY <2>2, <2>3 DEF Known, Flight, Safe
  <2>5. \A m \in queue[r] : \A f \in m : store'[f] = store[f]
    BY <1>2, <2>2, <2>3 DEF Known, Flight, Safe
  <2>. QED BY <1>2, <2>4, <2>5 DEF Known, Flight, Safe
<1>. QED BY <1>1, <1>2

\* The sub-workflows that end hold nothing.
LEMMA StopSafe ==
    ASSUME Known, NEW S \in SUBSET Sub, NEW next \in {"idle", "failed"}, Stop(S, next),
           NEW s \in S
    PROVE  Safe(s)'
<1>1. pc'[s] = next /\ files'[s] = {} BY DEF Stop
<1>. QED BY <1>1 DEF Safe

\* A Lambda function that is cut short changes items of its sub-workflow's files
\* only, and an item that is there gets no ghost.
LEMMA CutShortSafe ==
    ASSUME Known, NEW s \in Sub, NEW sent, CutShort(s, sent)
    PROVE  /\ \A f \in File : store'[f] # store[f] => f \in files[s]
           /\ NoGhost'
           /\ pc[s] # "idle"
<1>1. store \in [File -> ItemStatus] /\ files[s] \subseteq File /\ NoGhost
  BY DEF Known, IInv, TypeOK, Flight
<1>2. CASE pc[s] = "submit"
  <2>1. \A f \in files[s] : store[f] \in Indexed
    BY <1>2 DEF Known, Flight, Safe, IInv, Inv, StatementPolled
  <2>. QED BY <1>1, <1>2, <2>1 DEF CutShort, Marked, NoGhost, Indexed
<1>3. CASE pc[s] = "enqueue"
  BY <1>1, <1>3 DEF CutShort, Marked, Stored, NoGhost, Indexed, ItemStatus
<1>4. CASE pc[s] \notin {"submit", "enqueue"}
  BY <1>1, <1>4 DEF CutShort, Deleted, NoGhost
<1>. QED BY <1>2, <1>3, <1>4

-----------------------------------------------------------------------------
(* The steps of a sub-workflow.                                            *)

\* The next manifest comes from a queue of disjoint ones that are on the ledger.
LEMMA NextManifestSafe ==
    ASSUME TypeOK, NEW s \in Sub, NEW q \in SUBSET SUBSET File, NextManifest(s, q),
           \A m \in q : \A f \in m : TableOf[f] = s[2] /\ store'[f] \in Indexed,
           \A m, n \in q : m # n => m \cap n = {}
    PROVE  Safe(s)'
<1> USE DEF TypeOK
<1>1. stmt'[s] = "none" BY DEF NextManifest
<1>2. CASE q = {} /\ pc' = [pc EXCEPT ![s] = "more"] /\ files' = [files EXCEPT ![s] = {}]
  <2>1. pc'[s] = "more" /\ files'[s] = {} BY <1>2
  <2>. QED BY <2>1 DEF Safe
<1>3. ASSUME NEW m \in q, files' = [files EXCEPT ![s] = m],
             queue' = [queue EXCEPT ![s] = q \ {m}]
      PROVE  Safe(s)'
  <2>1. files'[s] = m /\ queue'[s] = q \ {m} BY <1>3
  <2>. QED BY <1>1, <2>1 DEF Safe
<1>. QED BY <1>2, <1>3 DEF NextManifest

\* Manifests are of different applications.
LEMMA ManifestsApart ==
    ASSUME NEW S
    PROVE  /\ \A m \in Manifests(S) : m \subseteq S
           /\ \A m, n \in Manifests(S) : m # n => m \cap n = {}
    BY DEF Manifests

\* The batch of a sub-workflow is of its table.
LEMMA BatchOfTable ==
    ASSUME NEW s \in Sub
    PROVE  \A f \in Answer(s, CandidateQueries[s[2]]) : TableOf[f] = s[2]
<1>1. PICK queries : queries = CandidateQueries[s[2]] OBVIOUS
<1>2. queries = <<[table |-> s[2], status |-> "NEW"], [table |-> s[2], status |-> "PROCESSING"],
                  [table |-> s[2], status |-> "ENQUEUE"]>>
  BY <1>1 DEF CandidateQueries, Sub
<1>3. \A n \in DOMAIN queries : queries[n].table = s[2]
  BY <1>2
<1>. QED BY <1>1, <1>3 DEF Answer, Asked, Result, Items

LEMMA EnqueueSafe ==
    ASSUME Known, NEW s \in Sub, Enqueue(s)
    PROVE  Flight'
<1>1. store \in [File -> ItemStatus] /\ files[s] \subseteq File /\ NoGhost /\ TypeOK
  BY DEF Known, IInv, TypeOK, Flight
<1>2. /\ pc[s] = "enqueue" /\ files[s] \subseteq Stored
      /\ store' = Marked(files[s], "ENQUEUE") /\ NextManifest(s, Manifests(files[s]))
  BY DEF Enqueue
<1>3. \A f \in files[s] : store[f] \in Indexed
  BY <1>1, <1>2 DEF Stored, NoGhost, ItemStatus
<1>4. \A f \in files[s] : store'[f] = "ENQUEUE"
  BY <1>1, <1>2, <1>3 DEF Marked
<1>5. \A f \in File : store'[f] # store[f] => f \in files[s] BY <1>2 DEF Marked
<1>6. NoGhost' BY <1>1, <1>4, <1>5 DEF NoGhost
<1>7. Manifests(files[s]) \in SUBSET SUBSET File BY <1>1, ManifestsType
<1>8. \A m \in Manifests(files[s]) : \A f \in m : TableOf[f] = s[2] /\ store'[f] \in Indexed
  BY <1>4, ManifestsApart DEF Known, Flight, Safe, Indexed
<1>9. Safe(s)' BY <1>1, <1>2, <1>7, <1>8, ManifestsApart, NextManifestSafe
<1>10. ASSUME NEW r \in Sub, r # s PROVE Safe(r)'
  <2>1. pc'[r] = pc[r] /\ files'[r] = files[r] /\ queue'[r] = queue[r] /\ stmt'[r] = stmt[r]
    BY <1>1, <1>2, <1>10 DEF NextManifest, TypeOK
  <2>. QED BY <1>2, <1>5, <1>10, <2>1, OthersSafe
<1>. QED BY <1>6, <1>9, <1>10 DEF Flight

LEMMA PollFinishedSafe ==
    ASSUME Known, NEW s \in Sub, PollFinished(s)
    PROVE  Flight'
<1>1. store \in [File -> ItemStatus] /\ files[s] \subseteq File /\ NoGhost /\ TypeOK
  BY DEF Known, IInv, TypeOK, Flight
<1>2. /\ pc[s] = "poll" /\ store' = Deleted(files[s]) /\ NextManifest(s, queue[s])
  BY DEF PollFinished
<1>3. queue[s] \in SUBSET SUBSET File BY <1>1 DEF TypeOK
<1>4. \A f \in File : store'[f] # store[f] => f \in files[s] BY <1>2 DEF Deleted
<1>5. NoGhost' BY <1>1, <1>2 DEF NoGhost, Deleted
<1>6. \A m \in queue[s] : \A f \in m : TableOf[f] = s[2] /\ store'[f] \in Indexed
  BY <1>2, <1>3, <1>4 DEF Known, Flight, Safe
<1>7. \A m, n \in queue[s] : m # n => m \cap n = {}
  BY <1>2 DEF Known, Flight, Safe
<1>8. Safe(s)' BY <1>1, <1>2, <1>3, <1>6, <1>7, NextManifestSafe
<1>9. ASSUME NEW r \in Sub, r # s PROVE Safe(r)'
  <2>1. pc'[r] = pc[r] /\ files'[r] = files[r] /\ queue'[r] = queue[r] /\ stmt'[r] = stmt[r]
    BY <1>1, <1>2, <1>9 DEF NextManifest, TypeOK
  <2>. QED BY <1>2, <1>4, <1>9, <2>1, OthersSafe
<1>. QED BY <1>5, <1>8, <1>9 DEF Flight

LEMMA SubmitSafe ==
    ASSUME Known, NEW s \in Sub, Submit(s)
    PROVE  Flight'
<1>1. store \in [File -> ItemStatus] /\ files[s] \subseteq File /\ NoGhost /\ TypeOK
  BY DEF Known, IInv, TypeOK, Flight
<1>2. /\ pc[s] = "submit" /\ store' = Marked(files[s], "PROCESSING")
      /\ stmt' = [stmt EXCEPT ![s] = "running"] /\ pc' = [pc EXCEPT ![s] = "poll"]
      /\ files' = files /\ queue' = queue
  BY DEF Submit
<1>3. \A f \in files[s] : store[f] \in Indexed
  BY <1>2 DEF Known, Flight, Safe, IInv, Inv, StatementPolled
<1>4. \A f \in files[s] : store'[f] = "PROCESSING" BY <1>1, <1>2, <1>3 DEF Marked
<1>5. \A f \in File : store'[f] # store[f] => f \in files[s] BY <1>2 DEF Marked
<1>6. NoGhost' BY <1>1, <1>4, <1>5 DEF NoGhost
<1>7. Safe(s)'
  <2>1. \A m \in queue[s] : \A f \in m : store'[f] \in Indexed
    BY <1>1, <1>2, <1>5 DEF Known, Flight, Safe, TypeOK
  <2>2. pc'[s] = "poll" /\ stmt'[s] = "running" BY <1>1, <1>2 DEF TypeOK
  <2>. QED BY <1>2, <1>4, <2>1, <2>2 DEF Known, Flight, Safe, Indexed
<1>8. ASSUME NEW r \in Sub, r # s PROVE Safe(r)'
  <2>1. pc'[r] = pc[r] /\ files'[r] = files[r] /\ queue'[r] = queue[r] /\ stmt'[r] = stmt[r]
    BY <1>1, <1>2, <1>8 DEF TypeOK
  <2>. QED BY <1>2, <1>5, <1>8, <2>1, OthersSafe
<1>. QED BY <1>6, <1>7, <1>8 DEF Flight

\* Functions that end in failure, or whose sub-workflow is stopped.
LEMMA EndsSafe ==
    ASSUME Known, NEW s \in Sub,
           EnqueueRefused(s) \/ PollFailed(s) \/ LambdaFails(s) \/ AbortLeftover(s)
    PROVE  Flight'
<1>1. store \in [File -> ItemStatus] /\ files[s] \subseteq File /\ NoGhost
  BY DEF Known, IInv, TypeOK, Flight
<1>2. pc[s] # "idle"
  BY DEF EnqueueRefused, PollFailed, LambdaFails, AbortLeftover, CutShort
<1>3. Stop({s}, "failed") \/ Stop({s}, "idle")
  BY DEF EnqueueRefused, PollFailed, LambdaFails, AbortLeftover
<1>4. NoGhost' /\ \A f \in File : store'[f] # store[f] => f \in files[s]
  <2>1. CASE EnqueueRefused(s)
    BY <2>1, <1>1 DEF EnqueueRefused, Marked, Stored, NoGhost, Indexed, ItemStatus
  <2>2. CASE PollFailed(s) \/ AbortLeftover(s)
    BY <2>2, <1>1 DEF PollFailed, AbortLeftover, ledgerVars, NoGhost
  <2>3. CASE LambdaFails(s)
    BY <2>3, CutShortSafe DEF LambdaFails
  <2>. QED BY <2>1, <2>2, <2>3
<1>5. Safe(s)' BY <1>3, StopSafe
<1>6. ASSUME NEW r \in Sub, r # s PROVE Safe(r)'
  <2>1. pc'[r] = pc[r] /\ files'[r] = files[r] /\ queue'[r] = queue[r] /\ stmt'[r] = stmt[r]
    BY <1>3, <1>6 DEF Stop
  <2>. QED BY <1>2, <1>4, <1>6, <2>1, OthersSafe
<1>. QED BY <1>4, <1>5, <1>6 DEF Flight

\* A function that is invoked again goes on with its files, or looks for them anew: those in
\* a manifest are still there, but for those of a statement that finished.
LEMMA RepeatsSafe ==
    ASSUME Known, NEW s \in Sub, LambdaRepeats(s)
    PROVE  Flight'
<1>1. store \in [File -> ItemStatus] /\ files[s] \subseteq File /\ NoGhost
      /\ \A m \in queue[s] : m \subseteq File
  BY DEF Known, IInv, TypeOK, Flight
<1>2. PICK sent \in BOOLEAN : CutShort(s, sent) BY DEF LambdaRepeats
<1>3. /\ pc' = pc /\ queue' = queue /\ stmt' = stmt
      /\ files' = [files EXCEPT ![s] = IF pc[s] = "manifest" THEN {} ELSE @]
  BY DEF LambdaRepeats
<1>4. /\ pc[s] # "manifest" => files'[s] = files[s]
      /\ \A r \in Sub : r # s => files'[r] = files[r]
  BY <1>3 DEF Known, IInv, TypeOK
<1>5. NoGhost' /\ pc[s] # "idle" /\ \A f \in File : store'[f] # store[f] => f \in files[s]
  BY <1>2, CutShortSafe
<1>6. Safe(s)'
  <2>1. CASE pc[s] \notin {"submit", "poll"} BY <2>1, <1>3, <1>4 DEF Known, Flight, Safe
  <2>2. CASE pc[s] \in {"submit", "poll"}
    <3>1. \A m \in queue[s] : \A f \in m : store'[f] \in Indexed
      BY <1>1, <1>5, <2>2 DEF Known, Flight, Safe
    <3>2. CASE pc[s] = "poll"
      BY <1>2, <1>3, <1>4, <3>1, <3>2 DEF CutShort, Known, Flight, Safe
    <3>3. CASE pc[s] = "submit"
      <4>1. stmt[s] = "none" BY <3>3 DEF Known, IInv, Inv, StatementPolled
      <4>2. \A f \in files[s] : store[f] \in Indexed
        BY <3>3, <4>1 DEF Known, Flight, Safe
      <4>3. \A f \in files[s] : store'[f] \in Indexed
        BY <1>1, <1>2, <3>3, <4>2 DEF CutShort, Marked, Indexed
      <4>. QED BY <1>3, <1>4, <3>1, <3>3, <4>1, <4>3 DEF Known, Flight, Safe
    <3>. QED BY <2>2, <3>2, <3>3
  <2>. QED BY <2>1, <2>2
<1>7. ASSUME NEW r \in Sub, r # s PROVE Safe(r)'
  BY <1>3, <1>4, <1>5, <1>7, OthersSafe
<1>. QED BY <1>5, <1>6, <1>7 DEF Flight

\* The ledger stays as it is.
LEMMA LedgerUntouched ==
    ASSUME Known, NEW s \in Sub, store' = store,
           \A r \in Sub \ {s} : /\ pc'[r] = pc[r] /\ files'[r] = files[r]
                                /\ queue'[r] = queue[r] /\ stmt'[r] = stmt[r],
           Safe(s)'
    PROVE  Flight'
<1>1. NoGhost' BY DEF Known, Flight, NoGhost
<1>2. ASSUME NEW r \in Sub, r # s PROVE Safe(r)' BY <1>2 DEF Known, Flight, Safe
<1>. QED BY <1>1, <1>2 DEF Flight

LEMMA QuietSafe ==
    ASSUME Known, NEW s \in Sub,
           \/ QueryCandidates(s) \/ WaitAndCheckAgain(s) \/ PollConflict(s)
           \/ CheckMoreWork(s) \/ StatementMerges(s) \/ StatementSwallowsError(s)
           \/ StatementFails(s)
    PROVE  Flight'
<1> USE DEF ledgerVars
<1>1. TypeOK /\ Safe(s) BY DEF Known, IInv, Flight
<1>2. stmt[s] # "none" => pc[s] = "poll" BY DEF Known, IInv, Inv, StatementPolled
<1>3. CASE QueryCandidates(s)
  <2>1. files'[s] \in SUBSET File /\ pc'[s] \in {"manifest", "wait", "enqueue"}
    BY <1>1, <1>3, AnswerFiles DEF QueryCandidates, TypeOK
  <2>2. \A f \in files'[s] \ files[s] : TableOf[f] = s[2]
    BY <1>1, <1>3, BatchOfTable DEF QueryCandidates, TypeOK
  <2>3. pc[s] = "manifest" BY <1>3 DEF QueryCandidates
  <2>4. Safe(s)' BY <1>1, <2>1, <2>2, <2>3 DEF Safe
  <2>. QED BY <1>1, <1>3, <2>4, LedgerUntouched DEF QueryCandidates, TypeOK
<1>4. CASE WaitAndCheckAgain(s)
  <2>1. pc'[s] = "more" /\ files' = files BY <1>1, <1>4 DEF WaitAndCheckAgain, TypeOK
  <2>2. Safe(s)' BY <1>1, <2>1 DEF Safe
  <2>. QED BY <1>1, <1>4, <2>2, LedgerUntouched DEF WaitAndCheckAgain, TypeOK
<1>5. CASE PollConflict(s)
  <2>1. /\ pc[s] = "poll" /\ stmt[s] = "conflict" /\ pc'[s] = "submit" /\ stmt'[s] = "none"
        /\ files' = files /\ queue' = queue /\ store' = store
    BY <1>1, <1>5 DEF PollConflict, TypeOK
  <2>2. Safe(s)' BY <1>1, <2>1 DEF Safe
  <2>. QED BY <1>1, <1>5, <2>2, LedgerUntouched DEF PollConflict, TypeOK
<1>6. CASE CheckMoreWork(s)
  <2>1. pc'[s] \in {"more", "manifest", "succeeded"} /\ files' = files
    BY <1>1, <1>6 DEF CheckMoreWork, TypeOK
  <2>2. Safe(s)' BY <1>1, <2>1 DEF Safe
  <2>. QED BY <1>1, <1>6, <2>2, LedgerUntouched DEF CheckMoreWork, TypeOK
<1>7. CASE StatementMerges(s) \/ StatementSwallowsError(s) \/ StatementFails(s)
  <2>1. /\ stmt[s] = "running" /\ stmt'[s] \in {"finished", "conflict", "failed", "aborted"}
        /\ pc' = pc /\ files' = files /\ queue' = queue /\ store' = store
        /\ \A r \in Sub \ {s} : stmt'[r] = stmt[r]
    BY <1>1, <1>7 DEF StatementMerges, StatementSwallowsError, StatementFails, TypeOK
  <2>2. Safe(s)' BY <1>1, <1>2, <2>1 DEF Safe
  <2>. QED BY <2>1, <2>2, LedgerUntouched
<1>. QED BY <1>3, <1>4, <1>5, <1>6, <1>7

-----------------------------------------------------------------------------
(* Every step.                                                             *)

LEMMA EventsSafe ==
    ASSUME Known, NEW f \in File,
           ObjectCreated(f) \/ ObjectCreatedAgain(f) \/ Propagate(f)
    PROVE  Flight'
<1>1. TypeOK /\ NoGhost /\ \A s \in Sub : Safe(s) BY DEF Known, IInv, Flight
<1>2. pc' = pc /\ files' = files /\ queue' = queue /\ stmt' = stmt
  BY DEF ObjectCreated, ObjectCreatedAgain, Propagate, subVars
<1>3. \A g \in File : store'[g] = store[g] \/ store'[g] = "NEW"
  BY <1>1 DEF ObjectCreated, ObjectCreatedAgain, Propagate, TypeOK
<1>4. NoGhost' BY <1>1, <1>3 DEF NoGhost
<1>5. ASSUME NEW s \in Sub PROVE Safe(s)'
  <2>1. Safe(s) BY <1>1
  <2>2. files[s] \subseteq File /\ \A m \in queue[s] : m \subseteq File
    BY <1>1 DEF TypeOK
  <2>3. \A g \in File : store[g] \in Indexed => store'[g] \in Indexed
    BY <1>3 DEF Indexed
  <2>. QED BY <1>2, <1>3, <2>1, <2>2, <2>3 DEF Safe
<1>. QED BY <1>4, <1>5 DEF Flight

LEMMA MainSafe ==
    ASSUME Known, NEW e \in Exec, Trigger(e) \/ MainStep(e)
    PROVE  Flight'
<1>1. TypeOK /\ NoGhost /\ \A s \in Sub : Safe(s) BY DEF Known, IInv, Flight
<1>2. CASE Trigger(e) \/ CountPending(e) \/ EndExecution(e)
  <2>1. /\ pc' = pc /\ files' = files /\ queue' = queue /\ stmt' = stmt /\ store' = store
    BY <1>2 DEF Trigger, CountPending, EndExecution, subVars, ledgerVars
  <2>. QED BY <1>1, <2>1 DEF Flight, NoGhost, Safe
<1>3. CASE ListExecutions(e)
  <2>1. /\ files' = files /\ queue' = queue /\ stmt' = stmt /\ store' = store
        /\ \A s \in Sub : pc'[s] = pc[s] \/ pc'[s] = "manifest"
    BY <1>1, <1>3 DEF ListExecutions, ledgerVars, TypeOK
  <2>2. NoGhost' BY <1>1, <2>1 DEF NoGhost
  <2>3. ASSUME NEW s \in Sub PROVE Safe(s)'
    BY <1>1, <2>1 DEF Safe
  <2>. QED BY <2>2, <2>3 DEF Flight
<1>4. CASE AllBranchesSucceeded(e) \/ BranchFailed(e)
  <2>1. store' = store BY <1>4 DEF AllBranchesSucceeded, BranchFailed, ledgerVars
  <2>2. PICK S \in SUBSET Sub : Stop(S, "idle")
    BY <1>4 DEF AllBranchesSucceeded, BranchFailed, Sub
  <2>3. NoGhost' BY <1>1, <2>1 DEF NoGhost
  <2>4. ASSUME NEW s \in Sub PROVE Safe(s)'
    <3>1. CASE s \in S BY <2>2, <3>1, StopSafe
    <3>2. CASE s \notin S
      <4>1. pc'[s] = pc[s] /\ files'[s] = files[s] /\ queue'[s] = queue[s] /\ stmt'[s] = stmt[s]
        BY <2>2, <3>2 DEF Stop
      <4>. QED BY <1>1, <2>1, <4>1 DEF Safe
    <3>. QED BY <3>1, <3>2
  <2>. QED BY <2>3, <2>4 DEF Flight
<1>. QED BY <1>2, <1>3, <1>4 DEF MainStep

LEMMA UntouchedSafe ==
    ASSUME Known, UNCHANGED <<store, pc, files, queue, stmt>>
    PROVE  Flight'
    BY DEF Known, Flight, NoGhost, Safe

LEMMA FlightStep ==
    ASSUME Known, [Next]_vars
    PROVE  Flight'
<1>1. CASE UNCHANGED vars BY <1>1, UntouchedSafe DEF vars
<1>2. ASSUME NEW f \in File, ObjectCreated(f) \/ ObjectCreatedAgain(f) \/ Propagate(f)
      PROVE  Flight'
  BY <1>2, EventsSafe
<1>3. ASSUME NEW e \in Exec, Trigger(e) \/ MainStep(e) PROVE Flight'
  BY <1>3, MainSafe
<1>4. ASSUME NEW s \in Sub, SubStep(s) PROVE Flight'
  BY <1>4, QuietSafe, EnqueueSafe, SubmitSafe, PollFinishedSafe, EndsSafe DEF SubStep
<1>5. ASSUME NEW s \in Sub,
             \/ AbortLeftover(s) \/ LambdaFails(s) \/ LambdaRepeats(s)
             \/ StatementSwallowsError(s) \/ StatementFails(s)
      PROVE  Flight'
  BY <1>5, QuietSafe, EndsSafe, RepeatsSafe
<1>6. ASSUME NEW m \in orphans, OrphanEnds(m) PROVE Flight'
  BY <1>6, UntouchedSafe DEF OrphanEnds, ledgerVars, subVars
<1>. QED BY <1>1, <1>2, <1>3, <1>4, <1>5, <1>6 DEF Next

LEMMA FlightHolds == PromptStop => (Spec => []Flight)
<1>1. Init => Flight
  BY DEF Init, Flight, NoGhost, Safe
<1>2. IInv /\ OneLoaderPerTable /\ Flight /\ [Next]_vars => Flight'
  BY FlightStep DEF Known
<1>3. ASSUME PromptStop PROVE Spec => []Flight
  <2>1. Spec => []OneLoaderPerTable BY <1>3, OneLoaderForTable
  <2>. QED BY <1>1, <1>2, <2>1, InvCorrect, PTL DEF Spec
<1>. QED BY <1>3

\* Under the same assumption, a file in a statement that is polled stays
\* PROCESSING (or NEW again) until the end of the statement is acted upon,
\* whatever functions fail or are repeated and however far the index lags.
THEOREM InFlightStaysOnLedger == PromptStop => (Spec => []InFlightOnLedger)
<1>1. IInv /\ Flight => InFlightOnLedger
  BY DEF IInv, Inv, StatementPolled, Flight, Safe, InFlightOnLedger
<1>2. ASSUME PromptStop PROVE Spec => []InFlightOnLedger
  <2>1. Spec => []Flight BY <1>2, FlightHolds
  <2>. QED BY <1>1, <2>1, InvCorrect, PTL
<1>. QED BY <1>2
=============================================================================
