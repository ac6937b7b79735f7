---------------------------- MODULE StackWorkflow ----------------------------
(***************************************************************************)
(* The workflow of a pipeline: the CloudFormation stacks it is made of, in *)
(* serial branches that run beside one another, and the state machine that *)
(* works through them.  The item keeps the workflow that creates           *)
(* everything; each request derives from it one to execute, in which       *)
(* stacks are updated, passed over, or deleted in the opposite order.      *)
(*                                                                         *)
(* A stack takes some of its parameters from the outputs of stacks before  *)
(* it: each step leaves the outputs of its stack in a file under the       *)
(* prefix of the workflow, and a later step looks them up there, taking an *)
(* empty value for one that is not found.                                  *)
(*                                                                         *)
(* PipelineStatus is about the races of requests and listeners over the    *)
(* item; here requests follow one another, one execution runs at a time    *)
(* (Resting) and the item is up to date.  The statuses that requests check *)
(* ensure that, but for DELETE /pipeline/:id, which checks none: a         *)
(* deletion begun by it beside a running execution is not in this module.  *)
(***************************************************************************)
EXTENDS Naturals

CONSTANTS
    Shapes,      \* what a pipeline may consist of, as sets of stacks
    Edits,       \* sets of stacks whose parameters an update may change
    FirstKeys,   \* keys of the outer branch that may be listed first
    MaxExec,     \* bound: executions
    MaxMishaps   \* bound: failures

Registry == "ServiceCatalogAppRegistry"
PipelineStacks == "PipelineStacks"
End == "End"

Stack == {Registry, "Ingestion", "KafkaConnector", "DataProcessing", "Athena",
          "DataModelingRedshift", "Reporting", "Metrics"}
Branch == {"root", "ingestion", "processing", "metrics"}
Always == {Registry, "Ingestion", "Metrics"}
AppStack == {"Ingestion", "DataProcessing", "DataModelingRedshift", "Reporting"}

ASSUME StackWorkflowAssumption ==
    /\ \A shape \in Shapes :
          /\ Always \subseteq shape /\ shape \subseteq Stack
          /\ shape \cap {"Athena", "DataModelingRedshift"} # {} => "DataProcessing" \in shape
          /\ "Reporting" \in shape => "DataModelingRedshift" \in shape
    /\ Edits \subseteq SUBSET Stack
    /\ FirstKeys \subseteq {Registry, PipelineStacks}
    /\ MaxExec \in Nat \ {0} /\ MaxMishaps \in Nat

VARIABLES
    saved,       \* the workflow in the item
    reporting,   \* the item asks for reporting
    action,      \* lastAction of the item
    run,         \* the last execution
    status,      \* status of each stack in CloudFormation
    made,        \* stacks that have outputs
    starved,     \* stacks last sent an empty value for an output
    blank,       \* stacks deployed with an empty value for an output
    behind,      \* stacks with a template older than the pipeline's version
    untagged,    \* stacks whose tag has not the pipeline's version
    files,       \* prefix -> stacks whose outputs are in a file under it
    overlooked,  \* outputs may be missing, of a stack that was passed over
                 \* too early or not described (history)
    mishaps      \* failures so far

workflowVars == <<saved, reporting, action, run, status, made, starved, blank,
                  behind, untagged, files, overlooked, mishaps>>
itemVars == <<saved, reporting, action>>
versionVars == <<behind, untagged>>
stackVars == <<status, made, starved, blank, versionVars>>

Execution == 1 .. MaxExec
InProgress == {"creating", "updating", "upgrading", "deleting"}
Broken == {"failed", "undeleted"}
Settled == {"complete", "rollback"}            \* UPDATE_ROLLBACK_COMPLETE

-----------------------------------------------------------------------------
(* Workflows.                                                              *)

\* The branches.  PipelineStacks is the Parallel state with all but the root.
Members == [root |-> {Registry, PipelineStacks},
            ingestion |-> {"Ingestion", "KafkaConnector"},
            processing |-> {"DataProcessing", "Athena", "DataModelingRedshift", "Reporting"},
            metrics |-> {"Metrics"}]

\* What is created after a state of the same branch.
Later(s) ==
    CASE s = Registry -> {PipelineStacks}
      [] s = "Ingestion" -> {"KafkaConnector"}
      [] s = "DataProcessing" -> {"Athena", "DataModelingRedshift", "Reporting"}
      [] s = "Athena" -> {"DataModelingRedshift", "Reporting"}
      [] s = "DataModelingRedshift" -> {"Reporting"}
      [] OTHER -> {}

\* The stacks whose outputs are parameters of a stack.  All take the registry's
\* (as do their tags, but a tag that is not found is left out).
Uses(s) ==
    CASE s = Registry -> {}
      [] s \in {"Athena", "DataModelingRedshift"} -> {Registry, "DataProcessing"}
      [] s = "Reporting" -> {Registry, "DataModelingRedshift"}
      [] OTHER -> {Registry}

First(states) == CHOOSE s \in states : states \ {s} \subseteq Later(s)

\* StartAt of a branch, and of each of its states Next or End.
Linked(states) ==
    [start |-> First(states),
     next |-> [s \in states |-> IF states \cap Later(s) = {} THEN End
                                ELSE First(states \cap Later(s))]]

Chain(b, shape) == Members[b] \cap (shape \cup {PipelineStacks})

\* generateWorkflow
Generated(shape, prefix) ==
    [branch |-> [b \in {c \in Branch : Chain(c, shape) # {}} |-> Linked(Chain(b, shape))],
     type |-> [s \in Stack |-> "Stack"],
     action |-> [s \in Stack |-> "Create"],
     prefix |-> prefix]

States(wf, b) == DOMAIN wf.branch[b].next
StacksOf(wf) == (UNION {States(wf, b) : b \in DOMAIN wf.branch}) \ {PipelineStacks}

\* Mutant: the states of a branch keep their order.
ReversedNot(br) == br

\* _getParallelDeleteWorkflow
Reversed(br) ==
    LET last == CHOOSE s \in DOMAIN br.next : br.next[s] = End
        Previous(s) == CHOOSE r \in DOMAIN br.next : br.next[r] = s
    IN [start |-> last,
        next |-> [s \in DOMAIN br.next |-> IF s = br.start THEN End ELSE Previous(s)]]

DeleteWorkflow(wf, prefix) ==
    [wf EXCEPT !.branch = [b \in DOMAIN wf.branch |-> Reversed(wf.branch[b])],
               !.action = [s \in Stack |-> "Delete"], !.prefix = prefix]

\* updateWorkflowForApp, which leaves the prefix as it is.
AppWorkflow(wf) ==
    [wf EXCEPT !.type = [s \in Stack |-> IF s \in AppStack THEN "Stack" ELSE "Pass"],
               !.action = [s \in Stack |-> IF s \in AppStack THEN "Update" ELSE @[s]]]

\* upgradeWorkflow: what is new is created.
UpgradeWorkflow(old, new) ==
    [new EXCEPT !.action =
        [s \in Stack |-> IF s \in StacksOf(old) THEN "Upgrade" ELSE "Create"]]

\* getStackStatusByName
StatusByName(s) == IF s \in untagged THEN "failed" ELSE status[s]

\* updateWorkflowParameters, which makes a step of an edited stack an update,
\* and updateWorkflowAction.
UpdateWorkflow(wf, edited, prefix) ==
    LET passed == {s \in Stack : StatusByName(s) \in InProgress
                                 \/ (StatusByName(s) \in Settled /\ s \notin edited)}
    IN [wf EXCEPT !.type = [s \in Stack |-> IF s \in passed THEN "Pass" ELSE "Stack"],
                  !.action = [s \in Stack |-> IF s \in edited \/ StatusByName(s) \in Broken
                                              THEN "Update" ELSE @[s]],
                  !.prefix = prefix]

\* updateWorkflowTags, with edited tags.  A reporting state that is new is
\* shared with the saved workflow, which is set to Create after it.
WithTags(wf, new) ==
    [wf EXCEPT !.type = [s \in Stack |-> "Stack"],
               !.action = [s \in Stack |-> IF s \in new THEN "Create" ELSE "Update"]]

\* _getRetryStackNames
RetryStacks ==
    LET failed == {s \in Stack : status[s] \in {"none", "rollback"} \cup Broken}
        After(s) ==
            CASE s = "Ingestion" -> {"KafkaConnector"}
              [] s = "DataProcessing" -> {"Athena", "DataModelingRedshift", "Reporting"}
              [] s \in {"Athena", "DataModelingRedshift"} -> {"Reporting"}
              [] OTHER -> {}
    IN failed \cup UNION {After(s) : s \in failed}

\* _getRetryAction
RetryAction(s) ==
    CASE StatusByName(s) \in {"none"} \cup InProgress -> "Create"
      [] action = "Upgrade" -> "Upgrade"
      [] OTHER -> "Update"

Retried(wf, stacks, prefix) ==
    [wf EXCEPT !.type = [s \in Stack |-> IF s \in stacks THEN "Stack" ELSE "Pass"],
               !.action = [s \in Stack |-> IF s \in stacks THEN RetryAction(s) ELSE @[s]],
               !.prefix = prefix]

\* Mutant: stacks that do not exist are not repeated.
RetryWorkflowKnown(wf, prefix) ==
    Retried(wf, {s \in RetryStacks : status[s] # "none"}, prefix)

\* getRetryWorkflow
RetryWorkflow(wf, prefix) == Retried(wf, RetryStacks, prefix)

\* _findBranch(DataProcessing): of a Parallel state whose branches start
\* otherwise, it looks into the first key of the first branch only.
BranchFound(wf, first) == first = PipelineStacks /\ "processing" \in DOMAIN wf.branch

\* updateWorkflowReporting
WithReporting(wf, first) ==
    IF BranchFound(wf, first) /\ "DataModelingRedshift" \in States(wf, "processing")
    THEN [wf EXCEPT
             !.branch["processing"] = Linked(States(wf, "processing") \cup {"Reporting"}),
             !.type["Reporting"] = "Stack", !.action["Reporting"] = "Create"]
    ELSE wf

-----------------------------------------------------------------------------
(* Requests.                                                               *)

Resting == run.status # "RUNNING"

\* getPipelineStatusType, when no execution is running.
PipelineStatusType ==
    LET found == {status[s] : s \in StacksOf(saved)}
        bad == found \cap (Broken \cup {"rollback"}) # {}
        failing == IF action \in {"Update", "Upgrade"} THEN "Warning" ELSE "Failed"
    IN CASE run.status = "FAILED" -> failing
         [] run.status = "SUCCEEDED" /\ bad -> failing
         [] run.status = "SUCCEEDED" /\ ~bad /\ found \cap InProgress # {} -> "Busy"
         [] run.status = "SUCCEEDED" /\ ~bad /\ found = {"none"} -> "Deleted"
         [] run.status = "SUCCEEDED" /\ ~bad /\ found \cap InProgress = {}
               /\ found # {"none"} /\ untagged # {} -> "Warning"
         [] OTHER -> "Active"

\* A request passes over a stack while CloudFormation works on it, or an
\* application's registration over one that is not complete.
Overlooks(kind, wf) ==
    \E s \in StacksOf(wf) :
        /\ wf.type[s] = "Pass"
        /\ status[s] \in InProgress \/ (kind = "UpdateApp" /\ status[s] \notin Settled)

\* startExecution
Begins(kind, wf) ==
    /\ run' = [number |-> run.number + 1, kind |-> kind, status |-> "RUNNING",
               wf |-> wf, wait |-> {},
               at |-> [b \in DOMAIN wf.branch |->
                          IF b = "root" THEN wf.branch[b].start ELSE "none"]]
    /\ overlooked' = (overlooked \/ Overlooks(kind, wf))
    /\ UNCHANGED <<status, made, starved, blank, files, mishaps>>

\* One execution at a time, which is this module's scope.  A deleted pipeline
\* is not found any more.
Requested(allowed) ==
    /\ Resting
    /\ run.number \in 1 .. MaxExec - 1
    /\ PipelineStatusType \in allowed

NewPrefix == run.number + 1

StackWorkflowInit ==
    /\ saved \in {Generated(shape, 1) : shape \in Shapes}
    /\ reporting = ("Reporting" \in StacksOf(saved))
    /\ action = "Create"
    /\ run = [number |-> 0, kind |-> "Create", status |-> "none", wf |-> saved,
              at |-> [b \in {} |-> "none"], wait |-> {}]
    /\ status = [s \in Stack |-> "none"]
    /\ made = {} /\ starved = {} /\ blank = {} /\ behind = {} /\ untagged = {}
    /\ files = [p \in Execution |-> {}]
    /\ overlooked = FALSE
    /\ mishaps = 0

Create ==
    /\ run.number = 0
    /\ Begins("Create", saved)
    /\ UNCHANGED <<itemVars, versionVars>>

UpdateApp ==
    /\ Requested({"Active", "Failed", "Warning"})
    /\ action' = "Update"
    /\ Begins("UpdateApp", AppWorkflow(saved))
    /\ UNCHANGED <<saved, reporting, versionVars>>

\* Parameters, then reporting, then tags.
Update(edited, enables, tags, first) ==
    LET changed == UpdateWorkflow(saved, edited \cap StacksOf(saved), NewPrefix)
        With(wf) == IF enables THEN WithReporting(wf, first) ELSE wf
        new == StacksOf(With(saved)) \ StacksOf(saved)
    IN
    /\ Requested({"Active", "Failed", "Warning"})
    /\ enables => ~reporting
    /\ reporting' = (reporting \/ enables)
    /\ action' = "Update"
    /\ saved' = [With(saved) EXCEPT !.prefix = NewPrefix]
    /\ Begins("Update", IF tags THEN WithTags(With(changed), new) ELSE With(changed))
    /\ UNCHANGED versionVars

\* To a newer version of the solution: what exists is of an older one.  What is
\* generated has reporting if that is asked for and there is a warehouse.
Upgrade ==
    LET shape == StacksOf(saved) \cup
                     (IF reporting /\ "DataModelingRedshift" \in StacksOf(saved)
                      THEN {"Reporting"} ELSE {})
        generated == Generated(shape, NewPrefix)
        existing == {s \in StacksOf(saved) : status[s] # "none"}
    IN
    /\ Requested({"Active"})
    /\ action' = "Upgrade"
    /\ saved' = generated
    /\ behind' = existing /\ untagged' = existing
    /\ Begins("Upgrade", UpgradeWorkflow(saved, generated))
    /\ UNCHANGED reporting

\* delete, which a retry of a deletion is too: of the project, or by
\* DELETE /pipeline/:id, at any status.
Delete ==
    /\ Requested({"Active", "Failed", "Warning", "Busy"})
    /\ action' = "Delete"
    /\ Begins("Delete", DeleteWorkflow(saved, NewPrefix))
    /\ UNCHANGED <<saved, reporting, versionVars>>

Retry ==
    /\ Requested({"Failed", "Warning"})
    /\ action # "Delete"
    /\ Begins("Retry", RetryWorkflow(saved, NewPrefix))
    /\ UNCHANGED <<itemVars, versionVars>>

-----------------------------------------------------------------------------
(* The state machine.                                                      *)

Running(b) == run.status = "RUNNING" /\ b \in DOMAIN run.at

Others == (DOMAIN run.at) \ {"root"}

\* ParallelMap: the branches begin.
Enter ==
    /\ Running("root") /\ run.at["root"] = PipelineStacks
    /\ \A b \in Others : run.at[b] = "none"
    /\ run' = [run EXCEPT !.at = [b \in DOMAIN @ |->
                  IF b = "root" THEN PipelineStacks ELSE run.wf.branch[b].start]]
    /\ UNCHANGED <<itemVars, stackVars, files, overlooked, mishaps>>

\* ... and have all ended.
Join ==
    /\ Running("root") /\ run.at["root"] = PipelineStacks
    /\ \A b \in Others : run.at[b] = End
    /\ run' = [run EXCEPT !.at["root"] = run.wf.branch["root"].next[PipelineStacks]]
    /\ UNCHANGED <<itemVars, stackVars, files, overlooked, mishaps>>

Proceeds(b) ==
    run' = [run EXCEPT !.at[b] = run.wf.branch[b].next[run.at[b]],
                       !.wait = @ \ {run.at[b]}]

\* SerialMap is at stack s of branch b.
AtStack(b, s, type) ==
    /\ Running(b)
    /\ run.at[b] = s /\ s \in Stack
    /\ run.wf.type[s] = type

Mishap ==
    /\ mishaps < MaxMishaps
    /\ mishaps' = mishaps + 1

\* callback: what DescribeStacks says goes to the file.
Written(s, found) ==
    files' = [files EXCEPT ![run.wf.prefix] = IF found THEN @ \cup {s} ELSE @ \ {s}]

\* A Pass step; a describe that fails is taken for a stack without outputs.
PassStack(b, s) ==
    /\ AtStack(b, s, "Pass")
    /\ Proceeds(b)
    /\ \/ /\ Written(s, s \in made)
          /\ UNCHANGED <<overlooked, mishaps>>
       \/ /\ Mishap
          /\ Written(s, FALSE)
          /\ overlooked' = TRUE
    /\ UNCHANGED <<itemVars, stackVars>>

\* A Stack step: the parameters are looked up, and the action is called.
Called(b, s, act) ==
    /\ AtStack(b, s, "Stack")
    /\ s \notin run.wait
    /\ run.wf.action[s] = act

Waits(s) == run' = [run EXCEPT !.wait = @ \cup {s}]
Unfed(s) == ~(Uses(s) \subseteq files[run.wf.prefix])

Sends(s, new) ==
    /\ status' = [status EXCEPT ![s] = new]
    /\ starved' = IF Unfed(s) THEN starved \cup {s} ELSE starved \ {s}

\* One that exists is waited for.
CreateStack(b, s) ==
    /\ Called(b, s, "Create")
    /\ Waits(s)
    /\ IF status[s] = "none" THEN Sends(s, "creating")
       ELSE UNCHANGED <<status, starved>>
    /\ UNCHANGED <<itemVars, made, blank, versionVars, files, overlooked, mishaps>>

\* updateStack and upgradeStack.  "No updates are to be performed" and "can
\* not be updated" count as done, and the stack is waited for as it is.
ChangeStack(b, s, act, new) ==
    /\ Called(b, s, act)
    /\ status[s] # "none"
    /\ Waits(s)
    /\ \/ /\ status[s] \in Settled \cup {"failed"}
          /\ Sends(s, new)
       \/ /\ \/ status[s] \in InProgress \cup {"undeleted"}
             \/ (status[s] \in Settled /\ s \notin untagged /\ Unfed(s) = (s \in blank))
          /\ UNCHANGED <<status, starved>>
    /\ UNCHANGED <<itemVars, made, blank, versionVars, files, overlooked, mishaps>>

UpdateStack(b, s) == ChangeStack(b, s, "Update", "updating")
UpgradeStack(b, s) == ChangeStack(b, s, "Upgrade", "upgrading")

\* CloudFormation refuses to delete a stack that is being updated.
DeleteStack(b, s) ==
    /\ Called(b, s, "Delete")
    /\ IF status[s] = "none" THEN Proceeds(b) /\ UNCHANGED status
       ELSE /\ status[s] \notin {"updating", "upgrading"}
            /\ Waits(s)
            /\ status' = [status EXCEPT ![s] = "deleting"]
    /\ UNCHANGED <<itemVars, made, starved, blank, versionVars, files, overlooked, mishaps>>

RunFails == run' = [run EXCEPT !.status = "FAILED", !.wait = {}]

\* A call that is refused ends the execution, and with it the branches beside.
CallFails(b, s) ==
    /\ \/ (Called(b, s, "Update") \/ Called(b, s, "Upgrade")) /\ status[s] = "none"
       \/ Called(b, s, "Delete") /\ status[s] \in {"updating", "upgrading"}
    /\ RunFails
    /\ UNCHANGED <<itemVars, stackVars, files, overlooked, mishaps>>

\* describeStack until the stack is not in progress, then callback.  A stack
\* that is looked for by its name must be there.
Finish(b, s) ==
    /\ AtStack(b, s, "Stack")
    /\ s \in run.wait
    /\ status[s] \notin InProgress
    /\ IF status[s] = "none" /\ run.wf.action[s] # "Delete"
       THEN UNCHANGED files
       ELSE Written(s, s \in made)
    /\ IF status[s] \in Settled \/ (status[s] = "none" /\ run.wf.action[s] = "Delete")
       THEN Proceeds(b)
       ELSE RunFails
    /\ UNCHANGED <<itemVars, stackVars, overlooked, mishaps>>

\* The execution is ended otherwise; stack operations go on.
Breaks ==
    /\ run.status = "RUNNING"
    /\ Mishap
    /\ RunFails
    /\ UNCHANGED <<itemVars, stackVars, files, overlooked>>

Succeeds ==
    /\ Running("root") /\ run.at["root"] = End
    /\ run' = [run EXCEPT !.status = "SUCCEEDED"]
    /\ UNCHANGED <<itemVars, stackVars, files, overlooked, mishaps>>

-----------------------------------------------------------------------------
(* CloudFormation.                                                         *)

\* The parameters that were sent are those of the stack.
Deployed(s) == blank' = IF s \in starved THEN blank \cup {s} ELSE blank \ {s}

Removed(s) ==
    /\ made' = made \ {s} /\ blank' = blank \ {s}
    /\ behind' = behind \ {s} /\ untagged' = untagged \ {s}

StackDone(s) ==
    /\ status[s] \in InProgress
    /\ status' = [status EXCEPT ![s] = IF @ = "deleting" THEN "none" ELSE "complete"]
    /\ IF status[s] = "deleting" THEN Removed(s)
       ELSE /\ made' = made \cup {s}
            /\ Deployed(s)
            /\ untagged' = untagged \ {s}
            /\ behind' = IF status[s] = "upgrading" THEN behind \ {s} ELSE behind
    /\ UNCHANGED <<itemVars, run, starved, files, overlooked, mishaps>>

\* Only an update of a complete stack is rolled back.
StackFails(s) ==
    /\ status[s] \in InProgress
    /\ Mishap
    /\ status' = [status EXCEPT ![s] =
           CASE @ = "deleting" -> "undeleted"
             [] @ \in {"updating", "upgrading"} /\ s \in made -> "rollback"
             [] OTHER -> "failed"]
    /\ UNCHANGED <<itemVars, run, made, starved, blank, versionVars, files, overlooked>>

Requests ==
    \/ Create \/ UpdateApp \/ Upgrade \/ Delete \/ Retry
    \/ \E edited \in Edits, enables \in BOOLEAN, tags \in BOOLEAN, first \in FirstKeys :
          Update(edited, enables, tags, first)

StateMachine ==
    \/ Enter \/ Join \/ Breaks \/ Succeeds
    \/ \E b \in DOMAIN run.at : \E s \in {run.at[b]} \cap Stack :
          \/ PassStack(b, s) \/ CreateStack(b, s) \/ UpdateStack(b, s)
          \/ UpgradeStack(b, s) \/ DeleteStack(b, s)
          \/ CallFails(b, s) \/ Finish(b, s)

StackWorkflowNext ==
    \/ Requests \/ StateMachine
    \/ \E s \in Stack : StackDone(s) \/ StackFails(s)

StackWorkflowSpec == StackWorkflowInit /\ [][StackWorkflowNext]_workflowVars

-----------------------------------------------------------------------------
(* Properties.                                                             *)

Exists(s) == status[s] # "none"

InOrder ==
    \A b \in DOMAIN saved.branch : \A r \in States(saved, b) :
        LET s == saved.branch[b].next[r] IN
        /\ s \in Stack /\ Exists(s) => Exists(r)
        /\ r = Registry /\ ~Exists(r) => \A t \in StacksOf(saved) : ~Exists(t)

\* Through any requests, failures and retries, a stack exists only while those
\* before it in its branch, and the registry, exist, so that creation and
\* deletion keep opposite orders; and none is deployed with an empty value in
\* place of an output of another, since every step finds the files it needs
\* under the prefix of its own workflow.  Unless a request has passed over a
\* stack that was in progress (getRetryWorkflow and getUpdateWorkflow do) or,
\* to register an application, one that was not complete; or a describe has
\* failed.  With one execution at a time: a deletion begun through
\* DELETE /pipeline/:id beside a creation deletes what the other needs.
DependenciesHold == ~overlooked => InOrder /\ blank = {}

\* A deletion that succeeds leaves no stack.  Every other request that does
\* leaves none out (a retry repeats those that do not exist), and an upgrade
\* leaves none on an old template but what it rolled back.  With one execution
\* at a time: a creation beside a deletion makes again what the other passed.
NoneForgotten ==
    run.status = "SUCCEEDED" =>
        /\ run.kind = "Delete" => \A s \in StacksOf(saved) : ~Exists(s)
        /\ run.kind # "Delete" /\ ~overlooked => \A s \in StacksOf(saved) : Exists(s)
        /\ run.kind = "Upgrade" /\ ~overlooked => \A s \in behind : status[s] = "rollback"
=============================================================================
