--------------------------- MODULE PipelineStatus ---------------------------
(***************************************************************************)
(* One data pipeline of the control plane: its item in DynamoDB, the API   *)
(* requests that read and write the whole item, the state machine that     *)
(* works through its CloudFormation stacks, and the two listeners that     *)
(* record in the item what EventBridge says of stacks and executions.      *)
(*                                                                         *)
(* The status shown to a user is computed from the item alone.  Requests   *)
(* are guarded by the item's version, which only Update and Upgrade        *)
(* advance; listeners are guarded by its updateAt.                         *)
(*                                                                         *)
(* There are two ways to delete.  Deleting the project looks at the status *)
(* first (Permits); DELETE /pipeline/:id does not (Remove), so its         *)
(* execution may run beside another: such a deletion is abrupt.            *)
(***************************************************************************)
EXTENDS Naturals, FiniteSets

CONSTANTS
    Stack,        \* the CloudFormation stacks of the workflow
    Needs,        \* the stacks before a stack in its branch of the workflow
    AppStack,     \* stacks with a parameter that lists the applications
    App,          \* applications that may be registered
    Client,       \* slots for API requests
    Worker,       \* slots for invocations of the stack listener
    Time,         \* values of updateAt, of which only equality is tested
    Kinds,        \* kinds of requests that clients make
    MaxExec,      \* bound: executions of the state machine in a behaviour
    MaxAbrupt,    \* bound: executions of a behaviour with an abrupt deletion
    MaxRetry,     \* MAX_RETRY_COUNT of listen-tools.ts
    MaxMishaps,   \* bound: failures of a behaviour
    Serial,       \* TRUE: requests that act follow one another to their end
    Prompt,       \* TRUE: listeners keep up with stacks and executions
    Lag           \* TRUE: reads may return an older image of the item

RequestKinds == {"create", "refresh", "force", "app", "update", "upgrade",
                 "retry", "delete"}

ASSUME PipelineAssumption ==
    /\ Needs \in [Stack -> SUBSET Stack]
    /\ AppStack \subseteq Stack
    /\ Kinds \subseteq RequestKinds \cup {"remove"}
    /\ MaxExec \in Nat /\ MaxAbrupt \in Nat /\ MaxRetry \in Nat /\ MaxMishaps \in Nat
    /\ Serial \in BOOLEAN /\ Prompt \in BOOLEAN /\ Lag \in BOOLEAN

VARIABLES
    item,      \* the item PIPELINE#<id>#latest
    image,     \* what reads return
    apps,      \* applications with an item of their own
    accepted,  \* executions of the accepted updates (history)
    abrupt,    \* a deletion began where a project's would not (history)
    client,    \* API requests
    exec,      \* executions of the stack workflow state machine
    cfn,       \* status of each stack in CloudFormation
    live,      \* applications a stack was last deployed with
    msgs,      \* stack status changes still to be listened to
    worker,    \* invocations of the stack listener
    lis,       \* the state listener's work on the events of each execution
    mishaps    \* failures so far

vars == <<item, image, apps, accepted, abrupt, client, exec, cfn, live, msgs,
          worker, lis, mishaps>>
itemVars == <<item, image>>
history == <<accepted, abrupt>>
stackVars == <<cfn, live, msgs>>

Execution == 1 .. MaxExec
Event == {"start", "end"}
InProgress == {"creating", "updating", "deleting"}
Broken == {"failed", "undeleted"}              \* *_FAILED
Settled == {"complete", "rollback"}            \* UPDATE_ROLLBACK_COMPLETE
CfnStatus == {"none"} \cup InProgress \cup Broken \cup Settled
\* "unlisted": not in stackDetails; "absent": listed without a status;
\* "deleted": DELETE_COMPLETE, which only a look-up by stack id returns.
Recorded == {"unlisted", "absent", "deleted"} \cup InProgress \cup Broken \cup Settled
Plan == [Stack -> {"Create", "Update", "Delete", "Pass", "Wait", "WaitByName", "Done"}]

Item == [phase : {"none", "live", "deleted"}, at : Time, ver : Nat,
         exec : 0 .. MaxExec, status : {"RUNNING", "SUCCEEDED", "FAILED"},
         stacks : [Stack -> Recorded], action : {"Create", "Update", "Upgrade", "Delete"},
         apps : SUBSET App, edits : SUBSET Execution]

Never == CHOOSE t \in Time : TRUE

Blank == [phase |-> "none", at |-> Never, ver |-> 0, exec |-> 0, status |-> "RUNNING",
          stacks |-> [s \in Stack |-> "unlisted"], action |-> "Create",
          apps |-> {}, edits |-> {}]

Nothing == [s \in Stack |-> "Pass"]

Idle == [pc |-> "idle", kind |-> "refresh", apps |-> {}, item |-> Blank]
Free == [pc |-> "idle", stack |-> CHOOSE s \in Stack : TRUE, seen |-> "absent",
         at |-> Never, tries |-> 0, stacks |-> Blank.stacks]
Silent == [pc |-> "none", at |-> Never, action |-> "Create", tries |-> 0,
           stacks |-> Blank.stacks]

TypeOK ==
    /\ item \in Item /\ image \in Item
    /\ apps \subseteq App
    /\ accepted \subseteq Execution /\ abrupt \in BOOLEAN
    /\ client \in [Client -> [pc : {"idle", "form", "checked", "write", "register"},
                              kind : RequestKinds, apps : SUBSET App, item : Item]]
    /\ exec \in [Execution -> [status : {"none", "RUNNING", "SUCCEEDED", "FAILED"},
                               plan : Plan, apps : SUBSET App]]
    /\ cfn \in [Stack -> CfnStatus]
    /\ live \in [Stack -> SUBSET App]
    /\ msgs \in [Stack -> Nat]
    /\ worker \in [Worker -> [pc : {"idle", "described", "write"}, stack : Stack,
                              seen : Recorded, at : Time, tries : 0 .. MaxRetry,
                              stacks : [Stack -> Recorded]]]
    /\ lis \in [Execution \X Event ->
                   [pc : {"none", "queued", "status", "fetch", "stacks", "delete", "done"},
                    at : Time, action : {"Create", "Update", "Upgrade", "Delete"},
                    tries : 0 .. MaxRetry, stacks : [Stack -> Recorded]]]
    /\ mishaps \in Nat

Init ==
    /\ item = Blank /\ image = Blank
    /\ apps = {} /\ accepted = {} /\ abrupt = FALSE
    /\ client = [c \in Client |-> Idle]
    /\ exec = [x \in Execution |->
                  [status |-> "none", plan |-> Nothing, apps |-> {}]]
    /\ cfn = [s \in Stack |-> "none"]
    /\ live = [s \in Stack |-> {}]
    /\ msgs = [s \in Stack |-> 0]
    /\ worker = [w \in Worker |-> Free]
    /\ lis = [k \in Execution \X Event |-> Silent]
    /\ mishaps = 0

Mishap ==
    /\ mishaps < MaxMishaps
    /\ mishaps' = mishaps + 1

-----------------------------------------------------------------------------
(* The item and the status computed from it.                               *)

Some(stacks, S) == \E s \in Stack : stacks[s] \in S

StacksStatus(stacks) ==
    CASE Some(stacks, Broken) -> "FAILED"
      [] ~Some(stacks, Broken) /\ Some(stacks, {"rollback"}) -> "ROLLBACK_COMPLETE"
      [] ~Some(stacks, Broken \cup {"rollback"}) /\ Some(stacks, InProgress) -> "IN_PROGRESS"
      [] \A s \in Stack : stacks[s] = "deleted" -> "DELETE_COMPLETE"
      [] OTHER -> "COMPLETE"

RunningStatus(action) ==
    CASE action = "Create" -> "Creating"
      [] action = "Delete" -> "Deleting"
      [] OTHER -> "Updating"

FailedStatus(action) == IF action \in {"Update", "Upgrade"} THEN "Warning" ELSE "Failed"

\* Mutant: the status of the execution is left to its stacks.
StatusStacksOnly(i) ==
    CASE StacksStatus(i.stacks) = "IN_PROGRESS" -> RunningStatus(i.action)
      [] StacksStatus(i.stacks) \in {"FAILED", "ROLLBACK_COMPLETE"} -> FailedStatus(i.action)
      [] StacksStatus(i.stacks) = "DELETE_COMPLETE" -> "Deleted"
      [] OTHER -> "Active"

\* getPipelineStatusType; that a pipeline whose stacks differ in version shows
\* Warning is left to StackWorkflow, which has versions.
Status(i) ==
    LET stacks == StacksStatus(i.stacks) IN
    CASE i.status = "FAILED" -> FailedStatus(i.action)
      [] i.status = "RUNNING" \/ (i.status = "SUCCEEDED" /\ stacks = "IN_PROGRESS")
            -> RunningStatus(i.action)
      [] i.status = "SUCCEEDED" /\ stacks \in {"FAILED", "ROLLBACK_COMPLETE"}
            -> FailedStatus(i.action)
      [] i.status = "SUCCEEDED" /\ stacks = "DELETE_COMPLETE" -> "Deleted"
      [] OTHER -> "Active"

Busy == {"Creating", "Updating", "Deleting"}

\* Every write of the item; without Lag the next read sees it.
Store(i) ==
    /\ item' = i
    /\ image' = IF Lag THEN image ELSE i

\* Date.now(): a value that nobody holds.
Held ==
    {Never, item.at, image.at} \cup {client[c].item.at : c \in Client}
    \cup {worker[w].at : w \in Worker} \cup {lis[k].at : k \in Execution \X Event}

Stamped(i) == Store([i EXCEPT !.at = CHOOSE t \in Time \ Held : TRUE])

Propagate ==
    /\ image # item
    /\ image' = item
    /\ UNCHANGED <<item, apps, history, client, exec, stackVars, worker, lis, mishaps>>

\* getStacksDetailsByNames with names, and with the ids recorded for them.
ByName == [s \in Stack |-> IF cfn[s] = "none" THEN "absent" ELSE cfn[s]]
ById(known) ==
    [s \in Stack |->
        IF cfn[s] # "none" THEN cfn[s]
        ELSE IF known[s] \in {"absent", "unlisted"} THEN "absent" ELSE "deleted"]

-----------------------------------------------------------------------------
(* What an execution does to each stack.                                   *)

CreatePlan == [s \in Stack |-> "Create"]
DeletePlan == [s \in Stack |-> "Delete"]
UpgradePlan == [s \in Stack |-> "Update"]
\* Mutant: the parameter is set, and the stack left with its action.
AppPlanPasses == [s \in Stack |-> "Pass"]

AppPlan == [s \in Stack |-> IF s \in AppStack THEN "Update" ELSE "Pass"]

\* updateWorkflowParameters and updateWorkflowAction; with edited tags every
\* stack is updated.
UpdatePlan(stacks, edited) ==
    [s \in Stack |->
        CASE stacks[s] \in Broken -> "Update"
          [] stacks[s] \in InProgress -> "Pass"
          [] stacks[s] \in Settled \cup {"deleted"} /\ s \notin edited -> "Pass"
          [] s \in edited -> "Update"
          [] OTHER -> "Create"]

\* _getRetryStackNames: the stacks that failed or do not exist, and those
\* after them in their branch.
RetryStacks(stacks) ==
    LET failed == {s \in Stack : stacks[s] \in {"absent", "rollback"} \cup Broken}
    IN failed \cup {s \in Stack : Needs[s] \cap failed # {}}

RetryPlan(stacks) ==
    [s \in Stack |->
        CASE s \notin RetryStacks(stacks) -> "Pass"
          [] stacks[s] \in Broken \cup Settled \cup {"deleted"} -> "Update"
          [] OTHER -> "Create"]

-----------------------------------------------------------------------------
(* API requests: read the item, decide, start an execution, write it back. *)

Acting(c) == client[c].pc \in {"checked", "write", "register"}
Bounded == \E x \in Execution : x <= MaxAbrupt /\ exec[x].status = "none"
MayBegin ==
    /\ Serial => \A c \in Client : ~Acting(c)
    /\ abrupt => Bounded

\* Mutant: an upgrade does not look at the status.
PermitsUpgradeAlways(kind, i) ==
    /\ i.phase = "live"
    /\ kind \in {"app", "update"} => Status(i) \notin Busy
    /\ kind = "retry" => Status(i) \in {"Failed", "Warning"}
    /\ kind = "delete" => Status(i) \in {"Active", "Failed", "Warning"}

\* "delete" is the deletion of the project, which looks at the status.
Permits(kind, i) ==
    /\ i.phase = "live"
    /\ kind \in {"app", "update"} => Status(i) \notin Busy
    /\ kind = "upgrade" => Status(i) = "Active"
    /\ kind = "retry" => Status(i) \in {"Failed", "Warning"}
    /\ kind = "delete" => Status(i) \in {"Active", "Failed", "Warning"}

\* Registering or removing one application.
OneAppChanged == {S \in SUBSET App : Cardinality((S \ apps) \cup (apps \ S)) = 1}

\* What matters of an item that was read: a request that starts an execution
\* replaces executionDetail, and all but a retry replace updateAt.
Kept(kind) ==
    IF kind \in {"refresh", "force"} THEN image
    ELSE [image EXCEPT !.exec = 0, !.status = "RUNNING",
                       !.at = IF kind = "retry" THEN @ ELSE Never]

\* The request reads the pipeline; refreshStatus writes back what it read.
Begin(c, kind) ==
    /\ client[c].pc = "idle"
    /\ MayBegin
    /\ \E S \in IF kind = "app" THEN OneAppChanged ELSE {apps} :
          client' = [client EXCEPT ![c] =
              [pc |-> IF kind = "refresh" THEN "write" ELSE "checked",
               kind |-> kind, apps |-> S, item |-> Kept(kind)]]
    /\ UNCHANGED <<itemVars, apps, accepted, exec, stackVars, worker, lis, mishaps>>

Read(c, kind) ==
    /\ kind \in Kinds \ {"create", "update", "remove"}
    /\ Permits(kind, image)
    /\ Begin(c, kind)
    /\ UNCHANGED abrupt

\* DELETE /pipeline/:id deletes whatever the status is, beside an execution
\* that runs too.
Remove(c) ==
    /\ "remove" \in Kinds
    /\ image.phase = "live"
    /\ Permits("delete", image) \/ Bounded
    /\ Begin(c, "delete")
    /\ abrupt' = (abrupt \/ ~Permits("delete", image))

\* The console loads the pipeline into the form that a user edits.
LoadForm(c) ==
    /\ client[c].pc = "idle"
    /\ "update" \in Kinds
    /\ image.phase = "live"
    /\ client' = [client EXCEPT ![c] =
                     [pc |-> "form", kind |-> "update", apps |-> {}, item |-> Kept("update")]]
    /\ UNCHANGED <<itemVars, apps, history, exec, stackVars, worker, lis, mishaps>>

\* PUT: parameters that differ between the pipeline now and one generated
\* now are edited; the others stay as the form has them.
SubmitForm(c) ==
    /\ client[c].pc = "form"
    /\ MayBegin
    /\ Permits("update", image)
    /\ client' = [client EXCEPT ![c] =
           [pc |-> "checked", kind |-> "update", item |-> @.item,
            apps |-> IF image.apps # apps THEN apps ELSE @.item.apps]]
    /\ UNCHANGED <<itemVars, apps, history, exec, stackVars, worker, lis, mishaps>>

\* refresh=force: describe the recorded execution and every stack.
Observe(c) ==
    /\ client[c].pc = "checked" /\ client[c].kind = "force"
    /\ LET old == client[c].item IN
       client' = [client EXCEPT ![c] = [pc |-> "write", kind |-> "force", apps |-> @.apps,
           item |-> [old EXCEPT !.status = IF old.exec = 0 THEN "SUCCEEDED"
                                           ELSE exec[old.exec].status,
                                !.stacks = ById(old.stacks)]]]
    /\ UNCHANGED <<itemVars, apps, history, exec, stackVars, worker, lis, mishaps>>

\* startExecution, after which the request writes record i.
Launch(c, x, plan, kind, S, i) ==
    /\ exec[x].status = "none"
    /\ \A y \in Execution : y < x => exec[y].status # "none"
    /\ exec' = [exec EXCEPT ![x] = [status |-> "RUNNING", plan |-> plan, apps |-> i.apps]]
    /\ lis' = [lis EXCEPT ![<<x, "start">>].pc = "queued"]
    /\ client' = [client EXCEPT ![c] =
                     [pc |-> "write", kind |-> kind, apps |-> S,
                      item |-> [i EXCEPT !.exec = x, !.status = "RUNNING"]]]
    /\ UNCHANGED <<itemVars, apps, history, stackVars, worker, mishaps>>

Checked(c, kind) == client[c].pc = "checked" /\ client[c].kind = kind

\* The item is first written only after the execution has started.  Another
\* creation makes another pipeline, with stacks of its own.
Create(c, x) ==
    /\ client[c].pc = "idle" /\ "create" \in Kinds
    /\ x = 1
    /\ Launch(c, x, CreatePlan, "create", apps, [Blank EXCEPT !.phase = "live", !.apps = apps])

UpdateApp(c, x) ==
    /\ Checked(c, "app")
    /\ Launch(c, x, AppPlan, "app", client[c].apps,
              [client[c].item EXCEPT !.action = "Update", !.apps = client[c].apps])

Update(c, x) ==
    /\ Checked(c, "update")
    /\ LET form == client[c].item IN
       \E plan \in {UpdatePlan(form.stacks, S) : S \in SUBSET Stack} \cup {UpgradePlan} :
          /\ client[c].apps # form.apps => \A s \in AppStack : plan[s] = "Update"
          /\ Launch(c, x, plan, "update", apps,
                    [form EXCEPT !.action = "Update", !.apps = client[c].apps,
                                 !.edits = @ \cup {x}])

Upgrade(c, x) ==
    /\ Checked(c, "upgrade")
    /\ Launch(c, x, UpgradePlan, "upgrade", apps,
              [client[c].item EXCEPT !.action = "Upgrade", !.apps = apps,
                                     !.edits = @ \cup {x}])

\* A retried deletion is a deletion.
Delete(c, x) ==
    /\ \/ Checked(c, "delete")
       \/ Checked(c, "retry") /\ client[c].item.action = "Delete"
    /\ Launch(c, x, DeletePlan, "delete", apps,
              [client[c].item EXCEPT !.action = "Delete", !.stacks = ByName])

Retry(c, x) ==
    /\ Checked(c, "retry") /\ client[c].item.action # "Delete"
    /\ Launch(c, x, RetryPlan(client[c].item.stacks), "retry", apps, client[c].item)

\* Mutant: updatePipelineAtCurrentVersion without its condition.
AnyVersion(c) == item.phase # "none"

\* The condition of updatePipeline and updatePipelineAtCurrentVersion.  The
\* backup that updatePipeline puts exists only for versions before item.ver.
SameVersion(c) == item.phase # "none" /\ item.ver = client[c].item.ver

\* Only updateApp and delete set updateAt; refreshes and retries write back
\* the one they read.
Write(c) ==
    LET kind == client[c].kind
        new == [client[c].item EXCEPT !.phase = item.phase]
    IN
    /\ client[c].pc = "write" /\ kind # "create"
    /\ SameVersion(c)
    /\ client' = [client EXCEPT ![c] =
                     IF kind = "app"
                     THEN [pc |-> "register", kind |-> "app", apps |-> @.apps, item |-> Blank]
                     ELSE Idle]
    /\ CASE kind \in {"refresh", "force", "retry"} -> Store(new)
         [] kind \in {"app", "delete"} -> Stamped(new)
         [] kind \in {"update", "upgrade"} -> Stamped([new EXCEPT !.ver = @ + 1])
    /\ accepted' = IF kind \in {"update", "upgrade"} THEN accepted \cup {new.exec} ELSE accepted
    /\ UNCHANGED <<apps, abrupt, exec, stackVars, worker, lis, mishaps>>

\* addPipeline
Add(c) ==
    /\ client[c].pc = "write" /\ client[c].kind = "create"
    /\ item.phase = "none"
    /\ Stamped(client[c].item)
    /\ client' = [client EXCEPT ![c] = Idle]
    /\ UNCHANGED <<apps, history, exec, stackVars, worker, lis, mishaps>>

\* The conditional write fails: the request ends in an error, and what it
\* started goes on.
Refused(c) ==
    /\ client[c].pc = "write"
    /\ IF client[c].kind = "create" THEN item.phase # "none" ELSE ~SameVersion(c)
    /\ client' = [client EXCEPT ![c] = Idle]
    /\ UNCHANGED <<itemVars, apps, history, exec, stackVars, worker, lis, mishaps>>

\* addApplication or deleteApplication, after updateApp.
Register(c) ==
    /\ client[c].pc = "register"
    /\ apps' = client[c].apps
    /\ client' = [client EXCEPT ![c] = Idle]
    /\ UNCHANGED <<itemVars, history, exec, stackVars, worker, lis, mishaps>>

\* The API's Lambda function ends in the middle of a request.
Die(c) ==
    /\ ~Serial
    /\ Mishap
    /\ Acting(c)
    /\ client' = [client EXCEPT ![c] = Idle]
    /\ UNCHANGED <<itemVars, apps, history, exec, stackVars, worker, lis>>

-----------------------------------------------------------------------------
(* Executions and CloudFormation.                                          *)

\* Listeners answer within seconds, a stack operation takes minutes and is
\* polled every 30 seconds.
KeptUp(S) ==
    Prompt => /\ \A s \in S : msgs[s] = 0
              /\ \A w \in Worker : worker[w].pc # "idle" => worker[w].stack \notin S
              /\ \A k \in Execution \X Event : lis[k].pc \in {"none", "done"}
              /\ \A c \in Client : client[c].pc # "write"

Running(x) == exec[x].status = "RUNNING"

\* The stacks that go before s: those it needs, or when deleting those that
\* need it.
Before(x, s) ==
    IF exec[x].plan[s] = "Delete" THEN {t \in Stack : s \in Needs[t]} ELSE Needs[s]

Due(x, s, action) ==
    /\ Running(x)
    /\ exec[x].plan[s] = action
    /\ \A t \in Before(x, s) : exec[x].plan[t] \in {"Pass", "Done"}

Goes(x, s, next) == exec' = [exec EXCEPT ![x].plan[s] = next]

StackEvent(s, status) ==
    /\ cfn' = [cfn EXCEPT ![s] = status]
    /\ msgs' = [msgs EXCEPT ![s] = @ + 1]

Ends(x, status) ==
    /\ exec' = [exec EXCEPT ![x] = [status |-> status, plan |-> Nothing, apps |-> {}]]
    /\ lis' = [lis EXCEPT ![<<x, "end">>].pc = "queued"]

CreateStack(x, s) ==
    /\ Due(x, s, "Create")
    /\ \/ /\ cfn[s] = "none"
          /\ StackEvent(s, "creating")
          /\ live' = [live EXCEPT ![s] = exec[x].apps]
          /\ Goes(x, s, "Wait")
       \/ /\ cfn[s] # "none"             \* AlreadyExistsException
          /\ Goes(x, s, "WaitByName")
          /\ UNCHANGED stackVars
    /\ UNCHANGED <<itemVars, apps, history, client, worker, lis, mishaps>>

UpdateStack(x, s) ==
    /\ Due(x, s, "Update")
    /\ \/ /\ cfn[s] \in Settled \cup {"failed"}
          /\ StackEvent(s, "updating")
          /\ live' = [live EXCEPT ![s] = exec[x].apps]
          /\ Goes(x, s, "Wait")
       \/ /\ \/ cfn[s] \in InProgress \cup {"undeleted"}     \* "can not be updated"
             \/ cfn[s] \in Settled /\ (s \in AppStack => live[s] = exec[x].apps)
          /\ Goes(x, s, "WaitByName")
          /\ UNCHANGED stackVars
    /\ UNCHANGED <<itemVars, apps, history, client, worker, lis, mishaps>>

DeleteStack(x, s) ==
    /\ Due(x, s, "Delete")
    /\ \/ /\ cfn[s] = "none"
          /\ Goes(x, s, "Done")
          /\ UNCHANGED stackVars
       \/ /\ cfn[s] = "deleting"
          /\ Goes(x, s, "Wait")
          /\ UNCHANGED stackVars
       \/ /\ cfn[s] \notin {"none", "deleting"}
          /\ StackEvent(s, "deleting")
          /\ Goes(x, s, "Wait")
          /\ UNCHANGED live
    /\ UNCHANGED <<itemVars, apps, history, client, worker, lis, mishaps>>

\* Describe Stack, then Callback.  DELETE_COMPLETE is seen by stack id only.
DescribeStack(x, s) ==
    /\ Running(x)
    /\ KeptUp({s})
    /\ \/ exec[x].plan[s] = "Wait" /\ cfn[s] \in {"none"} \cup Settled
       \/ exec[x].plan[s] = "WaitByName" /\ cfn[s] \in Settled
    /\ Goes(x, s, "Done")
    /\ UNCHANGED <<itemVars, apps, history, client, stackVars, worker, lis, mishaps>>

\* Mutant: a stack that failed is polled for ever.
ActionFailsMissing(x, s) ==
    /\ \/ Due(x, s, "Update") /\ cfn[s] = "none"
       \/ Running(x) /\ exec[x].plan[s] = "WaitByName" /\ cfn[s] = "none"
    /\ KeptUp(Stack)
    /\ Ends(x, "FAILED")
    /\ UNCHANGED <<itemVars, apps, history, client, stackVars, worker, mishaps>>

\* An update of a missing stack, a stack that failed or cannot be described.
ActionFails(x, s) ==
    /\ \/ Due(x, s, "Update") /\ cfn[s] = "none"
       \/ /\ Running(x)
          /\ \/ exec[x].plan[s] = "Wait" /\ cfn[s] \in Broken
             \/ exec[x].plan[s] = "WaitByName" /\ cfn[s] \in {"none"} \cup Broken
    /\ KeptUp(Stack)
    /\ Ends(x, "FAILED")
    /\ UNCHANGED <<itemVars, apps, history, client, stackVars, worker, mishaps>>

\* FAILED for another reason, TIMED_OUT or ABORTED.
ExecutionBreaks(x) ==
    /\ Mishap
    /\ Running(x)
    /\ KeptUp(Stack)
    /\ Ends(x, "FAILED")
    /\ UNCHANGED <<itemVars, apps, history, client, stackVars, worker>>

ExecutionSucceeds(x) ==
    /\ Running(x)
    /\ \A s \in Stack : exec[x].plan[s] \in {"Pass", "Done"}
    /\ KeptUp(Stack)
    /\ Ends(x, "SUCCEEDED")
    /\ UNCHANGED <<itemVars, apps, history, client, stackVars, worker, mishaps>>

StackDone(s) ==
    /\ KeptUp({s})
    /\ \/ cfn[s] \in {"creating", "updating"} /\ StackEvent(s, "complete")
       \/ cfn[s] = "deleting" /\ StackEvent(s, "none")
    /\ UNCHANGED <<itemVars, apps, history, client, exec, live, worker, lis, mishaps>>

StackFails(s) ==
    /\ Mishap
    /\ KeptUp({s})
    /\ \/ cfn[s] \in {"creating", "updating"} /\ StackEvent(s, "failed")
       \/ cfn[s] = "updating" /\ StackEvent(s, "rollback")
       \/ cfn[s] = "deleting" /\ StackEvent(s, "undeleted")
    /\ UNCHANGED <<itemVars, apps, history, client, exec, live, worker, lis>>

-----------------------------------------------------------------------------
(* The listener of stack status changes.                                   *)

\* getNewStackDetails
Merged(stacks, s, seen) ==
    [t \in Stack |-> IF t = s THEN seen
                     ELSE IF stacks[t] = "unlisted" THEN "absent" ELSE stacks[t]]

\* describeStack, by the id in the event.  The slots are alike: any one that
\* is free will do.
Describe(w, s) ==
    /\ worker[w].pc = "idle"
    /\ w = CHOOSE v \in Worker : worker[v].pc = "idle"
    /\ msgs[s] > 0
    /\ msgs' = [msgs EXCEPT ![s] = @ - 1]
    /\ worker' = [worker EXCEPT ![w].pc = "described", ![w].stack = s,
                     ![w].seen = IF cfn[s] = "none" THEN "deleted" ELSE cfn[s]]
    /\ UNCHANGED <<itemVars, apps, history, client, exec, cfn, live, lis, mishaps>>

Found(w, tries) ==
    worker' = [worker EXCEPT ![w].pc = "write", ![w].at = image.at, ![w].tries = tries,
                  ![w].stacks = Merged(image.stacks, worker[w].stack, worker[w].seen)]

\* The deliveries of a message are few (maxReceiveCount, retryAttempts): the
\* last may come before the item is written, unless listeners and requests
\* keep their pace.
GivesUp == Prompt => \A c \in Client : client[c].pc # "write"

\* getPipeline; without an item the message returns to the queue, and is
\* dropped at last.
Match(w) ==
    /\ worker[w].pc = "described"
    /\ \/ /\ image.phase = "live"
          /\ Found(w, 0)
          /\ UNCHANGED msgs
       \/ /\ image.phase = "none"
          /\ worker' = [worker EXCEPT ![w] = Free]
          /\ \/ msgs' = [msgs EXCEPT ![worker[w].stack] = @ + 1]
             \/ GivesUp /\ UNCHANGED msgs
       \/ /\ image.phase = "deleted"
          /\ worker' = [worker EXCEPT ![w] = Free]
          /\ UNCHANGED msgs
    /\ UNCHANGED <<itemVars, apps, history, client, exec, cfn, live, lis, mishaps>>

RecordStack(w) ==
    /\ worker[w].pc = "write"
    /\ item.at = worker[w].at
    /\ Stamped([item EXCEPT !.stacks = worker[w].stacks])
    /\ worker' = [worker EXCEPT ![w] = Free]
    /\ UNCHANGED <<apps, history, client, exec, stackVars, lis, mishaps>>

\* Mutant: retryCount is not compared with MAX_RETRY_COUNT.
RecordStackForever(w) ==
    /\ worker[w].pc = "write"
    /\ item.at # worker[w].at
    /\ IF image.phase = "live" THEN Found(w, worker[w].tries + 1)
       ELSE worker' = [worker EXCEPT ![w] = Free]
    /\ UNCHANGED <<itemVars, apps, history, client, exec, stackVars, lis, mishaps>>

\* The condition fails: read the pipeline again, but not the stack.
RecordStackAgain(w) ==
    /\ worker[w].pc = "write"
    /\ item.at # worker[w].at
    /\ IF worker[w].tries < MaxRetry /\ image.phase = "live"
       THEN Found(w, worker[w].tries + 1)
       ELSE worker' = [worker EXCEPT ![w] = Free]
    /\ UNCHANGED <<itemVars, apps, history, client, exec, stackVars, lis, mishaps>>

-----------------------------------------------------------------------------
(* The listener of execution status changes.                               *)

Hears(k, pc) == lis[k].pc = pc
EventStatus(k) == IF k[2] = "start" THEN "RUNNING" ELSE exec[k[1]].status

\* getPipeline fails, and the event is delivered again, before there is an item.
Receive(k) ==
    /\ Hears(k, "queued")
    /\ image.phase # "none"
    /\ lis' = [lis EXCEPT ![k] =
                  IF image.phase = "live"
                  THEN [Silent EXCEPT !.pc = "status", !.at = image.at, !.action = image.action]
                  ELSE [Silent EXCEPT !.pc = "done"]]
    /\ UNCHANGED <<itemVars, apps, history, client, exec, stackVars, worker, mishaps>>

Done == [Silent EXCEPT !.pc = "done"]

\* The last delivery of the event finds no item either.
Drop(k) ==
    /\ Hears(k, "queued")
    /\ image.phase = "none"
    /\ GivesUp
    /\ lis' = [lis EXCEPT ![k] = Done]
    /\ UNCHANGED <<itemVars, apps, history, client, exec, stackVars, worker, mishaps>>

\* Mutant: the listener leaves stacks to the listener of stacks.
AfterStatusOnly(k) == IF EventStatus(k) = "SUCCEEDED" /\ lis[k].action = "Delete"
                      THEN [Silent EXCEPT !.pc = "delete"] ELSE Done

AfterStatus(k) == IF k[2] = "start" THEN Done ELSE [lis[k] EXCEPT !.pc = "fetch", !.tries = 0]

RecordStatus(k) ==
    /\ Hears(k, "status")
    /\ item.at = lis[k].at
    /\ Stamped([item EXCEPT !.exec = k[1], !.status = EventStatus(k)])
    /\ lis' = [lis EXCEPT ![k] = AfterStatus(k)]
    /\ UNCHANGED <<apps, history, client, exec, stackVars, worker, mishaps>>

RecordStatusAgain(k) ==
    /\ Hears(k, "status")
    /\ item.at # lis[k].at
    /\ lis' = [lis EXCEPT ![k] =
                  IF image.phase # "live" THEN Done
                  ELSE IF @.tries < MaxRetry
                  THEN [@ EXCEPT !.at = image.at, !.tries = lis[k].tries + 1]
                  ELSE AfterStatus(k)]
    /\ UNCHANGED <<itemVars, apps, history, client, exec, stackVars, worker, mishaps>>

\* fetchAllStackDetails; the first write still uses the updateAt read first.
Fetch(k) ==
    /\ Hears(k, "fetch")
    /\ lis' = [lis EXCEPT ![k].pc = "stacks", ![k].stacks = ByName]
    /\ UNCHANGED <<itemVars, apps, history, client, exec, stackVars, worker, mishaps>>

\* Mutant: the project goes with a deletion that failed.
AfterStacksAnyOutcome(k) ==
    IF lis[k].action = "Delete" THEN [Silent EXCEPT !.pc = "delete"] ELSE Done

AfterStacks(k) ==
    IF EventStatus(k) = "SUCCEEDED" /\ lis[k].action = "Delete"
    THEN [Silent EXCEPT !.pc = "delete"] ELSE Done

RecordStacks(k) ==
    /\ Hears(k, "stacks")
    /\ item.at = lis[k].at
    /\ Stamped([item EXCEPT !.stacks = lis[k].stacks])
    /\ lis' = [lis EXCEPT ![k] = AfterStacks(k)]
    /\ UNCHANGED <<apps, history, client, exec, stackVars, worker, mishaps>>

RecordStacksAgain(k) ==
    /\ Hears(k, "stacks")
    /\ item.at # lis[k].at
    /\ lis' = [lis EXCEPT ![k] =
                  IF image.phase # "live" THEN Done
                  ELSE IF @.tries < MaxRetry
                  THEN [@ EXCEPT !.at = image.at, !.tries = lis[k].tries + 1, !.stacks = ByName]
                  ELSE AfterStacks(k)]
    /\ UNCHANGED <<itemVars, apps, history, client, exec, stackVars, worker, mishaps>>

DeleteProject(k) ==
    /\ Hears(k, "delete")
    /\ Store([item EXCEPT !.phase = "deleted"])
    /\ lis' = [lis EXCEPT ![k] = Done]
    /\ UNCHANGED <<apps, history, client, exec, stackVars, worker, mishaps>>

\* EventBridge delivers an event once more.
Redeliver(k) ==
    /\ ~Prompt
    /\ Mishap
    /\ Hears(k, "done")
    /\ lis' = [lis EXCEPT ![k].pc = "queued"]
    /\ UNCHANGED <<itemVars, apps, history, client, exec, stackVars, worker>>

-----------------------------------------------------------------------------
Request(c) ==
    \/ \E kind \in RequestKinds : Read(c, kind)
    \/ Remove(c) \/ LoadForm(c) \/ SubmitForm(c) \/ Observe(c)
    \/ \E x \in Execution :
          \/ Create(c, x) \/ UpdateApp(c, x) \/ Update(c, x) \/ Upgrade(c, x)
          \/ Delete(c, x) \/ Retry(c, x)
    \/ Write(c) \/ Add(c) \/ Refused(c) \/ Register(c) \/ Die(c)

Act(x, s) ==
    \/ CreateStack(x, s) \/ UpdateStack(x, s) \/ DeleteStack(x, s)
    \/ DescribeStack(x, s) \/ ActionFails(x, s)

StackListener(w) ==
    \/ \E s \in Stack : Describe(w, s)
    \/ Match(w) \/ RecordStack(w) \/ RecordStackAgain(w)

StateListener(k) ==
    \/ Receive(k) \/ Drop(k) \/ RecordStatus(k) \/ RecordStatusAgain(k)
    \/ Fetch(k) \/ RecordStacks(k) \/ RecordStacksAgain(k) \/ DeleteProject(k)

Next ==
    \/ \E c \in Client : Request(c)
    \/ \E x \in Execution, s \in Stack : Act(x, s)
    \/ \E x \in Execution : ExecutionSucceeds(x) \/ ExecutionBreaks(x)
    \/ \E s \in Stack : StackDone(s) \/ StackFails(s)
    \/ \E w \in Worker : StackListener(w)
    \/ \E k \in Execution \X Event : StateListener(k) \/ Redeliver(k)
    \/ Propagate

Spec == Init /\ [][Next]_vars

\* What goes on without a new request and without a failure.
Service ==
    \/ \E k \in Execution \X Event : StateListener(k)
    \/ \E w \in Worker : StackListener(w)
    \/ \E c \in Client :
          \/ Observe(c) \/ Write(c) \/ Add(c) \/ Refused(c) \/ Register(c)
          \/ \E x \in Execution : UpdateApp(c, x) \/ Update(c, x) \/ Upgrade(c, x)
                                  \/ Delete(c, x) \/ Retry(c, x)
    \/ \E s \in Stack : StackDone(s)
    \/ \E x \in Execution : ExecutionSucceeds(x) \/ \E s \in Stack : Act(x, s)
    \/ Propagate

\* Lambda runs what it was handed and a request that was read to its end, Step
\* Functions goes on with executions, CloudFormation ends every operation on a
\* stack, and a read sees a write at last.
Fairness == WF_vars(Service)

LiveSpec == Spec /\ Fairness

-----------------------------------------------------------------------------
(* Properties.                                                             *)

\* Nothing is under way: no request, execution, stack operation or event.
Quiet ==
    /\ image = item
    /\ \A c \in Client : client[c].pc \in {"idle", "form"}
    /\ \A x \in Execution : ~Running(x)
    /\ \A s \in Stack : cfn[s] \notin InProgress /\ msgs[s] = 0
    /\ \A w \in Worker : worker[w].pc = "idle"
    /\ \A k \in Execution \X Event : lis[k].pc \in {"none", "done"}

\* When everything is at rest the item agrees with the last execution and
\* with CloudFormation: no write of a listener or of a request was lost or
\* undone by an older one (the updateAt and version conditions).  After an
\* abrupt deletion the execution that ends last is the one that is told.
SettledStatus ==
    Quiet /\ item.phase = "live" /\ ~abrupt =>
        /\ item.exec > 0 => item.status = exec[item.exec].status
        /\ \A x \in Execution : x > item.exec => exec[x].status = "none"
        /\ \A s \in Stack : item.stacks[s] = cfn[s] \/ item.stacks[s] = ById(item.stacks)[s]

\* An update that was accepted stays in the item: whatever older record a
\* refresh, an application's registration or another update writes back, the
\* version condition refuses it.
NoEditLost == item.edits = accepted

\* The statuses that requests check let at most one execution run, as long as
\* no deletion began through DELETE /pipeline/:id at a status at which the
\* project's would be refused.
OneExecution == ~abrupt => \A x, y \in Execution : Running(x) /\ Running(y) => x = y

\* A pipeline that shows Active, and that no request is about to change, runs
\* with exactly the registered applications: every stack with the parameter
\* was deployed with them.
ReadyForApps ==
    /\ item.phase = "live" /\ Status(item) = "Active"
    /\ \A c \in Client : ~Acting(c)
    => \A s \in AppStack : cfn[s] = "complete" /\ live[s] = apps

\* The same with applications registered and removed, for requests that follow
\* one another, as long as nothing fails: a retry of an execution that broke
\* turns Active without what it passed over.  A deletion shows Active for a
\* moment, between the record that no stack is left and its own end; and an
\* abrupt one hides behind the success of the execution it runs beside.
AppsDeployed == mishaps = 0 /\ ~abrupt /\ item.action # "Delete" => ReadyForApps

\* "Once the pipeline status returns to Active, it is ready to receive data
\* from your application" (docs/en/pipeline-mgmt/app-registration.md).
AppsServed ==
    Quiet /\ item.phase = "live" /\ Status(item) = "Active" =>
        \A s \in AppStack : apps \subseteq live[s]

\* A pipeline is marked deleted only when none of its stacks is left, unless a
\* deletion was abrupt: then a creation beside it may make a stack that it
\* had passed over as missing.
DeletedOnlyWhenGone ==
    item.phase = "deleted" /\ ~abrupt => \A s \in Stack : cfn[s] = "none"

\* Creating, Updating and Deleting do not last: every change that was started
\* ends in the item with an outcome a user can act on, or with the project
\* deleted, abrupt deletions included.
Settles ==
    item.phase = "live" /\ Status(item) \in Busy
        ~> item.phase = "deleted" \/ Status(item) \notin Busy
=============================================================================
