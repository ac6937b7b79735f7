----------------------------- MODULE AppSchemas -----------------------------
(***************************************************************************)
(* The schemas of the applications in Redshift.  A custom resource of the  *)
(* data-modeling stack creates the database, and on every create, update   *)
(* and rollback starts an execution of the SQL state machine for each      *)
(* application that is new, or for all of them when the SQL has changed.   *)
(* It does not wait for them.  An execution runs the statements one after  *)
(* the other; the API shows the latest execution of an application, which  *)
(* an operator may start again when it failed.                             *)
(***************************************************************************)
EXTENDS Integers, FiniteSets, Sequences

CONSTANTS
    Schema,      \* application ids, each the name of a schema
    Statements,  \* the number of statements for an application
    Replacing,   \* those that replace what they create; others keep what is there
    Hashes,      \* bound: versions of the SQL, schemaHash
    Beside,      \* bound: executions of an application that run when one begins
    MaxRequests, \* bound: operations on the stack
    MaxReruns,   \* bound: executions that operators start or redrive
    MaxFailed    \* bound: calls and statements that fail

ASSUME AppSchemasAssumption ==
    /\ IsFiniteSet(Schema)
    /\ Statements \in Nat \ {0} /\ Replacing \subseteq 1..Statements
    /\ Hashes \in Nat \ {0}
    /\ Beside \in Nat /\ MaxRequests \in Nat /\ MaxReruns \in Nat /\ MaxFailed \in Nat

VARIABLES
    stack,      \* properties of the resource when the stack was last complete
    request,    \* the request that the resource handles
    database,   \* the database exists
    runs,       \* the executions of each application, in the order of their start
    objects,    \* version of what each statement creates, 0 when there is nothing
    overlapped, \* applications of which two executions ran at a time (history)
    requests, reruns, failed

schemaVars == <<stack, request, database, runs, objects, overlapped, requests,
                reruns, failed>>

Hash == 1..Hashes
Props == [apps : SUBSET Schema, hash : 0..Hashes]
NoStack == [apps |-> {}, hash |-> 0]
Exists == stack.hash # 0

NoRequest == [kind |-> "none", from |-> NoStack, to |-> NoStack, todo |-> {},
              ready |-> FALSE]

Handling == request.kind # "none"

RunRecord == [hash : Hash, at : 1..Statements,
              status : {"RUNNING", "SUCCEEDED", "FAILED", "TIMED_OUT"},
              sql : {"none", "STARTED", "FINISHED", "EXISTS", "FAILED", "ABORTED"}]

SchemaTypeOK ==
    /\ stack \in Props
    /\ request \in [kind : {"none", "create", "update", "rollback"}, from : Props,
                    to : Props, todo : SUBSET Schema, ready : BOOLEAN]
    /\ database \in BOOLEAN
    /\ runs \in [Schema -> Seq(RunRecord)]
    /\ objects \in [Schema -> [1..Statements -> 0..Hashes]]
    /\ overlapped \subseteq Schema
    /\ requests \in 0..MaxRequests /\ reruns \in 0..MaxReruns
    /\ failed \in 0..MaxFailed

SchemaInit ==
    /\ stack = NoStack /\ request = NoRequest /\ database = FALSE
    /\ runs = [a \in Schema |-> <<>>]
    /\ objects = [a \in Schema |-> [s \in 1..Statements |-> 0]]
    /\ overlapped = {} /\ requests = 0 /\ reruns = 0 /\ failed = 0

CallOrStatementFails ==
    /\ failed < MaxFailed
    /\ failed' = failed + 1

-----------------------------------------------------------------------------
(* The custom resource.                                                    *)

\* Mutant: applications that have a schema are left as they are.
NewAppsOnly(kind, from, to) == to.apps \ from.apps

\* getNewAddedAppIdList: all applications when the SQL is another one.
NewAddedAppIds(kind, from, to) ==
    IF kind = "create" \/ from.hash # to.hash THEN to.apps ELSE to.apps \ from.apps

\* Updates, of which a rollback is one, find the database.
Request(kind, from, to) ==
    [kind |-> kind, from |-> from, to |-> to, todo |-> NewAddedAppIds(kind, from, to),
     ready |-> kind # "create"]

\* A statement that was started goes on when its execution has timed out.
Busy(r) == r.status = "RUNNING" \/ r.sql = "STARTED"

StackRequest(r) ==
    /\ ~Handling /\ requests < MaxRequests
    /\ \A a \in Schema :
          Cardinality({i \in DOMAIN runs[a] : Busy(runs[a][i])}) <= Beside
    /\ request' = r
    /\ requests' = requests + 1
    /\ UNCHANGED <<stack, database, runs, objects, overlapped, reruns, failed>>

CreateStack(apps, hash) ==
    /\ ~Exists
    /\ StackRequest(Request("create", NoStack, [apps |-> apps, hash |-> hash]))

UpdateStack(apps, hash) ==
    LET to == [apps |-> apps, hash |-> hash]
    IN /\ Exists /\ to # stack /\ hash >= stack.hash
       /\ StackRequest(Request("update", stack, to))

\* The database and its schemas stay.
DeleteStack ==
    /\ ~Handling /\ Exists /\ requests < MaxRequests
    /\ stack' = NoStack
    /\ requests' = requests + 1
    /\ UNCHANGED <<request, database, runs, objects, overlapped, reruns, failed>>

\* The database, and the user that reads it.
CreateDatabase ==
    /\ Handling /\ ~request.ready /\ ~database
    /\ database' = TRUE
    /\ request' = [request EXCEPT !.ready = TRUE]
    /\ UNCHANGED <<stack, runs, objects, overlapped, requests, reruns, failed>>

RunOf(hash) == [hash |-> hash, at |-> 1, status |-> "RUNNING", sql |-> "none"]

\* The application gets another execution, beside those that still run.
NoteOverlap(a) ==
    overlapped' = overlapped \cup {b \in {a} : \E i \in DOMAIN runs[a] : Busy(runs[a][i])}

StartExecution(a, hash) ==
    /\ runs' = [runs EXCEPT ![a] = Append(@, RunOf(hash))]
    /\ NoteOverlap(a)

CreateSchemaOf(a) ==
    /\ request.ready /\ a \in request.todo
    /\ StartExecution(a, request.to.hash)
    /\ request' = [request EXCEPT !.todo = @ \ {a}]
    /\ UNCHANGED <<stack, database, objects, requests, reruns, failed>>

StackCompletes ==
    /\ request.ready /\ request.todo = {}
    /\ stack' = request.to
    /\ request' = NoRequest
    /\ UNCHANGED <<database, runs, objects, overlapped, requests, reruns, failed>>

\* A call, or another resource of the stack, fails.  A new stack is deleted; an
\* update is rolled back, and so is a rollback until it succeeds.
StackOperationFails ==
    /\ Handling
    /\ \/ CallOrStatementFails
       \/ ~request.ready /\ database /\ UNCHANGED failed  \* CREATE DATABASE fails
    /\ request' = CASE request.kind = "create" -> NoRequest
                    [] request.kind = "update" ->
                           Request("rollback", request.to, request.from)
                    [] OTHER -> Request("rollback", request.from, request.to)
    /\ UNCHANGED <<stack, database, runs, objects, overlapped, requests, reruns>>

-----------------------------------------------------------------------------
(* The state machine, and Redshift.                                        *)

Becomes(a, i, r) ==
    /\ runs' = [runs EXCEPT ![a] = [@ EXCEPT ![i] = r]]
    /\ UNCHANGED <<stack, request, database, overlapped, requests, reruns>>

SubmitSql(a, i) ==
    LET r == runs[a][i]
    IN /\ r.status = "RUNNING" /\ r.sql = "none"
       /\ \/ /\ Becomes(a, i, [r EXCEPT !.sql = "STARTED"])
             /\ UNCHANGED failed
          \/ /\ CallOrStatementFails
             /\ Becomes(a, i, [r EXCEPT !.status = "FAILED"])
    /\ UNCHANGED objects

\* The statement creates or replaces; what is there already is kept.
StatementEnds(a, i) ==
    LET r == runs[a][i]
        creates == r.at \in Replacing \/ objects[a][r.at] = 0
    IN /\ r.sql = "STARTED"
       /\ IF creates
          THEN objects' = [objects EXCEPT ![a] = [@ EXCEPT ![r.at] = r.hash]]
          ELSE UNCHANGED objects
       /\ Becomes(a, i, [r EXCEPT !.sql = IF creates THEN "FINISHED" ELSE "EXISTS"])
    /\ UNCHANGED failed

StatementFails(a, i) ==
    /\ CallOrStatementFails
    /\ runs[a][i].sql = "STARTED"
    /\ \E end \in {"FAILED", "ABORTED"} : Becomes(a, i, [runs[a][i] EXCEPT !.sql = end])
    /\ UNCHANGED objects

\* Mutant: there is a statement after the last.
NextStatementTooFar(r) ==
    IF r.at > Statements
    THEN [r EXCEPT !.status = "SUCCEEDED"]
    ELSE [r EXCEPT !.at = @ + 1, !.sql = "none"]

\* The next statement, or the end.
NextStatement(r) ==
    IF r.at = Statements
    THEN [r EXCEPT !.status = "SUCCEEDED"]
    ELSE [r EXCEPT !.at = @ + 1, !.sql = "none"]

\* Mutant: a statement that failed is taken for one whose object exists.
CheckStatusAnyFailure(a, i) ==
    LET r == runs[a][i]
    IN /\ r.status = "RUNNING"
       /\ r.sql \in {"FINISHED", "EXISTS", "FAILED"}
       /\ Becomes(a, i, NextStatement(r))
    /\ UNCHANGED <<objects, failed>>

\* A statement that failed because its object exists is a success.  One that
\* was aborted is neither, and is asked for again.
CheckStatus(a, i) ==
    LET r == runs[a][i]
    IN /\ r.status = "RUNNING"
       /\ \/ r.sql \in {"FINISHED", "EXISTS"} /\ Becomes(a, i, NextStatement(r))
          \/ r.sql = "FAILED" /\ Becomes(a, i, [r EXCEPT !.status = "FAILED"])
    /\ UNCHANGED <<objects, failed>>

\* Mutant: executions have no time limit.
NeverTimesOut(a, i) ==
    /\ runs[a][i].status = "TIMED_OUT"
    /\ UNCHANGED schemaVars

TimesOut(a, i) ==
    LET r == runs[a][i]
    IN /\ r.status = "RUNNING" /\ r.sql \in {"STARTED", "ABORTED"}
       /\ Becomes(a, i, [r EXCEPT !.status = "TIMED_OUT"])
    /\ UNCHANGED <<objects, failed>>

\* What an execution does by itself.
RunProceeds(a, i) ==
    SubmitSql(a, i) \/ StatementEnds(a, i) \/ CheckStatus(a, i) \/ TimesOut(a, i)

-----------------------------------------------------------------------------
(* The operator.                                                           *)

\* The execution that the API shows for an application.
Shown(a) == runs[a][Len(runs[a])]

HasFailed(a) == runs[a] # <<>> /\ Shown(a).status \in {"FAILED", "TIMED_OUT"}

OperatorActs ==
    /\ reruns < MaxReruns
    /\ reruns' = reruns + 1
    /\ UNCHANGED <<stack, request, database, objects, requests, failed>>

\* A new execution with the input of the one that is shown.
RunAgain(a) ==
    /\ OperatorActs /\ HasFailed(a)
    /\ StartExecution(a, Shown(a).hash)

\* The execution goes on where a function of it failed.
Redrive(a) ==
    /\ OperatorActs /\ HasFailed(a) /\ Shown(a).sql = "none"
    /\ runs' = [runs EXCEPT ![a][Len(runs[a])].status = "RUNNING"]
    /\ NoteOverlap(a)

-----------------------------------------------------------------------------

SchemaNext ==
    \/ \E apps \in SUBSET Schema, hash \in Hash :
          CreateStack(apps, hash) \/ UpdateStack(apps, hash)
    \/ DeleteStack
    \/ CreateDatabase
    \/ StackCompletes
    \/ StackOperationFails
    \/ \E a \in Schema :
          \/ CreateSchemaOf(a)
          \/ RunAgain(a) \/ Redrive(a)
          \/ \E i \in DOMAIN runs[a] : RunProceeds(a, i) \/ StatementFails(a, i)

SchemaSpec == SchemaInit /\ [][SchemaNext]_schemaVars

\* Step Functions runs an execution to its end, its time limit included.
SchemaFairness ==
    \A a \in Schema : WF_schemaVars(\E i \in DOMAIN runs[a] : RunProceeds(a, i))

SchemaFairSpec == SchemaSpec /\ SchemaFairness

-----------------------------------------------------------------------------
(* What the schemas promise.                                               *)

\* When no operation is under way, the execution that the API shows for an
\* application of the stack is one for the SQL of the stack, whichever updates
\* failed half-way and were rolled back.
ShownIsDeployed ==
    ~Handling => \A a \in stack.apps : /\ runs[a] # <<>>
                                       /\ Shown(a).hash = stack.hash

\* When that execution has succeeded, everything that the application needs is
\* there, and as the SQL of the stack defines it where it could be replaced:
\* unless two executions of the application ran at a time.
SchemasUpToDate ==
    ~Handling => \A a \in stack.apps \ overlapped :
        runs[a] # <<>> /\ Shown(a).status = "SUCCEEDED" =>
            \A s \in 1..Statements :
                /\ objects[a][s] # 0
                /\ s \in Replacing => objects[a][s] = stack.hash

\* Every execution ends, so that the API shows a result: an aborted statement
\* does not keep it for ever.
ExecutionsEnd ==
    \A a \in Schema : (\E i \in DOMAIN runs[a] : runs[a][i].status = "RUNNING") ~>
                      (\A i \in DOMAIN runs[a] : runs[a][i].status # "RUNNING")
=============================================================================
