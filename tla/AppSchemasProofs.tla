-------------------------- MODULE AppSchemasProofs --------------------------
(***************************************************************************)
(* Type correctness of AppSchemas; that the execution shown for an         *)
(* application is always one for the SQL of the stack; and that when it    *)
(* has succeeded the schema is that of the stack, for any number of        *)
(* applications, statements, operations, failures, reruns and redrives.    *)
(***************************************************************************)
EXTENDS AppSchemas, TLAPS

\* The latest execution of an application is one for this version of the SQL.
Has(a, h) == runs[a] # <<>> /\ Shown(a).hash = h

\* What the operation under way has to rely on: an application it passes over
\* has what it will be taken to have, whether it succeeds or is rolled back.
RequestInv ==
    /\ ~Handling => request = NoRequest
    /\ ~Exists => stack = NoStack
    /\ Handling =>
        /\ request.to.hash # 0
        /\ request.kind # "create" => Exists
        /\ \A a \in request.to.apps \ request.todo : Has(a, request.to.hash)
        /\ request.kind = "create" => stack = NoStack
        /\ request.kind = "update" => request.from = stack
        /\ request.kind = "rollback" => request.to = stack
        /\ request.kind # "create" /\ request.from.hash = request.to.hash =>
               \A a \in stack.apps : Has(a, stack.hash)

SchemaInv == SchemaTypeOK /\ RequestInv /\ ShownIsDeployed

-----------------------------------------------------------------------------
(* Executions.                                                             *)

Status == {"RUNNING", "SUCCEEDED", "FAILED", "TIMED_OUT"}
SqlStatus == {"none", "STARTED", "FINISHED", "EXISTS", "FAILED", "ABORTED"}

\* The fields of an execution.
LEMMA RunFields ==
    ASSUME NEW r \in RunRecord
    PROVE  /\ r.hash \in Hash /\ r.at \in 1..Statements
           /\ r.status \in Status /\ r.sql \in SqlStatus
    BY DEF RunRecord, Status, SqlStatus

\* An execution stays one when its status changes.
LEMMA WithStatus ==
    ASSUME NEW r \in RunRecord, NEW s \in Status
    PROVE  /\ [r EXCEPT !.status = s] \in RunRecord
           /\ [r EXCEPT !.status = s].hash = r.hash
    BY DEF RunRecord, Status

\* And when that of its statement does.
LEMMA WithSql ==
    ASSUME NEW r \in RunRecord, NEW s \in SqlStatus
    PROVE  /\ [r EXCEPT !.sql = s] \in RunRecord
           /\ [r EXCEPT !.sql = s].hash = r.hash
    BY DEF RunRecord, SqlStatus

\* And when it goes on to its next statement, which is never beyond the last.
LEMMA NextTyped ==
    ASSUME NEW r \in RunRecord
    PROVE  NextStatement(r) \in RunRecord /\ NextStatement(r).hash = r.hash
<1>1. CASE r.at = Statements
  BY <1>1, WithStatus DEF NextStatement, Status
<1>2. CASE r.at # Statements
  <2>1. r.at \in 1..Statements BY RunFields
  <2>2. r.at + 1 \in 1..Statements BY <2>1, <1>2, AppSchemasAssumption
  <2> DEFINE q == [r EXCEPT !.at = @ + 1]
  <2>3. q \in RunRecord /\ q.hash = r.hash BY <2>2 DEF RunRecord
  <2>4. NextStatement(r) = [q EXCEPT !.sql = "none"] BY <1>2 DEF NextStatement, RunRecord
  <2>5. "none" \in SqlStatus BY DEF SqlStatus
  <2>. HIDE DEF q
  <2>. QED BY <2>3, <2>4, <2>5, WithSql
<1>. QED BY <1>1, <1>2

\* A new execution.
LEMMA RunOfTyped ==
    ASSUME NEW h \in Hash
    PROVE  RunOf(h) \in RunRecord /\ RunOf(h).hash = h
<1>1. 1 \in 1..Statements BY AppSchemasAssumption
<1>. QED BY <1>1 DEF RunOf, RunRecord

\* A step of an execution keeps the types, and which version is shown.
LEMMA Replaced ==
    ASSUME runs \in [Schema -> Seq(RunRecord)],
           NEW a \in Schema, NEW i \in DOMAIN runs[a], NEW r \in RunRecord,
           r.hash = runs[a][i].hash,
           runs' = [runs EXCEPT ![a] = [@ EXCEPT ![i] = r]]
    PROVE  /\ runs' \in [Schema -> Seq(RunRecord)]
           /\ \A b \in Schema, h \in 0..Hashes : Has(b, h) => Has(b, h)'
<1> DEFINE q == [runs[a] EXCEPT ![i] = r]
<1>1. runs[a] \in Seq(RunRecord) /\ i \in 1..Len(runs[a]) OBVIOUS
<1>2. q \in Seq(RunRecord) /\ Len(q) = Len(runs[a]) BY <1>1
<1>3. q[i] = r /\ \A j \in 1..Len(q) \ {i} : q[j] = runs[a][j] BY <1>1, <1>2
<1>4. runs' = [runs EXCEPT ![a] = q] OBVIOUS
<1>. HIDE DEF q
<1>5. runs' \in [Schema -> Seq(RunRecord)] BY <1>2, <1>4
<1>6. ASSUME NEW b \in Schema, NEW h \in 0..Hashes, Has(b, h)
      PROVE  Has(b, h)'
  <2>1. CASE b # a BY <2>1, <1>4, <1>6 DEF Has, Shown
  <2>2. CASE b = a
    <3>1. runs'[a] = q BY <1>4
    <3>2. Len(q) \in 1..Len(q) /\ q # <<>> BY <1>1, <1>2
    <3>3. q[Len(q)].hash = runs[a][Len(runs[a])].hash BY <1>2, <1>3, <3>2
    <3>. QED BY <3>1, <3>2, <3>3, <2>2, <1>6 DEF Has, Shown
  <2>. QED BY <2>1, <2>2
<1>. QED BY <1>5, <1>6

\* A new execution of an application shows its version, the others stay.
LEMMA Appended ==
    ASSUME runs \in [Schema -> Seq(RunRecord)],
           NEW a \in Schema, NEW hash \in Hash, StartExecution(a, hash)
    PROVE  /\ runs' \in [Schema -> Seq(RunRecord)]
           /\ Has(a, hash)'
           /\ \A b \in Schema \ {a}, h \in 0..Hashes : Has(b, h) => Has(b, h)'
<1> DEFINE q == Append(runs[a], RunOf(hash))
<1>1. runs[a] \in Seq(RunRecord) /\ RunOf(hash) \in RunRecord BY RunOfTyped
<1>2. q \in Seq(RunRecord) /\ Len(q) = Len(runs[a]) + 1 /\ q[Len(q)] = RunOf(hash)
  BY <1>1
<1>3. runs' = [runs EXCEPT ![a] = q] BY DEF StartExecution
<1>4. q # <<>> BY <1>1, <1>2
<1>. HIDE DEF q
<1>5. runs'[a] = q /\ \A b \in Schema \ {a} : runs'[b] = runs[b] BY <1>3
<1>6. runs' \in [Schema -> Seq(RunRecord)] BY <1>2, <1>3
<1>7. Has(a, hash)' BY <1>2, <1>4, <1>5, RunOfTyped DEF Has, Shown
<1>8. \A b \in Schema \ {a}, h \in 0..Hashes : Has(b, h) => Has(b, h)'
  BY <1>5 DEF Has, Shown
<1>. QED BY <1>6, <1>7, <1>8

-----------------------------------------------------------------------------
(* The custom resource.                                                    *)

\* The fields of a request.
LEMMA RequestFields ==
    ASSUME SchemaTypeOK
    PROVE  /\ request.from \in Props /\ request.to \in Props
           /\ request.todo \in SUBSET Schema /\ request.ready \in BOOLEAN
           /\ request.kind \in {"none", "create", "update", "rollback"}
    BY DEF SchemaTypeOK

LEMMA PropsFields ==
    ASSUME NEW p \in Props
    PROVE  p.apps \in SUBSET Schema /\ p.hash \in 0..Hashes
    BY DEF Props

LEMMA NoStackTyped == NoStack \in Props
<1>1. 0 \in 0..Hashes BY AppSchemasAssumption
<1>. QED BY <1>1 DEF NoStack, Props

\* A request is typed, and passes over no application but those that have the
\* same version before and after.
LEMMA RequestTyped ==
    ASSUME NEW kind \in {"create", "update", "rollback"},
           NEW from \in Props, NEW to \in Props
    PROVE  /\ Request(kind, from, to) \in
                 [kind : {"none", "create", "update", "rollback"}, from : Props,
                  to : Props, todo : SUBSET Schema, ready : BOOLEAN]
           /\ Request(kind, from, to).kind = kind
           /\ Request(kind, from, to).from = from
           /\ Request(kind, from, to).to = to
           /\ kind = "create" => to.apps \ Request(kind, from, to).todo = {}
           /\ to.apps \ Request(kind, from, to).todo # {} => from.hash = to.hash
           /\ to.apps \ Request(kind, from, to).todo \subseteq from.apps
<1> DEFINE todo == NewAddedAppIds(kind, from, to)
<1>1. todo \in SUBSET Schema BY PropsFields DEF NewAddedAppIds
<1>2. /\ kind = "create" => to.apps \ todo = {}
      /\ to.apps \ todo # {} => from.hash = to.hash
      /\ to.apps \ todo \subseteq from.apps
  BY DEF NewAddedAppIds
<1>. HIDE DEF todo
<1>3. Request(kind, from, to) = [kind |-> kind, from |-> from, to |-> to,
                                 todo |-> todo, ready |-> kind # "create"]
  BY DEF Request, todo
<1>. QED BY <1>1, <1>2, <1>3

\* Unchanged executions show what they showed.
LEMMA SameRuns ==
    ASSUME runs' = runs
    PROVE  \A b, h : Has(b, h)' <=> Has(b, h)
    BY DEF Has, Shown

\* The stack and the request stay, and executions show what they showed: then
\* the rest of the invariant stays.
LEMMA Kept ==
    ASSUME SchemaInv, UNCHANGED <<stack, request>>,
           \A b \in Schema, h \in 0..Hashes : Has(b, h) => Has(b, h)'
    PROVE  RequestInv' /\ ShownIsDeployed'
<1>1. stack.hash \in 0..Hashes /\ stack.apps \subseteq Schema
  BY PropsFields DEF SchemaInv, SchemaTypeOK
<1>2. request.to.hash \in 0..Hashes /\ request.to.apps \subseteq Schema
  BY PropsFields, RequestFields DEF SchemaInv
<1>3. RequestInv' BY <1>1, <1>2 DEF SchemaInv, RequestInv, Handling, Exists
<1>4. ShownIsDeployed' BY <1>1 DEF SchemaInv, ShownIsDeployed, Handling, Has, Shown
<1>. QED BY <1>3, <1>4

\* A new request rests on what the stack and its executions were.
LEMMA NewRequest ==
    ASSUME SchemaInv, UNCHANGED <<stack, runs>>,
           NEW kind \in {"create", "update", "rollback"},
           NEW from \in Props, NEW to \in Props, request' = Request(kind, from, to),
           to.hash # 0, kind # "create" => Exists,
           kind = "create" => stack = NoStack,
           kind = "update" => from = stack,
           kind = "rollback" => to = stack,
           kind # "create" /\ from.hash = to.hash =>
               \A a \in stack.apps : Has(a, stack.hash)
    PROVE  RequestInv' /\ ShownIsDeployed'
<1>1. /\ request'.kind = kind /\ request'.from = from /\ request'.to = to
      /\ kind = "create" => to.apps \ request'.todo = {}
      /\ to.apps \ request'.todo # {} => from.hash = to.hash
      /\ to.apps \ request'.todo \subseteq from.apps
  BY SMTT(30), RequestTyped
<1>2. Handling' BY <1>1 DEF Handling
<1>3. \A a \in to.apps \ request'.todo : Has(a, to.hash)
  <2>1. TAKE a \in to.apps \ request'.todo
  <2>2. kind # "create" /\ from.hash = to.hash /\ a \in from.apps BY <1>1, <2>1
  <2>3. a \in stack.apps /\ stack.hash = to.hash BY <1>1, <2>1, <2>2
  <2>. QED BY <2>2, <2>3
<1>4. \A b, h : Has(b, h)' <=> Has(b, h) BY SameRuns
<1>5. RequestInv' BY <1>1, <1>3, <1>4 DEF RequestInv, Handling, Exists
<1>6. ShownIsDeployed' BY <1>2 DEF ShownIsDeployed
<1>. QED BY <1>5, <1>6

\* An application gets its execution.
LEMMA CreateSchemaOfKeeps ==
    ASSUME SchemaInv, NEW a \in Schema, CreateSchemaOf(a)
    PROVE  SchemaInv'
<1> DEFINE to == request.to
<1>1. /\ to \in Props /\ request.todo \in SUBSET Schema /\ a \in request.todo
      /\ request.from \in Props /\ request.ready \in BOOLEAN
      /\ request.kind \in {"none", "create", "update", "rollback"}
  BY RequestFields DEF SchemaInv, CreateSchemaOf
<1>2. stack \in Props /\ runs \in [Schema -> Seq(RunRecord)]
  BY DEF SchemaInv, SchemaTypeOK
<1>3. Handling
  BY DEF SchemaInv, RequestInv, CreateSchemaOf, NoRequest
<1>4. to.hash \in Hash
  <2>1. to.hash \in 0..Hashes /\ to.hash # 0
    BY <1>1, <1>3, PropsFields DEF SchemaInv, RequestInv
  <2>. QED BY <2>1, AppSchemasAssumption DEF Hash
<1>5. PICK h \in Hash : h = to.hash BY <1>4
<1>6. /\ runs' \in [Schema -> Seq(RunRecord)]
      /\ Has(a, h)'
      /\ \A b \in Schema \ {a}, g \in 0..Hashes : Has(b, g) => Has(b, g)'
  <2>1. StartExecution(a, h) BY <1>5 DEF CreateSchemaOf
  <2>. HIDE DEF to
  <2>. QED BY <1>2, <2>1, Appended
<1> DEFINE left == request.todo \ {a}
<1>7. /\ request'.kind = request.kind /\ request'.from = request.from
      /\ request'.to = to /\ request'.todo = left /\ request'.ready = request.ready
      /\ request' \in [kind : {"none", "create", "update", "rollback"}, from : Props,
                       to : Props, todo : SUBSET Schema, ready : BOOLEAN]
  <2>1. request' = [request EXCEPT !.todo = left] BY DEF CreateSchemaOf
  <2>. QED BY <2>1, <1>1 DEF SchemaInv, SchemaTypeOK
<1>8. SchemaTypeOK'
  <2>1. overlapped' \subseteq Schema
    BY DEF SchemaInv, SchemaTypeOK, CreateSchemaOf, StartExecution, NoteOverlap
  <2>. QED BY <1>6, <1>7, <2>1 DEF SchemaInv, SchemaTypeOK, CreateSchemaOf
<1>9. stack' = stack /\ Handling' BY <1>3, <1>7 DEF CreateSchemaOf, Handling
<1>10. /\ h \in 0..Hashes /\ to.apps \subseteq Schema
       /\ stack.hash \in 0..Hashes /\ stack.apps \subseteq Schema
  BY <1>1, <1>2, <1>5, PropsFields
<1>11. \A b \in to.apps \ left : Has(b, h)'
  <2>1. TAKE b \in to.apps \ left
  <2>2. CASE b = a BY <2>2, <1>6
  <2>3. CASE b # a
    <3>1. b \in to.apps \ request.todo /\ b \in Schema BY <2>1, <2>3, <1>10
    <3>2. Has(b, h) BY <3>1, <1>3, <1>5 DEF SchemaInv, RequestInv
    <3>. QED BY <3>1, <3>2, <2>3, <1>6, <1>10
  <2>. QED BY <2>2, <2>3
<1>12. ASSUME request.kind # "create", request.from.hash = h
       PROVE  stack.hash = h /\ \A b \in stack.apps : Has(b, h)'
  <2>1. stack.hash = h
    BY <1>3, <1>1, <1>5, <1>12 DEF SchemaInv, RequestInv, Handling
  <2>2. ASSUME NEW b \in stack.apps PROVE Has(b, h)'
    <3>1. CASE b = a BY <3>1, <1>6
    <3>2. CASE b # a
      <4>1. Has(b, h) BY <1>3, <1>5, <1>12, <2>1, <2>2 DEF SchemaInv, RequestInv
      <4>. QED BY <4>1, <3>2, <2>2, <1>6, <1>10
    <3>. QED BY <3>1, <3>2
  <2>. QED BY <2>1, <2>2
<1>13. RequestInv'
  <2>1. /\ request.kind = "create" => stack = NoStack
        /\ request.kind = "update" => request.from = stack
        /\ request.kind = "rollback" => to = stack
        /\ h # 0 /\ (request.kind # "create" => Exists)
        /\ ~Exists => stack = NoStack
    BY <1>3, <1>5 DEF SchemaInv, RequestInv
  <2>2. request'.to.hash = h /\ request'.to.apps \ request'.todo = to.apps \ left
    BY <1>5, <1>7
  <2>3. /\ \A b \in request'.to.apps \ request'.todo : Has(b, request.to.hash)'
        /\ request'.to.hash # 0
    BY <2>1, <2>2, <1>11
  <2>4. request'.kind # "create" /\ request'.from.hash = request'.to.hash =>
           \A b \in stack'.apps : Has(b, stack.hash)'
    BY <2>2, <1>7, <1>9, <1>12
  <2>5. /\ request'.kind = "create" => stack' = NoStack
        /\ request'.kind = "update" => request'.from = stack'
        /\ request'.kind = "rollback" => request'.to = stack'
        /\ (request'.kind # "create" => Exists')
        /\ (~Exists' => stack' = NoStack)
    BY <2>1, <1>7, <1>9 DEF Exists
  <2>. QED BY <2>3, <2>4, <2>5, <1>9 DEF RequestInv
<1>14. ShownIsDeployed' BY <1>9 DEF ShownIsDeployed
<1>. QED BY <1>8, <1>13, <1>14 DEF SchemaInv

LEMMA RequestsKeep ==
    ASSUME SchemaInv, NEW apps \in SUBSET Schema, NEW hash \in Hash,
           CreateStack(apps, hash) \/ UpdateStack(apps, hash)
    PROVE  SchemaInv'
<1> DEFINE to == [apps |-> apps, hash |-> hash]
<1>1. to \in Props /\ to.hash # 0 BY AppSchemasAssumption DEF Props, Hash
<1>2. NoStack \in Props /\ stack \in Props
  BY NoStackTyped DEF SchemaInv, SchemaTypeOK
<1>3. requests' \in 0..MaxRequests
  BY AppSchemasAssumption
     DEF SchemaInv, SchemaTypeOK, CreateStack, UpdateStack, StackRequest
<1>4. CASE CreateStack(apps, hash)
  <2>. HIDE DEF to
  <2>1. request' = Request("create", NoStack, to) /\ UNCHANGED <<stack, runs>> /\ ~Exists
        /\ UNCHANGED <<database, objects, overlapped, reruns, failed>> /\ ~Handling
    BY <1>4 DEF CreateStack, StackRequest, to
  <2>2. stack = NoStack BY <2>1 DEF SchemaInv, RequestInv
  <2>3. RequestInv' /\ ShownIsDeployed'
    BY <1>1, <1>2, <2>1, <2>2, NewRequest
  <2>4. SchemaTypeOK'
    BY <1>1, <1>2, <1>3, <2>1, RequestTyped DEF SchemaInv, SchemaTypeOK
  <2>. QED BY <2>3, <2>4 DEF SchemaInv
<1>5. CASE UpdateStack(apps, hash)
  <2>. HIDE DEF to
  <2>1. /\ request' = Request("update", stack, to) /\ UNCHANGED <<stack, runs>> /\ Exists
        /\ UNCHANGED <<database, objects, overlapped, reruns, failed>> /\ ~Handling
    BY <1>5 DEF UpdateStack, StackRequest, to
  <2>2. PICK from \in Props : from = stack BY <1>2
  <2>3. \A a \in stack.apps : Has(a, stack.hash)
    BY <2>1 DEF SchemaInv, ShownIsDeployed, Has
  <2>4. RequestInv' /\ ShownIsDeployed'
    BY <1>1, <2>1, <2>2, <2>3, NewRequest
  <2>5. SchemaTypeOK'
    BY <1>1, <1>3, <2>1, <2>2, RequestTyped DEF SchemaInv, SchemaTypeOK
  <2>. QED BY <2>4, <2>5 DEF SchemaInv
<1>. QED BY <1>4, <1>5

LEMMA DeleteStackKeeps ==
    ASSUME SchemaInv, DeleteStack
    PROVE  SchemaInv'
<1>1. /\ ~Handling /\ stack' = NoStack /\ UNCHANGED <<request, runs>>
      /\ UNCHANGED <<database, objects, overlapped, reruns, failed>>
      /\ requests' = requests + 1 /\ requests < MaxRequests
  BY DEF DeleteStack
<1>2. SchemaTypeOK'
  BY <1>1, NoStackTyped, AppSchemasAssumption DEF SchemaInv, SchemaTypeOK
<1>3. RequestInv' BY <1>1 DEF SchemaInv, RequestInv, Handling
<1>4. ShownIsDeployed' BY <1>1 DEF ShownIsDeployed, NoStack
<1>. QED BY <1>2, <1>3, <1>4 DEF SchemaInv

LEMMA CreateDatabaseKeeps ==
    ASSUME SchemaInv, CreateDatabase
    PROVE  SchemaInv'
<1> DEFINE r == [request EXCEPT !.ready = TRUE]
<1>1. /\ request' = r /\ UNCHANGED <<stack, runs>> /\ Handling /\ database' = TRUE
      /\ UNCHANGED <<objects, overlapped, requests, reruns, failed>>
  BY DEF CreateDatabase
<1>2. /\ r.kind = request.kind /\ r.from = request.from
      /\ r.to = request.to /\ r.todo = request.todo
      /\ r \in [kind : {"none", "create", "update", "rollback"}, from : Props,
                to : Props, todo : SUBSET Schema, ready : BOOLEAN]
  BY DEF SchemaInv, SchemaTypeOK
<1>. HIDE DEF r
<1>3. SchemaTypeOK' BY <1>1, <1>2 DEF SchemaInv, SchemaTypeOK
<1>4. \A b, h : Has(b, h)' <=> Has(b, h) BY <1>1, SameRuns
<1>5. Handling' /\ Exists' = Exists BY <1>1, <1>2 DEF Handling, Exists
<1>6. RequestInv'
  <2>1. /\ request'.kind = request.kind /\ request'.from = request.from
        /\ request'.to = request.to /\ request'.todo = request.todo
    BY <1>1, <1>2
  <2>. QED BY <1>1, <2>1, <1>4, <1>5 DEF SchemaInv, RequestInv
<1>7. ShownIsDeployed' BY <1>5 DEF ShownIsDeployed
<1>. QED BY <1>3, <1>6, <1>7 DEF SchemaInv

LEMMA StackCompletesKeeps ==
    ASSUME SchemaInv, StackCompletes
    PROVE  SchemaInv'
<1>1. /\ request.ready /\ request.todo = {} /\ stack' = request.to
      /\ request' = NoRequest
      /\ UNCHANGED <<database, runs, objects, overlapped, requests, reruns, failed>>
  BY DEF StackCompletes
<1>2. Handling BY <1>1 DEF SchemaInv, RequestInv, NoRequest
<1>3. ~Handling' /\ Exists' BY <1>1, <1>2 DEF SchemaInv, RequestInv, Handling, NoRequest, Exists
<1>4. NoRequest \in [kind : {"none", "create", "update", "rollback"}, from : Props,
                     to : Props, todo : SUBSET Schema, ready : BOOLEAN]
  BY NoStackTyped DEF NoRequest
<1>5. SchemaTypeOK' BY <1>1, <1>4, RequestFields DEF SchemaInv, SchemaTypeOK
<1>6. RequestInv' BY <1>1, <1>3 DEF RequestInv
<1>7. \A a \in request.to.apps : Has(a, request.to.hash)
  BY <1>1, <1>2 DEF SchemaInv, RequestInv
<1>8. ShownIsDeployed' BY <1>1, <1>7 DEF ShownIsDeployed, Has, Shown
<1>. QED BY <1>5, <1>6, <1>8 DEF SchemaInv

\* A rollback goes back to the stack as it is, whatever it is that failed.
LEMMA StackOperationFailsKeeps ==
    ASSUME SchemaInv, StackOperationFails
    PROVE  SchemaInv'
<1>1. /\ Handling
      /\ request' = CASE request.kind = "create" -> NoRequest
                      [] request.kind = "update" ->
                             Request("rollback", request.to, request.from)
                      [] OTHER -> Request("rollback", request.from, request.to)
      /\ UNCHANGED <<stack, database, runs, objects, overlapped, requests, reruns>>
      /\ failed' \in 0..MaxFailed
  BY AppSchemasAssumption
     DEF StackOperationFails, CallOrStatementFails, SchemaInv, SchemaTypeOK
<1>2. /\ request.from \in Props /\ request.to \in Props
      /\ request.kind \in {"create", "update", "rollback"}
  BY <1>1, RequestFields DEF Handling, SchemaInv
<1>3. CASE request.kind = "create"
  <2>1. request' = NoRequest /\ stack = NoStack
    BY <1>1, <1>3 DEF SchemaInv, RequestInv
  <2>2. NoRequest \in [kind : {"none", "create", "update", "rollback"}, from : Props,
                       to : Props, todo : SUBSET Schema, ready : BOOLEAN]
    BY NoStackTyped DEF NoRequest
  <2>3. SchemaTypeOK' BY <1>1, <2>1, <2>2 DEF SchemaInv, SchemaTypeOK
  <2>4. RequestInv'
    <3>1. stack' = stack BY <1>1
    <3>2. stack' = NoStack' /\ request' = NoRequest' BY <2>1, <3>1 DEF NoRequest, NoStack
    <3>3. ~Handling' BY <3>2 DEF Handling, NoRequest
    <3>. QED BY <3>2, <3>3 DEF RequestInv
  <2>5. ShownIsDeployed' BY <1>1, <2>1 DEF ShownIsDeployed, NoStack
  <2>. QED BY <2>3, <2>4, <2>5 DEF SchemaInv
<1>4. CASE request.kind # "create"
  <2>1. PICK from \in Props, to \in Props :
            /\ request' = Request("rollback", from, to)
            /\ {from, to} = {request.from, request.to}
            /\ to = stack
    <3>1. CASE request.kind = "update"
      BY <1>1, <1>2, <3>1 DEF SchemaInv, RequestInv
    <3>2. CASE request.kind = "rollback"
      BY <1>1, <1>2, <3>2 DEF SchemaInv, RequestInv
    <3>. QED BY <3>1, <3>2, <1>2, <1>4
  <2>2. Exists BY <1>1, <1>4 DEF SchemaInv, RequestInv
  <2>3. to.hash # 0 BY <2>1, <2>2 DEF Exists
  <2>4. from.hash = to.hash => \A a \in stack.apps : Has(a, stack.hash)
    BY <1>1, <1>4, <2>1 DEF SchemaInv, RequestInv
  <2>5. RequestInv' /\ ShownIsDeployed'
    BY <1>1, <2>1, <2>2, <2>3, <2>4, NewRequest
  <2>6. SchemaTypeOK'
    BY <1>1, <2>1, RequestTyped DEF SchemaInv, SchemaTypeOK
  <2>. QED BY <2>5, <2>6 DEF SchemaInv
<1>. QED BY <1>3, <1>4

-----------------------------------------------------------------------------
(* Executions and the operator.                                            *)

\* What an execution does keeps the invariant: it keeps its version.
LEMMA RunSteps ==
    ASSUME SchemaInv, NEW a \in Schema, NEW i \in DOMAIN runs[a],
           RunProceeds(a, i) \/ StatementFails(a, i)
    PROVE  SchemaInv'
<1>1. runs \in [Schema -> Seq(RunRecord)] BY DEF SchemaInv, SchemaTypeOK
<1>2. PICK r \in RunRecord : r = runs[a][i] BY <1>1
<1>3. failed' \in 0..MaxFailed
  BY SMTT(30), AppSchemasAssumption
     DEF SchemaInv, SchemaTypeOK, RunProceeds, SubmitSql, StatementEnds, CheckStatus,
         TimesOut, StatementFails, CallOrStatementFails
<1>4. UNCHANGED <<stack, request, database, overlapped, requests, reruns>>
  BY DEF RunProceeds, SubmitSql, StatementEnds, CheckStatus, TimesOut, StatementFails,
         Becomes
<1>5. objects' \in [Schema -> [1..Statements -> 0..Hashes]]
  <2>1. objects \in [Schema -> [1..Statements -> 0..Hashes]]
    BY DEF SchemaInv, SchemaTypeOK
  <2>2. r.at \in 1..Statements /\ r.hash \in 0..Hashes
    BY RunFields, AppSchemasAssumption DEF Hash
  <2>3. \/ objects' = objects
        \/ objects' = [objects EXCEPT ![a] = [@ EXCEPT ![r.at] = r.hash]]
    BY <1>2 DEF RunProceeds, SubmitSql, StatementEnds, CheckStatus, TimesOut,
                StatementFails
  <2>4. ASSUME objects' = [objects EXCEPT ![a] = [@ EXCEPT ![r.at] = r.hash]]
        PROVE  objects' \in [Schema -> [1..Statements -> 0..Hashes]]
    <3>1. objects[a] \in [1..Statements -> 0..Hashes] BY <2>1
    <3>2. PICK f \in [1..Statements -> 0..Hashes] :
              f = [objects[a] EXCEPT ![r.at] = r.hash]
      BY <3>1, <2>2
    <3>3. objects' = [objects EXCEPT ![a] = f] BY <3>2, <2>4
    <3>. QED BY <2>1, <3>3
  <2>. QED BY <2>1, <2>3, <2>4
<1>6. PICK q \in RunRecord : /\ q.hash = r.hash
                             /\ runs' = [runs EXCEPT ![a] = [@ EXCEPT ![i] = q]]
  <2>1. \/ \E s \in Status : Becomes(a, i, [r EXCEPT !.status = s])
        \/ \E t \in SqlStatus : Becomes(a, i, [r EXCEPT !.sql = t])
        \/ Becomes(a, i, NextStatement(r))
    BY <1>2 DEF RunProceeds, SubmitSql, StatementEnds, CheckStatus, TimesOut,
                StatementFails, Status, SqlStatus
  <2>. QED BY <2>1, WithStatus, WithSql, NextTyped DEF Becomes
<1>7. /\ runs' \in [Schema -> Seq(RunRecord)]
      /\ \A b \in Schema, h \in 0..Hashes : Has(b, h) => Has(b, h)'
  BY <1>1, <1>2, <1>6, Replaced
<1>8. SchemaTypeOK' BY <1>3, <1>4, <1>5, <1>7 DEF SchemaInv, SchemaTypeOK
<1>. QED BY <1>4, <1>7, <1>8, Kept DEF SchemaInv

LEMMA RunAgainKeeps ==
    ASSUME SchemaInv, NEW a \in Schema, RunAgain(a)
    PROVE  SchemaInv'
<1>1. runs \in [Schema -> Seq(RunRecord)] /\ runs[a] # <<>>
  BY DEF SchemaInv, SchemaTypeOK, RunAgain, HasFailed
<1>2. Shown(a) \in RunRecord
  <2>1. runs[a] \in Seq(RunRecord) /\ Len(runs[a]) \in 1..Len(runs[a]) BY <1>1
  <2>. QED BY <2>1 DEF Shown
<1>3. PICK h \in Hash : h = Shown(a).hash BY <1>2, RunFields
<1>4. StartExecution(a, h) BY <1>3 DEF RunAgain
<1>5. /\ runs' \in [Schema -> Seq(RunRecord)] /\ Has(a, h)'
      /\ \A b \in Schema \ {a}, g \in 0..Hashes : Has(b, g) => Has(b, g)'
  BY <1>1, <1>4, Appended
<1>6. \A b \in Schema, g \in 0..Hashes : Has(b, g) => Has(b, g)'
  <2>1. TAKE b \in Schema, g \in 0..Hashes
  <2>2. HAVE Has(b, g)
  <2>3. CASE b = a
    <3>1. g = h BY <2>2, <2>3, <1>3 DEF Has
    <3>. QED BY <3>1, <2>3, <1>5
  <2>4. CASE b # a BY <2>2, <2>4, <1>5
  <2>. QED BY <2>3, <2>4
<1>7. /\ UNCHANGED <<stack, request, database, objects, requests, failed>>
      /\ reruns' \in 0..MaxReruns /\ overlapped' \subseteq Schema
  BY AppSchemasAssumption
     DEF SchemaInv, SchemaTypeOK, RunAgain, OperatorActs, StartExecution, NoteOverlap
<1>8. SchemaTypeOK' BY <1>5, <1>7 DEF SchemaInv, SchemaTypeOK
<1>. QED BY <1>6, <1>7, <1>8, Kept DEF SchemaInv

LEMMA RedriveKeeps ==
    ASSUME SchemaInv, NEW a \in Schema, Redrive(a)
    PROVE  SchemaInv'
<1>1. runs \in [Schema -> Seq(RunRecord)] /\ runs[a] # <<>>
  BY DEF SchemaInv, SchemaTypeOK, Redrive, HasFailed
<1>2. PICK i \in DOMAIN runs[a] : i = Len(runs[a])
  <2>1. runs[a] \in Seq(RunRecord) /\ Len(runs[a]) \in 1..Len(runs[a]) BY <1>1
  <2>. QED BY <2>1
<1>3. PICK r \in RunRecord : r = runs[a][i] BY <1>1, <1>2
<1>4. "RUNNING" \in Status BY DEF Status
<1>5. PICK q \in RunRecord : q = [r EXCEPT !.status = "RUNNING"] /\ q.hash = r.hash
  BY <1>4, WithStatus
<1>6. runs' = [runs EXCEPT ![a] = [@ EXCEPT ![i] = q]]
  BY <1>1, <1>2, <1>3, <1>5 DEF Redrive
<1>7. /\ runs' \in [Schema -> Seq(RunRecord)]
      /\ \A b \in Schema, h \in 0..Hashes : Has(b, h) => Has(b, h)'
  BY <1>1, <1>3, <1>5, <1>6, Replaced
<1>8. /\ UNCHANGED <<stack, request, database, objects, requests, failed>>
      /\ reruns' \in 0..MaxReruns /\ overlapped' \subseteq Schema
  BY AppSchemasAssumption
     DEF SchemaInv, SchemaTypeOK, Redrive, OperatorActs, NoteOverlap
<1>9. SchemaTypeOK' BY <1>7, <1>8 DEF SchemaInv, SchemaTypeOK
<1>. QED BY <1>7, <1>8, <1>9, Kept DEF SchemaInv

-----------------------------------------------------------------------------

LEMMA InitHolds ==
    ASSUME SchemaInit
    PROVE  SchemaInv
<1>1. NoRequest \in [kind : {"none", "create", "update", "rollback"}, from : Props,
                     to : Props, todo : SUBSET Schema, ready : BOOLEAN]
  BY NoStackTyped DEF NoRequest
<1>2. SchemaTypeOK
  <2>1. objects \in [Schema -> [1..Statements -> 0..Hashes]]
    BY AppSchemasAssumption DEF SchemaInit
  <2>2. runs \in [Schema -> Seq(RunRecord)] BY DEF SchemaInit
  <2>3. database \in BOOLEAN /\ overlapped \subseteq Schema BY DEF SchemaInit
  <2>4. requests \in 0..MaxRequests /\ reruns \in 0..MaxReruns /\ failed \in 0..MaxFailed
    BY AppSchemasAssumption DEF SchemaInit
  <2>5. stack = NoStack /\ request = NoRequest BY DEF SchemaInit
  <2>. QED BY <1>1, <2>1, <2>2, <2>3, <2>4, <2>5, NoStackTyped DEF SchemaTypeOK
<1>3. RequestInv
  BY DEF SchemaInit, RequestInv, Handling, NoRequest, Exists
<1>4. ShownIsDeployed BY DEF SchemaInit, ShownIsDeployed, NoStack
<1>. QED BY <1>2, <1>3, <1>4 DEF SchemaInv

LEMMA StepKeeps ==
    ASSUME SchemaInv, [SchemaNext]_schemaVars
    PROVE  SchemaInv'
<1>1. CASE UNCHANGED schemaVars
  <2>1. UNCHANGED <<stack, request, database, runs, objects, overlapped, requests,
                    reruns, failed>>
    BY <1>1 DEF schemaVars
  <2>2. SchemaTypeOK' BY <2>1 DEF SchemaInv, SchemaTypeOK
  <2>3. \A b, h : Has(b, h)' <=> Has(b, h) BY <2>1, SameRuns
  <2>. QED BY <2>1, <2>2, <2>3, Kept DEF SchemaInv
<1>2. CASE SchemaNext
  <2>1. CASE \E apps \in SUBSET Schema, hash \in Hash :
                 CreateStack(apps, hash) \/ UpdateStack(apps, hash)
    BY <2>1, RequestsKeep
  <2>2. CASE DeleteStack BY <2>2, DeleteStackKeeps
  <2>3. CASE CreateDatabase BY <2>3, CreateDatabaseKeeps
  <2>4. CASE StackCompletes BY <2>4, StackCompletesKeeps
  <2>5. CASE StackOperationFails BY <2>5, StackOperationFailsKeeps
  <2>6. ASSUME NEW a \in Schema, CreateSchemaOf(a) PROVE SchemaInv'
    BY <2>6, CreateSchemaOfKeeps
  <2>7. ASSUME NEW a \in Schema, RunAgain(a) PROVE SchemaInv'
    BY <2>7, RunAgainKeeps
  <2>8. ASSUME NEW a \in Schema, Redrive(a) PROVE SchemaInv'
    BY <2>8, RedriveKeeps
  <2>9. ASSUME NEW a \in Schema, NEW i \in DOMAIN runs[a],
               RunProceeds(a, i) \/ StatementFails(a, i)
        PROVE  SchemaInv'
    BY <2>9, RunSteps
  <2>. QED BY <1>2, <2>1, <2>2, <2>3, <2>4, <2>5, <2>6, <2>7, <2>8, <2>9 DEF SchemaNext
<1>. QED BY <1>1, <1>2

LEMMA SchemaInvHolds == SchemaSpec => []SchemaInv
<1>1. SchemaInit => SchemaInv BY InitHolds
<1>2. SchemaInv /\ [SchemaNext]_schemaVars => SchemaInv' BY StepKeeps
<1>. QED BY <1>1, <1>2, PTL DEF SchemaSpec

\* The variables keep their types: no execution has a statement beyond its last.
THEOREM SchemaTypeCorrect == SchemaSpec => []SchemaTypeOK
<1>1. SchemaInv => SchemaTypeOK BY DEF SchemaInv
<1>. QED BY <1>1, SchemaInvHolds, PTL

\* When no operation is under way, the execution shown for an application is one
\* for the SQL of the stack, whatever failed and was rolled back.
THEOREM DeployedIsShown == SchemaSpec => []ShownIsDeployed
<1>1. SchemaInv => ShownIsDeployed BY DEF SchemaInv
<1>. QED BY <1>1, SchemaInvHolds, PTL

-----------------------------------------------------------------------------
(* What executions have done.                                              *)

\* Statement s of execution r has created what it creates, or found it there.
Done(r, s) == s < r.at \/ (s = r.at /\ r.sql \in {"FINISHED", "EXISTS"})

\* What execution r has done is there, and of its version where that is replaced.
Serves(r, versions) ==
    /\ \A s \in 1..Statements :
          Done(r, s) => /\ versions[s] # 0
                        /\ s \in Replacing => versions[s] = r.hash
    /\ r.status = "SUCCEEDED" => (r.at = Statements /\ r.sql \in {"FINISHED", "EXISTS"})

\* Unless two ran at a time, only the latest execution of an application runs,
\* and nothing has been created since by another.
ProgressInv ==
    \A a \in Schema \ overlapped :
        /\ \A i \in DOMAIN runs[a] : Busy(runs[a][i]) => i = Len(runs[a])
        /\ runs[a] # <<>> => Serves(Shown(a), objects[a])

LEMMA ProgressKept ==
    ASSUME ProgressInv, UNCHANGED <<runs, objects, overlapped>>
    PROVE  ProgressInv'
    BY DEF ProgressInv, Shown

\* A new execution, of an application none of whose executions runs.
LEMMA StartedServes ==
    ASSUME SchemaTypeOK, ProgressInv, NEW a \in Schema, NEW hash \in Hash,
           StartExecution(a, hash), UNCHANGED objects
    PROVE  ProgressInv'
<1> DEFINE q == Append(runs[a], RunOf(hash))
<1>1. runs \in [Schema -> Seq(RunRecord)] BY DEF SchemaTypeOK
<1>2. runs[a] \in Seq(RunRecord) /\ RunOf(hash) \in RunRecord BY <1>1, RunOfTyped
<1>3. /\ q \in Seq(RunRecord) /\ Len(q) = Len(runs[a]) + 1 /\ q[Len(q)] = RunOf(hash)
      /\ \A i \in 1..Len(runs[a]) : q[i] = runs[a][i]
  BY <1>2
<1>4. runs' = [runs EXCEPT ![a] = q] BY DEF StartExecution
<1>. HIDE DEF q
<1>5. runs'[a] = q /\ \A b \in Schema \ {a} : runs'[b] = runs[b] BY <1>1, <1>4
<1>6. /\ overlapped \subseteq overlapped'
      /\ a \notin overlapped' => \A i \in DOMAIN runs[a] : ~Busy(runs[a][i])
  BY DEF StartExecution, NoteOverlap
<1>7. ASSUME a \notin overlapped'
      PROVE  /\ \A i \in DOMAIN q : Busy(q[i]) => i = Len(q)
             /\ Serves(q[Len(q)], objects[a])
  <2>1. ASSUME NEW i \in DOMAIN q, Busy(q[i]) PROVE i = Len(q)
    <3>1. i \in 1..Len(q) BY <1>3
    <3>2. ASSUME i \in 1..Len(runs[a]) PROVE FALSE
      <4>1. i \in DOMAIN runs[a] /\ q[i] = runs[a][i] BY <1>2, <1>3, <3>2
      <4>2. ~Busy(runs[a][i]) BY <1>6, <1>7, <4>1
      <4>. QED BY <2>1, <4>1, <4>2
    <3>. QED BY <1>2, <1>3, <3>1, <3>2
  <2>2. \A s \in 1..Statements : ~Done(RunOf(hash), s)
    BY AppSchemasAssumption DEF Done, RunOf
  <2>3. RunOf(hash).status = "RUNNING" BY DEF RunOf
  <2>. QED BY <1>3, <2>1, <2>2, <2>3 DEF Serves
<1>8. ASSUME NEW b \in Schema \ {a}, b \notin overlapped'
      PROVE  /\ \A i \in DOMAIN runs'[b] : Busy(runs'[b][i]) => i = Len(runs'[b])
             /\ runs'[b] # <<>> => Serves(Shown(b)', objects'[b])
  BY <1>5, <1>6, <1>8 DEF ProgressInv, Shown
<1>9. objects'[a] = objects[a] OBVIOUS
<1>. QED BY <1>5, <1>7, <1>8, <1>9 DEF ProgressInv, Shown

\* A step of an execution that runs, or whose statement does.
LEMMA StepServes ==
    ASSUME SchemaTypeOK, ProgressInv, NEW a \in Schema, NEW i \in DOMAIN runs[a],
           NEW q \in RunRecord, Becomes(a, i, q), Busy(runs[a][i]),
           \A b \in Schema \ {a} : objects'[b] = objects[b],
           Serves(runs[a][i], objects[a]) => Serves(q, objects'[a])
    PROVE  ProgressInv'
<1>1. runs \in [Schema -> Seq(RunRecord)] BY DEF SchemaTypeOK
<1>2. runs[a] \in Seq(RunRecord) /\ i \in 1..Len(runs[a]) BY <1>1
<1>3. PICK f : f = [runs[a] EXCEPT ![i] = q] OBVIOUS
<1>4. Len(f) = Len(runs[a]) /\ DOMAIN f = DOMAIN runs[a] /\ f[i] = q
      /\ \A j \in DOMAIN runs[a] : j # i => f[j] = runs[a][j]
  BY <1>2, <1>3
<1>5. runs' = [runs EXCEPT ![a] = f] BY <1>3 DEF Becomes
<1>6. runs'[a] = f /\ \A b \in Schema \ {a} : runs'[b] = runs[b] BY <1>1, <1>5
<1>7. overlapped' = overlapped BY DEF Becomes
<1>8. ASSUME a \notin overlapped
      PROVE  /\ \A j \in DOMAIN f : Busy(f[j]) => j = Len(f)
             /\ Serves(f[Len(f)], objects'[a])
  <2>1. \A j \in DOMAIN runs[a] : Busy(runs[a][j]) => j = Len(runs[a])
    BY <1>8 DEF ProgressInv
  <2>2. i = Len(runs[a]) BY <2>1
  <2>3. runs[a] # <<>> BY <1>2
  <2>4. Serves(runs[a][i], objects[a]) BY <1>8, <2>2, <2>3 DEF ProgressInv, Shown
  <2>5. \A j \in DOMAIN f : Busy(f[j]) => j = Len(f)
    BY <1>4, <2>1, <2>2 DEF Busy
  <2>. QED BY <1>4, <2>2, <2>4, <2>5
<1>. QED BY <1>6, <1>7, <1>8 DEF ProgressInv, Shown

\* A change of status that is no success, or of a statement's that is none.
LEMMA StillServes ==
    ASSUME NEW r \in RunRecord, NEW q \in RunRecord, NEW versions, Serves(r, versions),
           q.hash = r.hash, q.at = r.at,
           q.sql \in {"FINISHED", "EXISTS"} => r.sql \in {"FINISHED", "EXISTS"},
           q.status = "SUCCEEDED" => (r.at = Statements /\ q.sql \in {"FINISHED", "EXISTS"})
    PROVE  Serves(q, versions)
    BY DEF Serves, Done

LEMMA RunServes ==
    ASSUME SchemaTypeOK, ProgressInv, NEW a \in Schema, NEW i \in DOMAIN runs[a],
           RunProceeds(a, i) \/ StatementFails(a, i)
    PROVE  ProgressInv'
<1>1. runs \in [Schema -> Seq(RunRecord)] BY DEF SchemaTypeOK
<1>2. PICK r \in RunRecord : r = runs[a][i] BY <1>1
<1>3. /\ r.hash \in Hash /\ r.at \in 1..Statements
      /\ r.status \in Status /\ r.sql \in SqlStatus
  BY RunFields
<1>4. CASE SubmitSql(a, i)
  <2>1. Busy(runs[a][i]) /\ UNCHANGED objects BY <1>4 DEF SubmitSql, Busy
  <2>2. PICK q : Becomes(a, i, q) /\ r.status = "RUNNING" /\ r.sql = "none"
                 /\ (q = [r EXCEPT !.sql = "STARTED"] \/ q = [r EXCEPT !.status = "FAILED"])
    BY <1>2, <1>4 DEF SubmitSql
  <2>3. /\ q \in RunRecord /\ q.hash = r.hash /\ q.at = r.at /\ q.status # "SUCCEEDED"
        /\ q.sql \notin {"FINISHED", "EXISTS"}
    BY <2>2 DEF RunRecord
  <2>4. Serves(r, objects[a]) => Serves(q, objects[a]) BY <2>3, StillServes
  <2>. QED BY <1>2, <2>1, <2>2, <2>3, <2>4, StepServes
<1>5. CASE StatementEnds(a, i)
  <2>1. r.sql = "STARTED" /\ Busy(runs[a][i]) BY <1>2, <1>5 DEF StatementEnds, Busy
  <2>2. PICK creates \in BOOLEAN :
           creates = (r.at \in Replacing \/ objects[a][r.at] = 0)
    OBVIOUS
  <2>3. PICK q : /\ Becomes(a, i, q)
                 /\ q = [r EXCEPT !.sql = IF creates THEN "FINISHED" ELSE "EXISTS"]
                 /\ objects' = IF creates
                      THEN [objects EXCEPT ![a] = [@ EXCEPT ![r.at] = r.hash]] ELSE objects
    BY <1>2, <1>5, <2>2 DEF StatementEnds
  <2>4. /\ q \in RunRecord /\ q.hash = r.hash /\ q.at = r.at /\ q.status = r.status
        /\ q.sql \in {"FINISHED", "EXISTS"}
    BY <2>3 DEF RunRecord
  <2>5. objects \in [Schema -> [1..Statements -> 0..Hashes]] BY DEF SchemaTypeOK
  <2>6. PICK versions : versions = IF creates THEN [objects[a] EXCEPT ![r.at] = r.hash]
                                   ELSE objects[a]
    OBVIOUS
  <2>7. /\ objects'[a] = versions
        /\ \A b \in Schema \ {a} : objects'[b] = objects[b]
    BY <2>3, <2>5, <2>6
  <2>8. ASSUME Serves(r, objects[a]) PROVE Serves(q, versions)
    <3>1. r.status # "SUCCEEDED" BY <2>1, <2>8 DEF Serves
    <3>2. r.hash # 0 BY <1>3, AppSchemasAssumption DEF Hash
    <3>3. ASSUME NEW s \in 1..Statements, Done(q, s)
          PROVE  versions[s] # 0 /\ (s \in Replacing => versions[s] = r.hash)
      <4>1. CASE s = r.at
        <5>1. CASE creates
          <6>1. versions[s] = r.hash BY <1>3, <2>5, <2>6, <4>1, <5>1
          <6>. QED BY <3>2, <6>1
        <5>2. CASE ~creates BY <2>2, <2>6, <4>1, <5>2
        <5>. QED BY <5>1, <5>2
      <4>2. CASE s # r.at
        <5>1. Done(r, s) BY <2>4, <3>3, <4>2 DEF Done
        <5>2. versions[s] = objects[a][s] BY <1>3, <2>5, <2>6, <4>2
        <5>. QED BY <2>8, <5>1, <5>2 DEF Serves
      <4>. QED BY <4>1, <4>2
    <3>. QED BY <2>4, <3>1, <3>3 DEF Serves
  <2>. QED BY <1>2, <2>1, <2>3, <2>4, <2>7, <2>8, StepServes
<1>6. CASE StatementFails(a, i)
  <2>1. r.sql = "STARTED" /\ Busy(runs[a][i]) /\ UNCHANGED objects
    BY <1>2, <1>6 DEF StatementFails, Busy
  <2>2. PICK end \in {"FAILED", "ABORTED"} : Becomes(a, i, [r EXCEPT !.sql = end])
    BY <1>2, <1>6 DEF StatementFails
  <2>3. PICK q : q = [r EXCEPT !.sql = end] OBVIOUS
  <2>4. /\ q \in RunRecord /\ q.hash = r.hash /\ q.at = r.at /\ q.status = r.status
        /\ q.sql \notin {"FINISHED", "EXISTS"}
    BY <2>3 DEF RunRecord
  <2>5. ASSUME Serves(r, objects[a]) PROVE Serves(q, objects[a])
    <3>1. r.status # "SUCCEEDED" BY <2>1, <2>5 DEF Serves
    <3>. QED BY <2>4, <2>5, <3>1, StillServes
  <2>. QED BY <1>2, <2>1, <2>2, <2>3, <2>4, <2>5, StepServes
<1>7. CASE CheckStatus(a, i)
  <2>1. r.status = "RUNNING" /\ Busy(runs[a][i]) /\ UNCHANGED objects
    BY <1>2, <1>7 DEF CheckStatus, Busy
  <2>2. CASE r.sql \in {"FINISHED", "EXISTS"} /\ Becomes(a, i, NextStatement(r))
    <3>1. PICK q \in RunRecord : q = NextStatement(r) /\ q.hash = r.hash BY NextTyped
    <3>2. ASSUME Serves(r, objects[a]) PROVE Serves(q, objects[a])
      <4>1. CASE r.at = Statements
        <5>1. q = [r EXCEPT !.status = "SUCCEEDED"] BY <3>1, <4>1 DEF NextStatement
        <5>2. q.at = r.at /\ q.sql = r.sql BY <5>1 DEF RunRecord
        <5>. QED BY <2>2, <3>1, <3>2, <4>1, <5>2, StillServes
      <4>2. CASE r.at # Statements
        <5>1. q = [r EXCEPT !.at = r.at + 1, !.sql = "none"]
          BY <3>1, <4>2 DEF NextStatement
        <5>2. q.at = r.at + 1 /\ q.sql = "none" /\ q.status = "RUNNING"
          BY <2>1, <5>1 DEF RunRecord
        <5>3. \A s \in 1..Statements : Done(q, s) => Done(r, s)
          BY <1>3, <2>2, <5>2, AppSchemasAssumption DEF Done
        <5>. QED BY <3>1, <3>2, <5>2, <5>3 DEF Serves
      <4>. QED BY <4>1, <4>2
    <3>. QED BY <1>2, <2>1, <2>2, <3>1, <3>2, StepServes
  <2>3. CASE r.sql = "FAILED" /\ Becomes(a, i, [r EXCEPT !.status = "FAILED"])
    <3>1. PICK q : q = [r EXCEPT !.status = "FAILED"] OBVIOUS
    <3>2. /\ q \in RunRecord /\ q.hash = r.hash /\ q.at = r.at /\ q.status = "FAILED"
          /\ q.sql = r.sql
      BY <3>1 DEF RunRecord
    <3>3. Serves(r, objects[a]) => Serves(q, objects[a]) BY <3>2, StillServes
    <3>. QED BY <1>2, <2>1, <2>3, <3>1, <3>2, <3>3, StepServes
  <2>. QED BY <1>2, <1>7, <2>2, <2>3 DEF CheckStatus
<1>8. CASE TimesOut(a, i)
  <2>1. Busy(runs[a][i]) /\ UNCHANGED objects
        /\ Becomes(a, i, [r EXCEPT !.status = "TIMED_OUT"])
    BY <1>2, <1>8 DEF TimesOut, Busy
  <2>2. PICK q : q = [r EXCEPT !.status = "TIMED_OUT"] OBVIOUS
  <2>3. /\ q \in RunRecord /\ q.hash = r.hash /\ q.at = r.at /\ q.status = "TIMED_OUT"
        /\ q.sql = r.sql
    BY <2>2 DEF RunRecord
  <2>4. Serves(r, objects[a]) => Serves(q, objects[a]) BY <2>3, StillServes
  <2>. QED BY <1>2, <2>1, <2>2, <2>3, <2>4, StepServes
<1>. QED BY <1>4, <1>5, <1>6, <1>7, <1>8 DEF RunProceeds

\* An execution that goes on is the latest, and had no statement under way.
LEMMA RedriveServes ==
    ASSUME SchemaTypeOK, ProgressInv, NEW a \in Schema, Redrive(a)
    PROVE  ProgressInv'
<1>1. runs \in [Schema -> Seq(RunRecord)] /\ runs[a] # <<>>
  BY DEF SchemaTypeOK, Redrive, HasFailed
<1>2. PICK n : n = Len(runs[a]) OBVIOUS
<1>3. runs[a] \in Seq(RunRecord) /\ n \in DOMAIN runs[a] BY <1>1, <1>2
<1>4. PICK r \in RunRecord : r = runs[a][n] /\ r.sql = "none"
  BY <1>1, <1>2, <1>3 DEF Redrive, Shown
<1>5. PICK q : q = [r EXCEPT !.status = "RUNNING"] OBVIOUS
<1>6. /\ q \in RunRecord /\ q.hash = r.hash /\ q.at = r.at /\ q.status = "RUNNING"
      /\ q.sql = "none"
  BY <1>4, <1>5 DEF RunRecord
<1>7. PICK f : f = [runs[a] EXCEPT ![n] = q] OBVIOUS
<1>8. runs' = [runs EXCEPT ![a] = f] BY <1>1, <1>2, <1>3, <1>4, <1>5, <1>7 DEF Redrive
<1>9. Len(f) = n /\ DOMAIN f = DOMAIN runs[a] /\ f[n] = q
      /\ \A j \in DOMAIN runs[a] : j # n => f[j] = runs[a][j]
  BY <1>2, <1>3, <1>7
<1>10. runs'[a] = f /\ \A b \in Schema \ {a} : runs'[b] = runs[b] BY <1>1, <1>8
<1>11. /\ overlapped \subseteq overlapped' /\ UNCHANGED objects
       /\ a \notin overlapped' => \A i \in DOMAIN runs[a] : ~Busy(runs[a][i])
  BY DEF Redrive, OperatorActs, NoteOverlap
<1>12. ASSUME a \notin overlapped'
       PROVE  /\ \A j \in DOMAIN f : Busy(f[j]) => j = Len(f)
              /\ Serves(f[Len(f)], objects[a])
  <2>1. \A j \in DOMAIN f : Busy(f[j]) => j = Len(f)
    BY <1>9, <1>11, <1>12 DEF Busy
  <2>2. Serves(r, objects[a])
    BY <1>1, <1>2, <1>4, <1>11, <1>12 DEF ProgressInv, Shown
  <2>3. Serves(q, objects[a]) BY <1>4, <1>6, <2>2, StillServes
  <2>. QED BY <1>9, <2>1, <2>3
<1>. QED BY <1>10, <1>11, <1>12 DEF ProgressInv, Shown

LEMMA ProgressSteps ==
    ASSUME SchemaInv, ProgressInv, [SchemaNext]_schemaVars
    PROVE  ProgressInv'
<1>1. SchemaTypeOK BY DEF SchemaInv
<1>2. CASE UNCHANGED <<runs, objects, overlapped>> BY <1>2, ProgressKept
<1>3. ASSUME NEW a \in Schema, CreateSchemaOf(a) PROVE ProgressInv'
  <2>1. request.to.hash \in 0..Hashes /\ request.to.hash # 0
    BY <1>1, <1>3, RequestFields, PropsFields
       DEF SchemaInv, RequestInv, CreateSchemaOf, Handling, NoRequest
  <2>2. PICK h \in Hash : h = request.to.hash BY <2>1, AppSchemasAssumption DEF Hash
  <2>. QED BY <1>1, <1>3, <2>2, StartedServes DEF CreateSchemaOf
<1>4. ASSUME NEW a \in Schema, RunAgain(a) PROVE ProgressInv'
  <2>1. runs[a] \in Seq(RunRecord) /\ runs[a] # <<>>
    BY <1>1, <1>4 DEF SchemaTypeOK, RunAgain, HasFailed
  <2>2. Shown(a) \in RunRecord
    <3>1. Len(runs[a]) \in 1..Len(runs[a]) BY <2>1
    <3>. QED BY <2>1, <3>1 DEF Shown
  <2>3. PICK h \in Hash : h = Shown(a).hash BY <2>2, RunFields
  <2>. QED BY <1>1, <1>4, <2>3, StartedServes DEF RunAgain, OperatorActs
<1>. QED BY <1>1, <1>2, <1>3, <1>4, RunServes, RedriveServes
     DEF SchemaNext, CreateStack, UpdateStack, StackRequest, DeleteStack, CreateDatabase,
         StackCompletes, StackOperationFails, schemaVars

\* When the execution that is shown for an application of the stack has
\* succeeded, all that the application needs is there, as the SQL of the stack
\* defines it where it could be replaced; unless two executions of the
\* application ran at a time, for any statements, versions, operations, reruns
\* and failures.
THEOREM SucceededIsUpToDate == SchemaSpec => []SchemasUpToDate
<1>1. SchemaInit => ProgressInv BY DEF SchemaInit, ProgressInv
<1>2. SchemaInv /\ ProgressInv /\ [SchemaNext]_schemaVars => ProgressInv'
  BY ProgressSteps
<1>3. SchemaInv /\ ProgressInv => SchemasUpToDate
  <2>. SUFFICES ASSUME SchemaInv, ProgressInv, ~Handling, NEW a \in stack.apps \ overlapped,
                       runs[a] # <<>>, Shown(a).status = "SUCCEEDED",
                       NEW s \in 1..Statements
                PROVE  objects[a][s] # 0 /\ (s \in Replacing => objects[a][s] = stack.hash)
    BY DEF SchemasUpToDate
  <2>1. a \in Schema BY PropsFields DEF SchemaInv, SchemaTypeOK
  <2>2. Shown(a).hash = stack.hash BY DEF SchemaInv, ShownIsDeployed
  <2>3. Serves(Shown(a), objects[a]) BY <2>1 DEF ProgressInv
  <2>4. Done(Shown(a), s)
    <3>1. Shown(a).at = Statements /\ Shown(a).sql \in {"FINISHED", "EXISTS"}
      BY <2>3 DEF Serves
    <3>. QED BY <3>1, AppSchemasAssumption DEF Done
  <2>. QED BY <2>2, <2>3, <2>4 DEF Serves
<1>. QED BY <1>1, <1>2, <1>3, SchemaInvHolds, PTL DEF SchemaSpec
=============================================================================
