--------------------------- MODULE PipelineProofs ---------------------------
(***************************************************************************)
(* Seven theorems, for any numbers of stacks, applications, clients,       *)
(* listeners and executions.                                               *)
(*                                                                         *)
(* NoUpdateLost: the version condition loses no accepted update, with      *)
(* reads that lag, listeners of any speed and requests that overlap or     *)
(* die.  PipelineTypeCorrect: the variables keep their types.              *)
(*                                                                         *)
(* ExecutionsFollow and DeletedWhenGone: when requests follow one another  *)
(* and listeners keep up, the status that a request reads tells it of an   *)
(* execution that runs, and of a stack that is left.  The assumption is    *)
(* Calm: without it an old record may be written over the newer one.  In   *)
(* these two and the next two a deletion may be the project's, or come by  *)
(* DELETE /pipeline/:id at a status at which the project's would begin     *)
(* too; what follows an abrupt one, which the route does not refuse, they  *)
(* do not speak of (~abrupt in the properties).                            *)
(* StatusSettles: at rest the item then tells the outcome of the last      *)
(* execution and of every stack, as long as attempts are not exhausted     *)
(* (Ample).  ActiveServesApps: Calm again, what shows Active was deployed  *)
(* with the registered applications.                                       *)
(*                                                                         *)
(* NewPipelineReady: a pipeline that is only created and looked at shows   *)
(* Active no sooner than its stacks are complete, without Calm (Looking).  *)
(***************************************************************************)
EXTENDS PipelineStatus, FiniteSetTheorems, TLAPS

\* A record with the fields of an item, whatever their values.
IsItem(i) ==
    i = [phase |-> i.phase, at |-> i.at, ver |-> i.ver, exec |-> i.exec,
         status |-> i.status, stacks |-> i.stacks, action |-> i.action,
         apps |-> i.apps, edits |-> i.edits]

IsRequest(r) == r = [pc |-> r.pc, kind |-> r.kind, apps |-> r.apps, item |-> r.item]

\* Record i was copied from the item when it was at version i.ver.
CopyOf(i, current) ==
    /\ IsItem(i) /\ i.ver \in Nat
    /\ i.ver <= current.ver
    /\ i.ver = current.ver => i.edits = current.edits

Edits(r) == r.pc = "write" /\ r.kind \in {"update", "upgrade"}

\* What a request holds is a copy, to which an update has added itself.
RequestOK(r, current) ==
    /\ IsRequest(r)
    /\ r.kind \in RequestKinds
    /\ IsItem(r.item) /\ r.item.ver \in Nat
    /\ r.item.ver <= current.ver
    /\ ~Edits(r) => CopyOf(r.item, current)
    /\ Edits(r) /\ r.item.ver = current.ver =>
          r.item.edits = current.edits \cup {r.item.exec}
    /\ r.pc = "write" /\ r.kind = "create" => r.item.ver = 0 /\ r.item.edits = {}

\* A version is the name of a set of edits.
VersionInv ==
    /\ IsItem(item) /\ item.ver \in Nat
    /\ item.ver = 0 => item.edits = {}
    /\ item.phase = "none" => item.ver = 0
    /\ NoEditLost
    /\ CopyOf(image, item)
    /\ client = [c \in Client |-> client[c]]
    /\ \A c \in Client : RequestOK(client[c], item)

-----------------------------------------------------------------------------
(* Changes of an item.                                                     *)

LEMMA BlankItem == IsItem(Blank) /\ Blank.ver = 0 /\ Blank.edits = {} /\ Blank.phase = "none"
BY DEF IsItem, Blank

\* Item i with a field other than version and edits replaced by v.
Replaced(i, v) ==
    {[i EXCEPT !.phase = v], [i EXCEPT !.at = v], [i EXCEPT !.exec = v],
     [i EXCEPT !.status = v], [i EXCEPT !.stacks = v],
     [i EXCEPT !.action = v], [i EXCEPT !.apps = v]}

\* What replacing one field keeps.
LEMMA OtherFields ==
    ASSUME NEW i, IsItem(i), NEW v
    PROVE  \A j \in Replaced(i, v) : IsItem(j) /\ j.ver = i.ver /\ j.edits = i.edits
BY DEF IsItem, Replaced

LEMMA PhaseKept ==
    ASSUME NEW i, IsItem(i), NEW v
    PROVE  \A j \in {[i EXCEPT !.at = v], [i EXCEPT !.exec = v],
                     [i EXCEPT !.status = v], [i EXCEPT !.stacks = v]} : j.phase = i.phase
BY DEF IsItem

LEMMA PhaseField ==
    ASSUME NEW i, IsItem(i), NEW v
    PROVE  [i EXCEPT !.phase = v].phase = v
BY DEF IsItem

LEMMA ExecField ==
    ASSUME NEW i, IsItem(i), NEW v
    PROVE  [i EXCEPT !.exec = v].exec = v /\ [i EXCEPT !.status = v].exec = i.exec
BY DEF IsItem

LEMMA VersionField ==
    ASSUME NEW i, IsItem(i), NEW v
    PROVE  \A j \in {[i EXCEPT !.ver = v]} :
              IsItem(j) /\ j.ver = v /\ j.edits = i.edits /\ j.phase = i.phase
BY DEF IsItem

LEMMA EditsField ==
    ASSUME NEW i, IsItem(i), NEW v
    PROVE  \A j \in {[i EXCEPT !.edits = v]} : IsItem(j) /\ j.ver = i.ver /\ j.edits = v
BY DEF IsItem

-----------------------------------------------------------------------------
(* What steps of the item and of a request keep of each other.             *)

\* A copy stays a copy when the item changes but not its version or edits.
LEMMA CopyKept ==
    ASSUME NEW i, NEW old, CopyOf(i, old), NEW new, new.ver = old.ver, new.edits = old.edits
    PROVE  CopyOf(i, new)
BY Zenon DEF CopyOf

LEMMA RequestKept ==
    ASSUME NEW r, NEW old, RequestOK(r, old), NEW new, new.ver = old.ver, new.edits = old.edits
    PROVE  RequestOK(r, new)
BY CopyKept, Zenon DEF RequestOK

\* A new version is above every copy.
LEMMA CopyOlder ==
    ASSUME NEW i, NEW old, CopyOf(i, old), old.ver \in Nat, NEW new, new.ver = old.ver + 1
    PROVE  CopyOf(i, new)
<1>1. i.ver \in Nat /\ i.ver <= old.ver /\ IsItem(i)  BY DEF CopyOf
<1>2. i.ver <= new.ver /\ i.ver # new.ver  BY <1>1
<1>3. QED  BY <1>1, <1>2, Zenon DEF CopyOf

LEMMA RequestOlder ==
    ASSUME NEW r, NEW old, RequestOK(r, old), old.ver \in Nat, NEW new, new.ver = old.ver + 1
    PROVE  RequestOK(r, new)
<1>1. r.item.ver \in Nat /\ r.item.ver <= old.ver  BY Zenon DEF RequestOK
<1>2. r.item.ver <= new.ver /\ r.item.ver # new.ver  BY <1>1
<1>3. ~Edits(r) => CopyOf(r.item, new)  BY CopyOlder, Zenon DEF RequestOK
<1>4. QED  BY <1>1, <1>2, <1>3, Zenon DEF RequestOK

\* The blank item is a copy of what it once was.
LEMMA BlankCopy ==
    ASSUME VersionInv
    PROVE  CopyOf(Blank, item)
<1>1. item.ver \in Nat /\ (item.ver = 0 => item.edits = {})  BY Zenon DEF VersionInv
<1>2. 0 \in Nat /\ 0 <= item.ver  BY <1>1
<1>3. QED  BY <1>1, <1>2, BlankItem, Zenon DEF CopyOf

LEMMA IdleOK ==
    ASSUME VersionInv
    PROVE  RequestOK(Idle, item)
<1>1. /\ IsRequest(Idle) /\ Idle.kind = "refresh" /\ Idle.pc = "idle" /\ Idle.item = Blank
  BY Zenon DEF Idle, IsRequest
<1>2. "refresh" \in RequestKinds /\ "idle" # "write"  BY DEF RequestKinds
<1>3. QED  BY <1>1, <1>2, BlankCopy, BlankItem, Zenon DEF RequestOK, CopyOf, Edits

\* A step of one request that leaves the item alone.
LEMMA OneRequest ==
    ASSUME VersionInv, UNCHANGED <<itemVars, accepted>>,
           NEW c \in Client, NEW r, RequestOK(r, item),
           client' = [client EXCEPT ![c] = r]
    PROVE  VersionInv'
<1>1. item' = item /\ image' = image /\ accepted' = accepted  BY DEF itemVars
<1>2. client = [d \in Client |-> client[d]]  BY Zenon DEF VersionInv
<1>3. client' = [d \in Client |-> IF d = c THEN r ELSE client[d]]  BY <1>2
<1>4. client' = [d \in Client |-> client'[d]]  BY <1>3, Zenon
<1>5. \A d \in Client : RequestOK(client'[d], item)  BY <1>3, Zenon DEF VersionInv
<1>6. QED  BY <1>1, <1>4, <1>5, Zenon DEF VersionInv, NoEditLost

\* A write that leaves version and edits alone.
LEMMA OneWrite ==
    ASSUME VersionInv, UNCHANGED accepted, NEW new,
           IsItem(new), new.ver = item.ver, new.edits = item.edits,
           new.phase = "none" => item.phase = "none",
           Store(new),
           client' = [c \in Client |-> client'[c]],
           \A c \in Client : client'[c] = client[c] \/ RequestOK(client'[c], item)
    PROVE  VersionInv'
<1>1. item' = new /\ (image' = image \/ image' = new)  BY Zenon DEF Store
<1>2. CopyOf(image, new)  BY CopyKept, Zenon DEF VersionInv
<1>3. new.ver \in Nat  BY Zenon DEF VersionInv
<1>4. CopyOf(new, new)  BY <1>3 DEF CopyOf
<1>5. \A c \in Client : RequestOK(client'[c], new)  BY RequestKept, Zenon DEF VersionInv
<1>6. QED  BY <1>1, <1>2, <1>3, <1>4, <1>5, Zenon DEF VersionInv, NoEditLost

\* A copy with another field replaced is a copy.
LEMMA CopyField ==
    ASSUME NEW i, NEW current, CopyOf(i, current), NEW v
    PROVE  \A j \in Replaced(i, v) : CopyOf(j, current)
<1>1. IsItem(i)  BY Zenon DEF CopyOf
<1>2. \A j \in Replaced(i, v) : IsItem(j) /\ j.ver = i.ver /\ j.edits = i.edits
  BY <1>1, OtherFields, Zenon
<1>3. QED  BY <1>2, Zenon DEF CopyOf

\* A request that does not write an update holds a copy.
LEMMA CopyRequest ==
    ASSUME NEW current, NEW pc, NEW kind \in RequestKinds, NEW S, NEW i, CopyOf(i, current),
           pc = "write" => kind \notin {"create", "update", "upgrade"}
    PROVE  RequestOK([pc |-> pc, kind |-> kind, apps |-> S, item |-> i], current)
<1> DEFINE r == [pc |-> pc, kind |-> kind, apps |-> S, item |-> i]
<1>1. IsRequest(r) /\ r.pc = pc /\ r.kind = kind /\ r.item = i  BY Zenon DEF IsRequest
<1>2. ~Edits(r) /\ ~(r.pc = "write" /\ r.kind = "create")  BY <1>1, Zenon DEF Edits
<1> HIDE DEF r
<1>3. RequestOK(r, current)  BY <1>1, <1>2, Zenon DEF RequestOK, CopyOf
<1>4. QED  BY <1>3, Zenon DEF r

LEMMA ReadKeeps ==
    ASSUME VersionInv, NEW c \in Client, NEW kind \in RequestKinds \ {"create", "update"},
           Begin(c, kind)
    PROVE  VersionInv'
<1>1. kind \in RequestKinds /\ kind # "create" /\ kind # "update"  OBVIOUS
<1>2. CopyOf(Kept(kind), item)
  <2>1. CopyOf(image, item)  BY Zenon DEF VersionInv
  <2>2. CASE kind \in {"refresh", "force"}  BY <2>1, <2>2, Zenon DEF Kept
  <2>3. CASE kind \notin {"refresh", "force"}
    <3> DEFINE i1 == [image EXCEPT !.exec = 0]
               i2 == [i1 EXCEPT !.status = "RUNNING"]
               i3 == [i2 EXCEPT !.at = IF kind = "retry" THEN @ ELSE Never]
    <3>1. CopyOf(i1, item)  BY <2>1, CopyField, Zenon DEF Replaced
    <3>2. CopyOf(i2, item)  BY <3>1, CopyField, Zenon DEF Replaced
    <3>3. CopyOf(i3, item)  BY <3>2, CopyField, Zenon DEF Replaced
    <3>4. Kept(kind) = i3  BY <2>3, Zenon DEF Kept
    <3>5. QED  BY <3>3, <3>4, Zenon
  <2>4. QED  BY <2>2, <2>3, Zenon
<1>3. PICK S : client' = [client EXCEPT ![c] =
                 [pc |-> IF kind = "refresh" THEN "write" ELSE "checked",
                  kind |-> kind, apps |-> S, item |-> Kept(kind)]]
  BY Zenon DEF Begin
<1>4. (IF kind = "refresh" THEN "write" ELSE "checked") = "write"
          => kind \notin {"create", "update", "upgrade"}
  OBVIOUS
<1>5. RequestOK([pc |-> IF kind = "refresh" THEN "write" ELSE "checked",
                 kind |-> kind, apps |-> S, item |-> Kept(kind)], item)
  BY <1>1, <1>2, <1>4, CopyRequest, Zenon
<1>6. UNCHANGED <<itemVars, accepted>>  BY Zenon DEF Begin
<1>7. QED  BY <1>3, <1>5, <1>6, OneRequest, Zenon

LEMMA LoadFormKeeps ==
    ASSUME VersionInv, NEW c \in Client, LoadForm(c)
    PROVE  VersionInv'
<1> DEFINE i1 == [image EXCEPT !.exec = 0]
           i2 == [i1 EXCEPT !.status = "RUNNING"]
           i3 == [i2 EXCEPT !.at = Never]
           r == [pc |-> "form", kind |-> "update", apps |-> {}, item |-> Kept("update")]
<1>1. CopyOf(image, item)  BY Zenon DEF VersionInv
<1>2. CopyOf(i1, item)  BY <1>1, CopyField, Zenon DEF Replaced
<1>3. CopyOf(i2, item)  BY <1>2, CopyField, Zenon DEF Replaced
<1>4. CopyOf(i3, item)  BY <1>3, CopyField, Zenon DEF Replaced
<1>5. Kept("update") = i3  BY Zenon DEF Kept
<1>6. CopyOf(Kept("update"), item)  BY <1>4, <1>5, Zenon
<1>7. "update" \in RequestKinds /\ "form" # "write"  BY DEF RequestKinds
<1>8. RequestOK(r, item)  BY <1>6, <1>7, CopyRequest, Zenon
<1>9. client' = [client EXCEPT ![c] = r] /\ UNCHANGED <<itemVars, accepted>>
  BY Zenon DEF LoadForm, history
<1>10. QED  BY <1>8, <1>9, OneRequest, Zenon

LEMMA SubmitFormKeeps ==
    ASSUME VersionInv, NEW c \in Client, SubmitForm(c)
    PROVE  VersionInv'
<1> DEFINE S == IF image.apps # apps THEN apps ELSE client[c].item.apps
           r == [pc |-> "checked", kind |-> "update", item |-> client[c].item, apps |-> S]
<1>1. RequestOK(client[c], item) /\ client[c].pc = "form"  BY Zenon DEF VersionInv, SubmitForm
<1>2. ~Edits(client[c])  BY <1>1, Zenon DEF Edits
<1>3. CopyOf(client[c].item, item)  BY <1>1, <1>2, Zenon DEF RequestOK
<1>4. "update" \in RequestKinds /\ "checked" # "write"  BY DEF RequestKinds
<1>5. RequestOK(r, item)  BY <1>3, <1>4, CopyRequest, Zenon
<1>6. client' = [client EXCEPT ![c] = r]
  <2>1. client = [d \in Client |-> client[d]]  BY Zenon DEF VersionInv
  <2>2. QED  BY <2>1, Zenon DEF SubmitForm
<1>7. UNCHANGED <<itemVars, accepted>>  BY Zenon DEF SubmitForm, history
<1>8. QED  BY <1>5, <1>6, <1>7, OneRequest, Zenon

LEMMA ObserveKeeps ==
    ASSUME VersionInv, NEW c \in Client, Observe(c)
    PROVE  VersionInv'
<1> DEFINE old == client[c].item
           seen == IF old.exec = 0 THEN "SUCCEEDED" ELSE exec[old.exec].status
           i1 == [old EXCEPT !.status = seen]
           i2 == [i1 EXCEPT !.stacks = ById(old.stacks)]
           r == [pc |-> "write", kind |-> "force", apps |-> client[c].apps, item |-> i2]
<1>1. RequestOK(client[c], item) /\ client[c].pc = "checked"
  BY Zenon DEF VersionInv, Observe
<1>2. ~Edits(client[c])  BY <1>1, Zenon DEF Edits
<1>3. CopyOf(old, item)  BY <1>1, <1>2, Zenon DEF RequestOK
<1>4. CopyOf(i1, item)  BY <1>3, CopyField, Zenon DEF Replaced
<1>5. CopyOf(i2, item)  BY <1>4, CopyField, Zenon DEF Replaced
<1>6. "force" \in RequestKinds /\ "force" \notin {"create", "update", "upgrade"}
  BY DEF RequestKinds
<1>7. RequestOK(r, item)  BY <1>5, <1>6, CopyRequest, Zenon
<1>8. client' = [client EXCEPT ![c] = r]
  <2>1. client = [d \in Client |-> client[d]]  BY Zenon DEF VersionInv
  <2>2. QED  BY <2>1, Zenon DEF Observe
<1>9. UNCHANGED <<itemVars, accepted>>  BY Zenon DEF Observe, history
<1>10. QED  BY <1>7, <1>8, <1>9, OneRequest, Zenon

\* Starting an execution, for a record that is as its kind of request needs it.
LEMMA LaunchKeeps ==
    ASSUME VersionInv, NEW c \in Client, NEW x, NEW plan, NEW kind \in RequestKinds, NEW S, NEW i,
           Launch(c, x, plan, kind, S, i),
           IsItem(i), i.ver \in Nat, i.ver <= item.ver,
           kind \notin {"update", "upgrade"} => CopyOf(i, item),
           kind \in {"update", "upgrade"} /\ i.ver = item.ver => i.edits = item.edits \cup {x},
           kind = "create" => i.ver = 0 /\ i.edits = {}
    PROVE  VersionInv'
<1> DEFINE i1 == [i EXCEPT !.exec = x]
           i2 == [i1 EXCEPT !.status = "RUNNING"]
           r == [pc |-> "write", kind |-> kind, apps |-> S, item |-> i2]
<1>1. IsItem(i1) /\ i1.ver = i.ver /\ i1.edits = i.edits
  BY OtherFields, Zenon DEF Replaced
<1>2. IsItem(i2) /\ i2.ver = i1.ver /\ i2.edits = i1.edits
  BY <1>1, OtherFields, Zenon DEF Replaced
<1>3. i1.exec = x /\ i2.exec = i1.exec  BY <1>1, ExecField, Zenon
<1>4. IsRequest(r) /\ r.kind = kind /\ r.pc = "write" /\ r.item = i2  BY Zenon DEF IsRequest
<1>5. client' = [client EXCEPT ![c] = r]  BY Zenon DEF Launch
<1>6. UNCHANGED <<itemVars, accepted>>  BY Zenon DEF Launch, history
<1> HIDE DEF i1, i2, r
<1>7. Edits(r) <=> kind \in {"update", "upgrade"}  BY <1>4, Zenon DEF Edits
<1>8. kind \notin {"update", "upgrade"} => CopyOf(i2, item)  BY <1>1, <1>2, Zenon DEF CopyOf
<1>9. RequestOK(r, item)  BY <1>1, <1>2, <1>3, <1>4, <1>7, <1>8, Zenon DEF RequestOK
<1>10. QED  BY <1>5, <1>6, <1>9, OneRequest, Zenon

LEMMA CreateKeeps ==
    ASSUME VersionInv, NEW c \in Client, NEW x, Create(c, x)
    PROVE  VersionInv'
<1> DEFINE i1 == [Blank EXCEPT !.phase = "live"]
           i2 == [i1 EXCEPT !.apps = apps]
<1>1. IsItem(i1) /\ i1.ver = Blank.ver /\ i1.edits = Blank.edits
  BY BlankItem, OtherFields, Zenon DEF Replaced
<1>2. IsItem(i2) /\ i2.ver = i1.ver /\ i2.edits = i1.edits
  BY <1>1, OtherFields, Zenon DEF Replaced
<1>3. Launch(c, x, CreatePlan, "create", apps, i2)  BY Zenon DEF Create
<1> HIDE DEF i1, i2
<1>4. CopyOf(i2, item)  BY <1>1, <1>2, BlankCopy, BlankItem, Zenon DEF CopyOf
<1>5. "create" \in RequestKinds /\ "create" \notin {"update", "upgrade"}  BY DEF RequestKinds
<1>6. i2.ver \in Nat /\ i2.ver <= item.ver  BY <1>4, Zenon DEF CopyOf
<1>7. IsItem(i2) /\ i2.ver = 0 /\ i2.edits = {}  BY <1>1, <1>2, BlankItem, Zenon
<1>8. QED  BY <1>3, <1>4, <1>5, <1>6, <1>7, LaunchKeeps, Zenon

\* What a request read is a copy when it comes to start an execution.
LEMMA CheckedCopy ==
    ASSUME VersionInv, NEW c \in Client, NEW kind, Checked(c, kind)
    PROVE  CopyOf(client[c].item, item)
<1>1. RequestOK(client[c], item) /\ client[c].pc = "checked"
  BY Zenon DEF VersionInv, Checked
<1>2. ~Edits(client[c])  BY <1>1, Zenon DEF Edits
<1>3. QED  BY <1>1, <1>2, Zenon DEF RequestOK

\* Operations that are not edits.
LEMMA PlainKeeps ==
    ASSUME VersionInv, NEW c \in Client, NEW x,
           UpdateApp(c, x) \/ Delete(c, x) \/ Retry(c, x)
    PROVE  VersionInv'
<1> DEFINE old == client[c].item
<1>0. {"app", "delete", "retry"} \subseteq RequestKinds \ {"create", "update", "upgrade"}
  BY DEF RequestKinds
<1>1. ASSUME NEW plan, NEW kind \in {"app", "delete", "retry"}, NEW S, NEW i,
             Launch(c, x, plan, kind, S, i), CopyOf(i, item)
      PROVE  VersionInv'
  <2>1. kind \in RequestKinds /\ kind \notin {"create", "update", "upgrade"}  BY <1>0, <1>1
  <2>2. IsItem(i) /\ i.ver \in Nat /\ i.ver <= item.ver  BY <1>1, Zenon DEF CopyOf
  <2>3. QED  BY <1>1, <2>1, <2>2, LaunchKeeps, Zenon
<1>2. CASE UpdateApp(c, x)
  <2> DEFINE i1 == [old EXCEPT !.action = "Update"]
             i2 == [i1 EXCEPT !.apps = client[c].apps]
  <2>1. CopyOf(old, item)  BY <1>2, CheckedCopy, Zenon DEF UpdateApp
  <2>2. CopyOf(i1, item)  BY <2>1, CopyField, Zenon DEF Replaced
  <2>3. CopyOf(i2, item)  BY <2>2, CopyField, Zenon DEF Replaced
  <2>4. Launch(c, x, AppPlan, "app", client[c].apps, i2)  BY <1>2, Zenon DEF UpdateApp
  <2>5. QED  BY <1>1, <2>3, <2>4, Zenon
<1>3. CASE Delete(c, x)
  <2> DEFINE i1 == [old EXCEPT !.action = "Delete"]
             i2 == [i1 EXCEPT !.stacks = ByName]
  <2>1. CopyOf(old, item)  BY <1>3, CheckedCopy, Zenon DEF Delete
  <2>2. CopyOf(i1, item)  BY <2>1, CopyField, Zenon DEF Replaced
  <2>3. CopyOf(i2, item)  BY <2>2, CopyField, Zenon DEF Replaced
  <2>4. Launch(c, x, DeletePlan, "delete", apps, i2)  BY <1>3, Zenon DEF Delete
  <2>5. QED  BY <1>1, <2>3, <2>4, Zenon
<1>4. CASE Retry(c, x)
  <2>1. CopyOf(old, item)  BY <1>4, CheckedCopy, Zenon DEF Retry
  <2>2. Launch(c, x, RetryPlan(old.stacks), "retry", apps, old)  BY <1>4, Zenon DEF Retry
  <2>3. QED  BY <1>1, <2>1, <2>2, Zenon
<1>5. QED  BY <1>2, <1>3, <1>4

\* Operations that are edits: the record gains the execution it starts.
LEMMA EditKeeps ==
    ASSUME VersionInv, NEW c \in Client, NEW x, Update(c, x) \/ Upgrade(c, x)
    PROVE  VersionInv'
<1> DEFINE old == client[c].item
<1>1. ASSUME NEW plan, NEW kind \in {"update", "upgrade"}, NEW action, NEW S,
             CopyOf(old, item),
             Launch(c, x, plan, kind, apps, [old EXCEPT !.action = action, !.apps = S,
                                                         !.edits = @ \cup {x}])
      PROVE  VersionInv'
  <2> DEFINE i1 == [old EXCEPT !.action = action]
             i2 == [i1 EXCEPT !.apps = S]
             i3 == [i2 EXCEPT !.edits = old.edits \cup {x}]
  <2>1. CopyOf(i1, item) /\ i1.edits = old.edits
    <3>1. CopyOf(i1, item)  BY <1>1, CopyField, Zenon DEF Replaced
    <3>2. i1.edits = old.edits  BY <1>1, OtherFields, Zenon DEF Replaced, CopyOf
    <3>3. QED  BY <3>1, <3>2
  <2>2. CopyOf(i2, item) /\ i2.edits = i1.edits
    <3>1. CopyOf(i2, item)  BY <2>1, CopyField, Zenon DEF Replaced
    <3>2. i2.edits = i1.edits  BY <2>1, OtherFields, Zenon DEF Replaced, CopyOf
    <3>3. QED  BY <3>1, <3>2
  <2>3. IsItem(i3) /\ i3.ver = i2.ver /\ i3.edits = old.edits \cup {x}
    BY <2>2, EditsField, Zenon DEF CopyOf
  <2>4. Launch(c, x, plan, kind, apps, i3)
    <3>1. i3 = [i2 EXCEPT !.edits = i2.edits \cup {x}]  BY <2>1, <2>2, Zenon
    <3>2. [old EXCEPT !.action = action, !.apps = S, !.edits = @ \cup {x}]
             = [i2 EXCEPT !.edits = old.edits \cup {x}]
      BY <2>1, <2>2, Zenon
    <3>3. QED  BY <1>1, <3>1, <3>2, Zenon
  <2> HIDE DEF i1, i2, i3
  <2>5. i3.ver \in Nat /\ i3.ver <= item.ver  BY <2>2, <2>3, Zenon DEF CopyOf
  <2>6. i3.ver = item.ver => i3.edits = item.edits \cup {x}
    BY <2>1, <2>2, <2>3, Zenon DEF CopyOf
  <2>7. kind \in RequestKinds /\ kind # "create"  BY DEF RequestKinds
  <2>8. QED  BY <2>3, <2>4, <2>5, <2>6, <2>7, LaunchKeeps, Zenon
<1>2. CASE Update(c, x)
  <2>1. CopyOf(old, item)  BY <1>2, CheckedCopy, Zenon DEF Update
  <2>2. PICK plan : Launch(c, x, plan, "update", apps,
                      [old EXCEPT !.action = "Update", !.apps = client[c].apps,
                                  !.edits = @ \cup {x}])
    BY <1>2, Zenon DEF Update
  <2>3. QED  BY <1>1, <2>1, <2>2, Zenon
<1>3. CASE Upgrade(c, x)
  <2>1. CopyOf(old, item)  BY <1>3, CheckedCopy, Zenon DEF Upgrade
  <2>2. Launch(c, x, UpgradePlan, "upgrade", apps,
                      [old EXCEPT !.action = "Upgrade", !.apps = apps, !.edits = @ \cup {x}])
    BY <1>3, Zenon DEF Upgrade
  <2>3. QED  BY <1>1, <2>1, <2>2, Zenon
<1>4. QED  BY <1>2, <1>3

-----------------------------------------------------------------------------
(* Writes of the item.                                                     *)

LEMMA StampedIsStored ==
    ASSUME NEW i, Stamped(i)
    PROVE  \E t : Store([i EXCEPT !.at = t])
BY Zenon DEF Stamped

\* A stamped write that leaves version and edits alone.
LEMMA OneStampedWrite ==
    ASSUME VersionInv, UNCHANGED accepted, NEW new,
           IsItem(new), new.ver = item.ver, new.edits = item.edits,
           new.phase = "none" => item.phase = "none",
           Stamped(new),
           client' = [c \in Client |-> client'[c]],
           \A c \in Client : client'[c] = client[c] \/ RequestOK(client'[c], item)
    PROVE  VersionInv'
<1>1. PICK t : Store([new EXCEPT !.at = t])  BY StampedIsStored, Zenon
<1> DEFINE i == [new EXCEPT !.at = t]
<1>2. IsItem(i) /\ i.ver = new.ver /\ i.edits = new.edits  BY OtherFields, Zenon DEF Replaced
<1>3. i.phase = new.phase  BY PhaseKept, Zenon
<1>4. Store(i)  BY <1>1
<1> HIDE DEF i
<1>5. QED  BY <1>2, <1>3, <1>4, OneWrite, Zenon

\* What is left of a request after its write.
LEMMA AfterWrite ==
    ASSUME VersionInv, NEW c \in Client,
           client' = [client EXCEPT ![c] = Idle]
           \/ client' = [client EXCEPT ![c] = [pc |-> "register", kind |-> "app",
                                               apps |-> client[c].apps, item |-> Blank]]
    PROVE  /\ client' = [d \in Client |-> client'[d]]
           /\ \A d \in Client : client'[d] = client[d] \/ RequestOK(client'[d], item)
<1> DEFINE r == [pc |-> "register", kind |-> "app", apps |-> client[c].apps, item |-> Blank]
<1>1. client = [d \in Client |-> client[d]]  BY Zenon DEF VersionInv
<1>2. "app" \in RequestKinds /\ "register" # "write"  BY DEF RequestKinds
<1>3. RequestOK(r, item)  BY <1>2, BlankCopy, CopyRequest, Zenon
<1>4. RequestOK(Idle, item)  BY IdleOK
<1>5. PICK s \in {Idle, r} : client' = [client EXCEPT ![c] = s]  BY Zenon
<1>6. client' = [d \in Client |-> IF d = c THEN s ELSE client[d]]  BY <1>1, <1>5, Zenon
<1>7. RequestOK(s, item)  BY <1>3, <1>4, <1>5, Zenon
<1>8. QED  BY <1>6, <1>7, Zenon

LEMMA WriteKeeps ==
    ASSUME VersionInv, NEW c \in Client, Write(c)
    PROVE  VersionInv'
<1> DEFINE kind == client[c].kind
           old == client[c].item
           new == [old EXCEPT !.phase = item.phase]
<1>1. /\ RequestOK(client[c], item) /\ client[c].pc = "write" /\ kind # "create"
      /\ item.phase # "none" /\ item.ver = old.ver
  BY Zenon DEF VersionInv, Write, SameVersion
<1>2. IsItem(old) /\ kind \in RequestKinds  BY <1>1, Zenon DEF RequestOK
<1>3. IsItem(new) /\ new.ver = old.ver /\ new.edits = old.edits
  BY <1>2, OtherFields, Zenon DEF Replaced
<1>4. new.phase = item.phase  BY <1>2, PhaseField, Zenon
<1>5. new.exec = old.exec  BY <1>2 DEF IsItem
<1>6. /\ client' = [d \in Client |-> client'[d]]
      /\ \A d \in Client : client'[d] = client[d] \/ RequestOK(client'[d], item)
  <2>1. client = [d \in Client |-> client[d]]  BY Zenon DEF VersionInv
  <2>2. client' = [client EXCEPT ![c] = Idle]
           \/ client' = [client EXCEPT ![c] = [pc |-> "register", kind |-> "app",
                                               apps |-> client[c].apps, item |-> Blank]]
    BY <2>1, Zenon DEF Write
  <2>3. QED  BY <2>2, AfterWrite, Zenon
<1>7. CASE kind \in {"refresh", "force", "retry", "app", "delete"}
  <2>1. ~Edits(client[c])  BY <1>7, Zenon DEF Edits
  <2>2. CopyOf(old, item)  BY <1>1, <2>1, Zenon DEF RequestOK
  <2>3. new.ver = item.ver /\ new.edits = item.edits  BY <1>1, <1>3, <2>2, Zenon DEF CopyOf
  <2>4. UNCHANGED accepted  BY <1>7, Zenon DEF Write
  <2>5. CASE kind \in {"refresh", "force", "retry"}
    <3>1. Store(new)  BY <2>5, Zenon DEF Write
    <3> HIDE DEF new
    <3>2. QED  BY <1>1, <1>3, <1>4, <1>6, <2>3, <2>4, <3>1, OneWrite, Zenon
  <2>6. CASE kind \in {"app", "delete"}
    <3>1. Stamped(new)  BY <2>6, Zenon DEF Write
    <3> HIDE DEF new
    <3>2. QED  BY <1>1, <1>3, <1>4, <1>6, <2>3, <2>4, <3>1, OneStampedWrite, Zenon
  <2>7. QED  BY <1>7, <2>5, <2>6
<1>8. CASE kind \in {"update", "upgrade"}
  <2> DEFINE next == [new EXCEPT !.ver = new.ver + 1]
  <2>1. Edits(client[c])  BY <1>1, <1>8, Zenon DEF Edits
  <2>2. old.edits = item.edits \cup {old.exec}  BY <1>1, <2>1, Zenon DEF RequestOK
  <2>3. accepted' = accepted \cup {new.exec}  BY <1>8, Zenon DEF Write
  <2>4. Stamped(next)  BY <1>8, Zenon DEF Write
  <2>5. IsItem(next) /\ next.ver = new.ver + 1 /\ next.edits = new.edits /\ next.phase = new.phase
    BY <1>3, VersionField, Zenon
  <2>6. PICK t : Store([next EXCEPT !.at = t])  BY <2>4, StampedIsStored, Zenon
  <2> DEFINE i == [next EXCEPT !.at = t]
  <2>7. IsItem(i) /\ i.ver = next.ver /\ i.edits = next.edits
    BY <2>5, OtherFields, Zenon DEF Replaced
  <2>8. i.phase = next.phase  BY <2>5, PhaseKept, Zenon
  <2>9. item' = i /\ (image' = image \/ image' = i)  BY <2>6, Zenon DEF Store
  <2> HIDE DEF new, next, i
  <2>10. item.ver \in Nat /\ i.ver = item.ver + 1  BY <1>1, <1>3, <2>5, <2>7, Zenon DEF VersionInv
  <2>11. i.ver \in Nat /\ i.ver # 0 /\ i.ver <= i.ver  BY <2>10
  <2>12. CopyOf(image, i)  BY <2>10, CopyOlder, Zenon DEF VersionInv
  <2>13. CopyOf(i, i)  BY <2>7, <2>11, Zenon DEF CopyOf
  <2>14. \A d \in Client : RequestOK(client'[d], i)
    <3>1. \A d \in Client : RequestOK(client'[d], item)  BY <1>6, Zenon DEF VersionInv
    <3>2. QED  BY <2>10, <3>1, RequestOlder, Zenon
  <2>15. i.phase # "none"  BY <1>1, <1>4, <2>5, <2>8, Zenon
  <2>16. i.edits = accepted'
    BY <1>3, <1>5, <2>2, <2>3, <2>5, <2>7, Zenon DEF VersionInv, NoEditLost
  <2>17. QED
    BY <1>6, <2>7, <2>9, <2>11, <2>12, <2>13, <2>14, <2>15, <2>16, Zenon DEF VersionInv, NoEditLost
<1>9. kind \in {"refresh", "force", "retry", "app", "delete", "update", "upgrade"}
  BY <1>1, <1>2 DEF RequestKinds
<1>10. QED  BY <1>7, <1>8, <1>9

LEMMA AddKeeps ==
    ASSUME VersionInv, NEW c \in Client, Add(c)
    PROVE  VersionInv'
<1> DEFINE new == client[c].item
<1>1. RequestOK(client[c], item) /\ client[c].pc = "write" /\ client[c].kind = "create"
  BY Zenon DEF VersionInv, Add
<1>2. IsItem(new) /\ new.ver = 0 /\ new.edits = {}  BY <1>1, Zenon DEF RequestOK
<1>3. item.phase = "none" /\ item.ver = 0 /\ item.edits = {}  BY Zenon DEF VersionInv, Add
<1>4. Stamped(new) /\ UNCHANGED accepted /\ client' = [client EXCEPT ![c] = Idle]
  BY Zenon DEF Add, history
<1>5. /\ client' = [d \in Client |-> client'[d]]
      /\ \A d \in Client : client'[d] = client[d] \/ RequestOK(client'[d], item)
  BY <1>4, AfterWrite, Zenon
<1>6. QED  BY <1>2, <1>3, <1>4, <1>5, OneStampedWrite, Zenon

\* A listener sets fields of the item that is there.
LEMMA ListenerWrite ==
    ASSUME VersionInv, UNCHANGED <<client, accepted>>, NEW v, NEW w,
           Stamped([item EXCEPT !.stacks = v]) \/ Stamped([item EXCEPT !.exec = w, !.status = v])
    PROVE  VersionInv'
<1> DEFINE i1 == [item EXCEPT !.stacks = v]
           i2 == [item EXCEPT !.exec = w]
           i3 == [i2 EXCEPT !.status = v]
<1>1. IsItem(item) /\ client = [c \in Client |-> client[c]]  BY Zenon DEF VersionInv
<1>2. IsItem(i1) /\ i1.ver = item.ver /\ i1.edits = item.edits
  BY <1>1, OtherFields, Zenon DEF Replaced
<1>3. IsItem(i2) /\ i2.ver = item.ver /\ i2.edits = item.edits
  BY <1>1, OtherFields, Zenon DEF Replaced
<1>4. IsItem(i3) /\ i3.ver = i2.ver /\ i3.edits = i2.edits
  BY <1>3, OtherFields, Zenon DEF Replaced
<1>5. i1.phase = item.phase /\ i2.phase = item.phase /\ i3.phase = i2.phase
  BY <1>1, <1>3, PhaseKept, Zenon
<1>6. Stamped(i1) \/ Stamped(i3)  OBVIOUS
<1>7. client' = [c \in Client |-> client'[c]] /\ \A c \in Client : client'[c] = client[c]
  BY <1>1, Zenon
<1> HIDE DEF i1, i2, i3
<1>8. QED  BY <1>2, <1>3, <1>4, <1>5, <1>6, <1>7, OneStampedWrite, Zenon

LEMMA DeleteProjectKeeps ==
    ASSUME VersionInv, NEW k, DeleteProject(k)
    PROVE  VersionInv'
<1> DEFINE new == [item EXCEPT !.phase = "deleted"]
<1>1. IsItem(item) /\ client = [c \in Client |-> client[c]]  BY Zenon DEF VersionInv
<1>2. IsItem(new) /\ new.ver = item.ver /\ new.edits = item.edits
  BY <1>1, OtherFields, Zenon DEF Replaced
<1>3. new.phase = "deleted"  BY <1>1, PhaseField, Zenon
<1>4. new.phase # "none"  BY <1>3
<1>5. Store(new) /\ UNCHANGED <<client, accepted>>  BY Zenon DEF DeleteProject, history
<1>6. client' = [c \in Client |-> client'[c]] /\ \A c \in Client : client'[c] = client[c]
  BY <1>1, <1>5, Zenon
<1> HIDE DEF new
<1>7. QED  BY <1>2, <1>4, <1>5, <1>6, OneWrite, Zenon

\* A request is given up, or its last step is not a write of the item.
LEMMA EndKeeps ==
    ASSUME VersionInv, NEW c \in Client, Refused(c) \/ Register(c) \/ Die(c)
    PROVE  VersionInv'
<1>1. client' = [client EXCEPT ![c] = Idle] /\ UNCHANGED <<itemVars, accepted>>
  BY Zenon DEF Refused, Register, Die, history
<1>2. QED  BY <1>1, IdleOK, OneRequest, Zenon

LEMMA RequestKeeps ==
    ASSUME VersionInv, NEW c \in Client, Request(c)
    PROVE  VersionInv'
<1>1. CASE (\E kind \in RequestKinds : Read(c, kind)) \/ Remove(c)
  <2>1. PICK kind \in RequestKinds \ {"create", "update"} : Begin(c, kind)
    <3>1. "delete" \in RequestKinds \ {"create", "update"}  BY DEF RequestKinds
    <3> QED  BY <1>1, <3>1, Zenon DEF Read, Remove
  <2> QED  BY <2>1, ReadKeeps
<1>2. CASE LoadForm(c)  BY <1>2, LoadFormKeeps
<1>3. CASE SubmitForm(c)  BY <1>3, SubmitFormKeeps
<1>4. CASE Observe(c)  BY <1>4, ObserveKeeps
<1>5. CASE \E x \in Execution : Create(c, x)  BY <1>5, CreateKeeps, Zenon
<1>6. CASE \E x \in Execution : UpdateApp(c, x) \/ Delete(c, x) \/ Retry(c, x)
  BY <1>6, PlainKeeps, Zenon
<1>7. CASE \E x \in Execution : Update(c, x) \/ Upgrade(c, x)
  BY <1>7, EditKeeps, Zenon
<1>8. CASE Write(c)  BY <1>8, WriteKeeps
<1>9. CASE Add(c)  BY <1>9, AddKeeps
<1>10. CASE Refused(c) \/ Register(c) \/ Die(c)  BY <1>10, EndKeeps
<1>11. QED
  BY <1>1, <1>2, <1>3, <1>4, <1>5, <1>6, <1>7, <1>8, <1>9, <1>10, Zenon DEF Request

\* Steps that touch neither the item nor a request.
LEMMA OtherKeeps ==
    ASSUME VersionInv, UNCHANGED <<itemVars, accepted, client>>
    PROVE  VersionInv'
BY Zenon DEF VersionInv, NoEditLost, itemVars, CopyOf, RequestOK, Edits

LEMMA PropagateKeeps ==
    ASSUME VersionInv, Propagate
    PROVE  VersionInv'
<1>1. UNCHANGED <<item, accepted, client>> /\ image' = item  BY Zenon DEF Propagate, history
<1>2. CopyOf(item, item)
  <2>1. item.ver \in Nat  BY Zenon DEF VersionInv
  <2>2. item.ver <= item.ver  BY <2>1
  <2>3. QED  BY <2>1, <2>2, Zenon DEF VersionInv, CopyOf
<1>3. QED  BY <1>1, <1>2, Zenon DEF VersionInv, NoEditLost

LEMMA StackListenerKeeps ==
    ASSUME VersionInv, NEW w \in Worker, StackListener(w)
    PROVE  VersionInv'
<1>1. CASE RecordStack(w)
  <2>1. Stamped([item EXCEPT !.stacks = worker[w].stacks]) /\ UNCHANGED <<client, accepted>>
    BY <1>1, Zenon DEF RecordStack, history
  <2>2. QED  BY <2>1, ListenerWrite, Zenon
<1>2. CASE ~RecordStack(w)
  <2>1. UNCHANGED <<itemVars, accepted, client>>
    BY <1>2, Zenon DEF StackListener, Describe, Match, RecordStackAgain, history
  <2>2. QED  BY <2>1, OtherKeeps
<1>3. QED  BY <1>1, <1>2

LEMMA StateListenerKeeps ==
    ASSUME VersionInv, NEW k, StateListener(k) \/ Redeliver(k)
    PROVE  VersionInv'
<1>1. CASE RecordStatus(k)
  <2>1. /\ Stamped([item EXCEPT !.exec = k[1], !.status = EventStatus(k)])
        /\ UNCHANGED <<client, accepted>>
    BY <1>1, Zenon DEF RecordStatus, history
  <2>2. QED  BY <2>1, ListenerWrite, Zenon
<1>2. CASE RecordStacks(k)
  <2>1. Stamped([item EXCEPT !.stacks = lis[k].stacks]) /\ UNCHANGED <<client, accepted>>
    BY <1>2, Zenon DEF RecordStacks, history
  <2>2. QED  BY <2>1, ListenerWrite, Zenon
<1>3. CASE DeleteProject(k)  BY <1>3, DeleteProjectKeeps
<1>4. CASE \/ Receive(k) \/ Drop(k) \/ RecordStatusAgain(k) \/ Fetch(k)
           \/ RecordStacksAgain(k) \/ Redeliver(k)
  <2>1. UNCHANGED <<itemVars, accepted, client>>
    BY <1>4, Zenon DEF Receive, Drop, RecordStatusAgain, Fetch, RecordStacksAgain, Redeliver, history
  <2>2. QED  BY <2>1, OtherKeeps
<1>5. QED  BY <1>1, <1>2, <1>3, <1>4, Zenon DEF StateListener

LEMMA ExecutionKeeps ==
    ASSUME VersionInv, NEW x, NEW s,
           \/ Act(x, s) \/ ExecutionSucceeds(x) \/ ExecutionBreaks(x)
           \/ StackDone(s) \/ StackFails(s)
    PROVE  VersionInv'
<1>1. UNCHANGED <<itemVars, accepted, client>>
  <2>1. CASE CreateStack(x, s)  BY <2>1, Zenon DEF CreateStack, history
  <2>2. CASE UpdateStack(x, s)  BY <2>2, Zenon DEF UpdateStack, history
  <2>3. CASE DeleteStack(x, s)  BY <2>3, Zenon DEF DeleteStack, history
  <2>4. CASE DescribeStack(x, s)  BY <2>4, Zenon DEF DescribeStack, history
  <2>5. CASE ActionFails(x, s)  BY <2>5, Zenon DEF ActionFails, history
  <2>6. CASE ExecutionSucceeds(x)  BY <2>6, Zenon DEF ExecutionSucceeds, history
  <2>7. CASE ExecutionBreaks(x)  BY <2>7, Zenon DEF ExecutionBreaks, history
  <2>8. CASE StackDone(s)  BY <2>8, Zenon DEF StackDone, history
  <2>9. CASE StackFails(s)  BY <2>9, Zenon DEF StackFails, history
  <2>10. QED  BY <2>1, <2>2, <2>3, <2>4, <2>5, <2>6, <2>7, <2>8, <2>9, Zenon DEF Act
<1>2. QED  BY <1>1, OtherKeeps

-----------------------------------------------------------------------------
(* The version invariant is inductive.                                     *)

LEMMA VersionInit == Init => VersionInv
<1> SUFFICES ASSUME Init PROVE VersionInv  OBVIOUS
<1>1. item = Blank /\ image = Blank /\ accepted = {} /\ client = [c \in Client |-> Idle]
  BY DEF Init
<1>2. 0 \in Nat /\ 0 <= 0  OBVIOUS
<1>3. CopyOf(Blank, Blank)  BY <1>2, BlankItem, Zenon DEF CopyOf
<1>4. RequestOK(Idle, Blank)
  <2>1. /\ IsRequest(Idle) /\ Idle.kind = "refresh" /\ Idle.pc = "idle" /\ Idle.item = Blank
    BY Zenon DEF Idle, IsRequest
  <2>2. "refresh" \in RequestKinds /\ "idle" # "write"  BY DEF RequestKinds
  <2>3. QED  BY <1>2, <1>3, <2>1, <2>2, BlankItem, Zenon DEF RequestOK, Edits
<1>5. client = [c \in Client |-> client[c]] /\ \A c \in Client : RequestOK(client[c], Blank)
  BY <1>1, <1>4, Zenon
<1>6. QED  BY <1>1, <1>2, <1>3, <1>5, BlankItem, Zenon DEF VersionInv, NoEditLost

LEMMA VersionNext == VersionInv /\ [Next]_vars => VersionInv'
<1> SUFFICES ASSUME VersionInv, [Next]_vars PROVE VersionInv'
  OBVIOUS
<1>1. CASE UNCHANGED vars
  <2>1. UNCHANGED <<itemVars, accepted, client>>  BY <1>1, Zenon DEF vars, itemVars
  <2>2. QED  BY <2>1, OtherKeeps
<1>2. CASE \E c \in Client : Request(c)  BY <1>2, RequestKeeps, Zenon
<1>3. CASE \E x \in Execution, s \in Stack : Act(x, s)  BY <1>3, ExecutionKeeps, Zenon
<1>4. CASE \E x \in Execution : ExecutionSucceeds(x) \/ ExecutionBreaks(x)
  BY <1>4, ExecutionKeeps, Zenon
<1>5. CASE \E s \in Stack : StackDone(s) \/ StackFails(s)  BY <1>5, ExecutionKeeps, Zenon
<1>6. CASE \E w \in Worker : StackListener(w)  BY <1>6, StackListenerKeeps, Zenon
<1>7. CASE \E k \in Execution \X Event : StateListener(k) \/ Redeliver(k)
  BY <1>7, StateListenerKeeps, Zenon
<1>8. CASE Propagate  BY <1>8, PropagateKeeps
<1>9. QED  BY <1>1, <1>2, <1>3, <1>4, <1>5, <1>6, <1>7, <1>8, Zenon DEF Next

\* No accepted update is ever undone by an older record of the item: the
\* version condition of updatePipeline and updatePipelineAtCurrentVersion is
\* enough, whatever overlaps, lags, repeats or dies.
THEOREM NoUpdateLost == Spec => []NoEditLost
<1>1. Init => VersionInv  BY VersionInit
<1>2. VersionInv /\ [Next]_vars => VersionInv'  BY VersionNext
<1>3. VersionInv => NoEditLost  BY Zenon DEF VersionInv
<1>4. QED  BY <1>1, <1>2, <1>3, PTL DEF Spec
-----------------------------------------------------------------------------
(* Types.  A time is stamped on the item that nobody holds: T stands for   *)
(* the set it comes from, which is Time as long as there is one left.      *)

Chosen(S) == CHOOSE e \in S : TRUE

\* The executions that have been started, which are all that items name.
Known == {0} \cup {x \in Execution : exec[x].status # "none"}

Items(T, X) ==
    [phase : {"none", "live", "deleted"}, at : T, ver : Nat,
     exec : X, status : {"RUNNING", "SUCCEEDED", "FAILED"},
     stacks : [Stack -> Recorded], action : {"Create", "Update", "Upgrade", "Delete"},
     apps : SUBSET App, edits : SUBSET Execution]

Stage == {"idle", "form", "checked", "write", "register"}

Requests(T, X) ==
    [Client -> [pc : Stage, kind : RequestKinds, apps : SUBSET App, item : Items(T, X)]]

ExecTyped ==
    exec \in [Execution -> [status : {"none", "RUNNING", "SUCCEEDED", "FAILED"},
                            plan : Plan, apps : SUBSET App]]

StackTyped ==
    /\ cfn \in [Stack -> CfnStatus]
    /\ live \in [Stack -> SUBSET App]
    /\ msgs \in [Stack -> Nat]

WorkerTyped(T, S) ==
    worker \in [Worker -> [pc : {"idle", "described", "write"}, stack : S,
                           seen : Recorded, at : T, tries : 0 .. MaxRetry,
                           stacks : [Stack -> Recorded]]]

Hearing == {"none", "queued", "status", "fetch", "stacks", "delete", "done"}

Hearings(T) ==
    [pc : Hearing, at : T, action : {"Create", "Update", "Upgrade", "Delete"},
     tries : 0 .. MaxRetry, stacks : [Stack -> Recorded]]

ListenerTyped(T) == lis \in [Execution \X Event -> Hearings(T)]

\* Only started executions have events.
EventsKnown == \A k \in Execution \X Event : lis[k].pc # "none" => k[1] \in Known

\* A request that has started an execution writes it.
ExecWritten ==
    \A c \in Client :
        client[c].pc = "write" /\ client[c].kind \notin {"refresh", "force"} =>
            client[c].item.exec \in Execution

Typed(T, S) ==
    /\ item \in Items(T, Known) /\ image \in Items(T, Known)
    /\ client \in Requests(T, Known) /\ ExecWritten
    /\ apps \subseteq App /\ accepted \subseteq Execution
    /\ ExecTyped /\ StackTyped
    /\ WorkerTyped(T, S) /\ ListenerTyped(T) /\ EventsKnown
    /\ mishaps \in Nat

LEMMA BlankTyped ==
    ASSUME NEW T, Never \in T, NEW X, 0 \in X
    PROVE  Blank \in Items(T, X)
<1>1. 0 \in Nat  OBVIOUS
<1>2. [s \in Stack |-> "unlisted"] \in [Stack -> Recorded]  BY DEF Recorded
<1>3. {} \in SUBSET App /\ {} \in SUBSET Execution  OBVIOUS
<1> QED  BY <1>1, <1>2, <1>3, SMT DEF Blank, Items

LEMMA TypedInit ==
    ASSUME PipelineAssumption, NEW T, NEW S, Never \in T, Chosen(Stack) \in S, Init
    PROVE  Typed(T, S)
<1>1. Blank \in Items(T, {0})  BY BlankTyped
<1>2. Blank.stacks \in [Stack -> Recorded]  BY <1>1, SMT DEF Items
<1>3. 0 \in 0 .. MaxRetry  BY DEF PipelineAssumption
<1>4. Idle \in [pc : {"idle", "form", "checked", "write", "register"},
                kind : RequestKinds, apps : SUBSET App, item : Items(T, {0})]
  BY <1>1, SMT DEF Idle, RequestKinds
<1>5. Free \in [pc : {"idle", "described", "write"}, stack : S,
                seen : Recorded, at : T, tries : 0 .. MaxRetry,
                stacks : [Stack -> Recorded]]
  <2>1. "absent" \in Recorded  BY DEF Recorded
  <2>2. Free.stack = Chosen(Stack)  BY Zenon DEF Free, Chosen
  <2>3. Free = [pc |-> "idle", stack |-> Chosen(Stack), seen |-> "absent",
                at |-> Never, tries |-> 0, stacks |-> Blank.stacks]
    BY Zenon DEF Free, Chosen
  <2> QED  BY <1>2, <1>3, <2>1, <2>3, SMT
<1>6. Silent \in Hearings(T)  BY <1>2, <1>3, SMT DEF Silent, Hearings, Hearing
<1>7. Nothing \in Plan  BY DEF Nothing, Plan
<1>14. Known = {0}  BY DEF Init, Known
<1>8. item \in Items(T, Known) /\ image \in Items(T, Known)  BY <1>1, <1>14 DEF Init
<1>9. client \in Requests(T, Known)  BY <1>4, <1>14 DEF Init, Requests, Stage
<1>16. apps \subseteq App /\ accepted \subseteq Execution  BY DEF Init
<1>10. ExecTyped  BY <1>7 DEF Init, ExecTyped
<1>11. StackTyped  BY DEF Init, StackTyped, CfnStatus
<1>12. WorkerTyped(T, S)  BY <1>5 DEF Init, WorkerTyped
<1>13. ListenerTyped(T)  BY <1>6 DEF Init, ListenerTyped
<1>17. ExecWritten  BY DEF Init, ExecWritten, Idle
<1>15. EventsKnown  BY DEF Init, EventsKnown, Silent
<1> QED  BY <1>8, <1>9, <1>10, <1>11, <1>12, <1>13, <1>15, <1>16, <1>17 DEF Init, Typed

\* Replacing a field by a value of its type keeps an item an item.
LEMMA ItemFields ==
    ASSUME NEW T, NEW X, NEW i \in Items(T, X)
    PROVE  /\ \A p \in {"none", "live", "deleted"} : [i EXCEPT !.phase = p] \in Items(T, X)
           /\ \A t \in T : [i EXCEPT !.at = t] \in Items(T, X)
           /\ \A v \in Nat : [i EXCEPT !.ver = v] \in Items(T, X)
           /\ \A x \in X : [i EXCEPT !.exec = x] \in Items(T, X)
           /\ \A s \in {"RUNNING", "SUCCEEDED", "FAILED"} : [i EXCEPT !.status = s] \in Items(T, X)
           /\ \A d \in [Stack -> Recorded] : [i EXCEPT !.stacks = d] \in Items(T, X)
           /\ \A a \in {"Create", "Update", "Upgrade", "Delete"} : [i EXCEPT !.action = a] \in Items(T, X)
           /\ \A A \in SUBSET App : [i EXCEPT !.apps = A] \in Items(T, X)
           /\ \A E \in SUBSET Execution : [i EXCEPT !.edits = E] \in Items(T, X)
<1>1. \A p \in {"none", "live", "deleted"} : [i EXCEPT !.phase = p] \in Items(T, X)  BY SMT DEF Items
<1>2. \A t \in T : [i EXCEPT !.at = t] \in Items(T, X)  BY SMT DEF Items
<1>3. \A v \in Nat : [i EXCEPT !.ver = v] \in Items(T, X)  BY SMT DEF Items
<1>4. \A x \in X : [i EXCEPT !.exec = x] \in Items(T, X)  BY SMT DEF Items
<1>5. \A s \in {"RUNNING", "SUCCEEDED", "FAILED"} : [i EXCEPT !.status = s] \in Items(T, X)  BY SMT DEF Items
<1>6. \A d \in [Stack -> Recorded] : [i EXCEPT !.stacks = d] \in Items(T, X)  BY SMT DEF Items
<1>7. \A a \in {"Create", "Update", "Upgrade", "Delete"} : [i EXCEPT !.action = a] \in Items(T, X)  BY SMT DEF Items
<1>8. \A A \in SUBSET App : [i EXCEPT !.apps = A] \in Items(T, X)  BY SMT DEF Items
<1>9. \A E \in SUBSET Execution : [i EXCEPT !.edits = E] \in Items(T, X)  BY SMT DEF Items
<1> QED  BY <1>1, <1>2, <1>3, <1>4, <1>5, <1>6, <1>7, <1>8, <1>9

LEMMA ItemTypes ==
    ASSUME NEW T, NEW X, NEW i \in Items(T, X)
    PROVE  /\ i.phase \in {"none", "live", "deleted"} /\ i.at \in T /\ i.ver \in Nat
           /\ i.exec \in X /\ i.status \in {"RUNNING", "SUCCEEDED", "FAILED"}
           /\ i.stacks \in [Stack -> Recorded]
           /\ i.action \in {"Create", "Update", "Upgrade", "Delete"}
           /\ i.apps \in SUBSET App /\ i.edits \in SUBSET Execution
BY SMT DEF Items

LEMMA ItemsGrow ==
    ASSUME NEW T, NEW X, NEW Y, X \subseteq Y
    PROVE  Items(T, X) \subseteq Items(T, Y) /\ Requests(T, X) \subseteq Requests(T, Y)
<1>1. Items(T, X) \subseteq Items(T, Y)  BY SMT DEF Items
<1> QED  BY <1>1, SMT DEF Requests

LEMMA StoreTyped ==
    ASSUME NEW T, NEW X, image \in Items(T, X), NEW i \in Items(T, X), Store(i)
    PROVE  item' \in Items(T, X) /\ image' \in Items(T, X)
BY DEF Store

LEMMA StampTyped ==
    ASSUME NEW T, NEW X, image \in Items(T, X), Chosen(Time \ Held) \in T,
           NEW i \in Items(T, X), Stamped(i)
    PROVE  item' \in Items(T, X) /\ image' \in Items(T, X)
<1>1. Store([i EXCEPT !.at = Chosen(Time \ Held)])  BY Zenon DEF Stamped, Chosen
<1>2. [i EXCEPT !.at = Chosen(Time \ Held)] \in Items(T, X)  BY ItemFields
<1> QED  BY <1>1, <1>2, StoreTyped

\* A request becomes another one.
LEMMA ClientTyped ==
    ASSUME NEW T, NEW X, client \in Requests(T, X), NEW c \in Client,
           NEW pc \in Stage, NEW kind \in RequestKinds, NEW A \in SUBSET App,
           NEW i \in Items(T, X),
           client' = [client EXCEPT ![c] = [pc |-> pc, kind |-> kind, apps |-> A, item |-> i]]
    PROVE  client' \in Requests(T, X)
BY SMT DEF Requests

\* ... that does not write an execution.
LEMMA OtherWrites ==
    ASSUME NEW T, NEW X, client \in Requests(T, X), ExecWritten, NEW c \in Client, NEW r,
           client' = [client EXCEPT ![c] = r],
           r.pc = "write" => r.kind \in {"refresh", "force"}
    PROVE  ExecWritten'
BY DEF ExecWritten, Requests

LEMMA IdleTyped ==
    ASSUME NEW T, Never \in T, NEW X, 0 \in X, client \in Requests(T, X), NEW c \in Client,
           ExecWritten, client' = [client EXCEPT ![c] = Idle]
    PROVE  client' \in Requests(T, X) /\ ExecWritten'
<1>1. Blank \in Items(T, X)  BY BlankTyped
<1>2. "idle" \in Stage /\ "refresh" \in RequestKinds /\ {} \in SUBSET App
  BY DEF Stage, RequestKinds
<1>3. Idle \in [pc : Stage, kind : RequestKinds, apps : SUBSET App, item : Items(T, X)]
  BY <1>1, <1>2, SMT DEF Idle
<1>4. client' \in Requests(T, X)  BY <1>3 DEF Requests
<1>5. Idle.pc = "idle"  BY DEF Idle
<1> QED  BY <1>4, <1>5, OtherWrites

LEMMA ClientTypes ==
    ASSUME NEW T, NEW X, client \in Requests(T, X), NEW c \in Client
    PROVE  /\ client[c].pc \in Stage /\ client[c].kind \in RequestKinds
           /\ client[c].apps \in SUBSET App /\ client[c].item \in Items(T, X)
           /\ client[c] = [pc |-> client[c].pc, kind |-> client[c].kind,
                           apps |-> client[c].apps, item |-> client[c].item]
           /\ client = [d \in Client |-> client[d]]
BY SMT DEF Requests

LEMMA ByNameTyped ==
    ASSUME StackTyped
    PROVE  ByName \in [Stack -> Recorded]
BY DEF StackTyped, ByName, CfnStatus, Recorded

LEMMA ByIdTyped ==
    ASSUME StackTyped, NEW known
    PROVE  ById(known) \in [Stack -> Recorded]
BY DEF StackTyped, ById, CfnStatus, Recorded

LEMMA PlansTyped ==
    /\ CreatePlan \in Plan /\ DeletePlan \in Plan /\ UpgradePlan \in Plan /\ AppPlan \in Plan
    /\ \A stacks, S : UpdatePlan(stacks, S) \in Plan
    /\ \A stacks : RetryPlan(stacks) \in Plan
<1>1. CreatePlan \in Plan /\ DeletePlan \in Plan /\ UpgradePlan \in Plan /\ AppPlan \in Plan
  BY DEF CreatePlan, DeletePlan, UpgradePlan, AppPlan, Plan
<1>2. ASSUME NEW stacks, NEW S PROVE UpdatePlan(stacks, S) \in Plan
  BY SMT DEF UpdatePlan, Plan
<1>3. ASSUME NEW stacks PROVE RetryPlan(stacks) \in Plan
  BY SMT DEF RetryPlan, Plan
<1> QED  BY <1>1, <1>2, <1>3

\* What reads of the item make of it.
LEMMA KeptTyped ==
    ASSUME NEW T, Never \in T, NEW X, 0 \in X,
           image \in Items(T, X), NEW kind
    PROVE  Kept(kind) \in Items(T, X)
<1> DEFINE i1 == [image EXCEPT !.exec = 0]
           i2 == [i1 EXCEPT !.status = "RUNNING"]
           i3 == [i2 EXCEPT !.at = IF kind = "retry" THEN @ ELSE Never]
<1>2. i1 \in Items(T, X)  BY ItemFields
<1>3. i2 \in Items(T, X)  BY <1>2, ItemFields
<1>4. i3 \in Items(T, X)
  <2>1. i2.at \in T  BY <1>3, ItemTypes
  <2>2. (IF kind = "retry" THEN i2.at ELSE Never) \in T  BY <2>1
  <2> QED  BY <1>3, <2>2, ItemFields
<1> QED  BY <1>4 DEF Kept

\* Steps that keep the executions keep what is known of them.
LEMMA KnownKept == UNCHANGED exec => Known' = Known
BY DEF Known

LEMMA KnownZero == 0 \in Known
BY DEF Known

\* An event of an execution is handled a step further.
LEMMA HearingTyped ==
    ASSUME NEW T, NEW K, NEW f \in [K -> Hearings(T)], NEW k \in K
    PROVE  /\ \A pc \in Hearing : [f EXCEPT ![k].pc = pc] \in [K -> Hearings(T)]
           /\ \A r \in Hearings(T) : [f EXCEPT ![k] = r] \in [K -> Hearings(T)]
<1>1. ASSUME NEW pc \in Hearing PROVE [f[k] EXCEPT !.pc = pc] \in Hearings(T)
  BY SMT DEF Hearings
<1>2. ASSUME NEW r \in Hearings(T) PROVE [f EXCEPT ![k] = r] \in [K -> Hearings(T)]
  OBVIOUS
<1> QED  BY <1>1, <1>2

LEMMA LaunchTyped ==
    ASSUME NEW T, NEW S, Typed(T, S), NEW c \in Client, NEW x \in Execution,
           NEW plan \in Plan, NEW kind \in RequestKinds, NEW A \in SUBSET App,
           NEW i \in Items(T, Known),
           Launch(c, x, plan, kind, A, i)
    PROVE  Typed(T, S)'
<1> DEFINE i1 == [i EXCEPT !.exec = x]
           i2 == [i1 EXCEPT !.status = "RUNNING"]
<1>1. i.apps \in SUBSET App  BY ItemTypes
<1>2. exec' = [exec EXCEPT ![x] = [status |-> "RUNNING", plan |-> plan, apps |-> i.apps]]
  BY DEF Launch
<1>3. ExecTyped'
  BY <1>1, <1>2 DEF Typed, ExecTyped, Plan, Execution
<1>4. Known \subseteq Known' /\ x \in Known'
  BY <1>2 DEF Typed, ExecTyped, Known
<1>5. Items(T, Known) \subseteq Items(T, Known') /\ Requests(T, Known) \subseteq Requests(T, Known')
  BY <1>4, ItemsGrow
<1>6. i2 \in Items(T, Known')
  <2>1. i1 \in Items(T, Known')  BY <1>4, <1>5, ItemFields
  <2> QED  BY <2>1, ItemFields
<1>7. client' = [client EXCEPT ![c] = [pc |-> "write", kind |-> kind, apps |-> A, item |-> i2]]
  BY Zenon DEF Launch
<1>8. client' \in Requests(T, Known')
  <2>1. client \in Requests(T, Known') /\ "write" \in Stage  BY <1>5 DEF Typed, Stage
  <2> HIDE DEF i2
  <2> QED  BY <1>6, <1>7, <2>1, ClientTyped
<1>13. ExecWritten'
  <2>1. i \in Items(T, Known')  BY <1>5
  <2>2. i2.exec = x  BY <2>1, SMT DEF Items
  <2>3. client'[c].item = i2 /\ \A d \in Client \ {c} : client'[d] = client[d]
    <3> HIDE DEF i2
    <3> QED  BY <1>7 DEF Typed, Requests
  <2> QED  BY <2>2, <2>3 DEF Typed, ExecWritten
<1>9. ListenerTyped(T)' /\ EventsKnown'
  <2>1. <<x, "start">> \in Execution \X Event /\ <<x, "start">>[1] = x  BY DEF Event
  <2>2. lis' = [lis EXCEPT ![<<x, "start">>].pc = "queued"]  BY DEF Launch
  <2>3. ListenerTyped(T)'
    <3>1. "queued" \in Hearing  BY DEF Hearing
    <3> QED  BY <2>1, <2>2, <3>1, HearingTyped, Zenon DEF Typed, ListenerTyped
  <2>4. \A k \in Execution \X Event : k # <<x, "start">> => lis'[k] = lis[k]
    BY <2>2 DEF Typed, ListenerTyped
  <2> QED  BY <1>4, <2>1, <2>3, <2>4 DEF Typed, EventsKnown
<1>10. UNCHANGED <<item, image, apps, accepted, cfn, live, msgs, worker, mishaps>>
  BY DEF Launch, itemVars, stackVars, history
<1>11. item' \in Items(T, Known') /\ image' \in Items(T, Known')
  BY <1>5, <1>10 DEF Typed
<1>12. /\ apps' \subseteq App /\ accepted' \subseteq Execution
       /\ StackTyped' /\ WorkerTyped(T, S)' /\ mishaps' \in Nat
  BY <1>10 DEF Typed, StackTyped, WorkerTyped
<1> QED  BY <1>3, <1>8, <1>9, <1>11, <1>12, <1>13 DEF Typed

\* A step that leaves executions, stacks and listeners alone.
LEMMA RequestStepTyped ==
    ASSUME NEW T, NEW S, Typed(T, S), UNCHANGED <<exec, stackVars, worker, lis>>,
           item' \in Items(T, Known), image' \in Items(T, Known),
           client' \in Requests(T, Known), ExecWritten',
           apps' \subseteq App, accepted' \subseteq Execution, mishaps' \in Nat
    PROVE  Typed(T, S)'
<1>1. Known' = Known  BY KnownKept
<1> QED
  BY <1>1 DEF Typed, ExecTyped, StackTyped, WorkerTyped, ListenerTyped, EventsKnown, stackVars

LEMMA ReadTyped ==
    ASSUME NEW T, NEW S, Never \in T, Typed(T, S),
           NEW c \in Client, NEW kind \in RequestKinds, Begin(c, kind)
    PROVE  Typed(T, S)'
<1> DEFINE pc == IF kind = "refresh" THEN "write" ELSE "checked"
<1>1. Kept(kind) \in Items(T, Known)  BY KeptTyped, KnownZero DEF Typed
<1>2. pc \in Stage  BY DEF Stage
<1>3. PICK A \in SUBSET App :
         client' = [client EXCEPT ![c] =
             [pc |-> pc, kind |-> kind, apps |-> A, item |-> Kept(kind)]]
  <2>1. apps \in SUBSET App  BY DEF Typed
  <2>2. OneAppChanged \subseteq SUBSET App  BY DEF OneAppChanged
  <2>3. (IF kind = "app" THEN OneAppChanged ELSE {apps}) \subseteq SUBSET App  BY <2>1, <2>2
  <2> QED  BY <2>3, Zenon DEF Begin
<1>4. UNCHANGED <<itemVars, apps, accepted, exec, stackVars, worker, lis, mishaps>>
  BY DEF Begin
<1>6. pc = "write" => kind \in {"refresh", "force"}  OBVIOUS
<1> HIDE DEF pc
<1>7. ExecWritten'  BY <1>3, <1>6, OtherWrites DEF Typed
<1>5. client' \in Requests(T, Known)  BY <1>1, <1>2, <1>3, ClientTyped DEF Typed
<1> QED  BY <1>4, <1>5, <1>7, RequestStepTyped DEF Typed, itemVars

\* What describing the execution of a record finds.
LEMMA SeenTyped ==
    ASSUME ExecTyped, NEW x \in Known
    PROVE  (IF x = 0 THEN "SUCCEEDED" ELSE exec[x].status) \in {"RUNNING", "SUCCEEDED", "FAILED"}
BY DEF ExecTyped, Known

LEMMA FormTyped ==
    ASSUME NEW T, NEW S, Never \in T, Typed(T, S),
           NEW c \in Client, LoadForm(c) \/ SubmitForm(c) \/ Observe(c)
    PROVE  Typed(T, S)'
<1> DEFINE R(pc, kind, A, i) == [pc |-> pc, kind |-> kind, apps |-> A, item |-> i]
<1>1. UNCHANGED <<itemVars, apps, accepted, exec, stackVars, worker, lis, mishaps>>
  BY DEF LoadForm, SubmitForm, Observe, history
<1>2. /\ "form" \in Stage /\ "checked" \in Stage /\ "write" \in Stage
      /\ "update" \in RequestKinds /\ "force" \in RequestKinds
  BY DEF Stage, RequestKinds
<1>3. /\ client[c].apps \in SUBSET App /\ client[c].item \in Items(T, Known)
      /\ client = [d \in Client |-> client[d]]
  BY ClientTypes DEF Typed
<1>4. PICK pc \in Stage, kind \in RequestKinds, A \in SUBSET App, i \in Items(T, Known) :
         /\ client' = [client EXCEPT ![c] = R(pc, kind, A, i)]
         /\ pc = "write" => kind \in {"refresh", "force"}
  <2>1. CASE LoadForm(c)
    <3>1. Kept("update") \in Items(T, Known)  BY KeptTyped, KnownZero DEF Typed
    <3>2. client' = [client EXCEPT ![c] = R("form", "update", {}, Kept("update"))]
      BY <2>1, Zenon DEF LoadForm
    <3>3. {} \in SUBSET App  OBVIOUS
    <3> HIDE DEF R
    <3> QED  BY <1>2, <3>1, <3>2, <3>3, Zenon
  <2>2. CASE SubmitForm(c)
    <3> DEFINE A == IF image.apps # apps THEN apps ELSE client[c].item.apps
    <3>1. A \in SUBSET App
      <4>1. apps \in SUBSET App  BY DEF Typed
      <4>2. client[c].item.apps \in SUBSET App  BY <1>3, ItemTypes
      <4> QED  BY <4>1, <4>2
    <3>2. client' = [client EXCEPT ![c] = R("checked", "update", A, client[c].item)]
      BY <1>3, <2>2, Zenon DEF SubmitForm
    <3> HIDE DEF R, A
    <3> QED  BY <1>2, <1>3, <3>1, <3>2, Zenon
  <2>3. CASE Observe(c)
    <3> DEFINE old == client[c].item
               seen == IF old.exec = 0 THEN "SUCCEEDED" ELSE exec[old.exec].status
               i1 == [old EXCEPT !.status = seen]
               i2 == [i1 EXCEPT !.stacks = ById(old.stacks)]
    <3>1. i2 \in Items(T, Known)
      <4>1. old.exec \in Known  BY <1>3, ItemTypes
      <4>2. seen \in {"RUNNING", "SUCCEEDED", "FAILED"}  BY <4>1, SeenTyped DEF Typed
      <4>3. i1 \in Items(T, Known)  BY <1>3, <4>2, ItemFields
      <4>4. ById(old.stacks) \in [Stack -> Recorded]  BY ByIdTyped DEF Typed
      <4> QED  BY <4>3, <4>4, ItemFields
    <3>2. client' = [client EXCEPT ![c] = R("write", "force", client[c].apps, i2)]
      BY <1>3, <2>3, Zenon DEF Observe
    <3> HIDE DEF R, i2
    <3> QED  BY <1>2, <1>3, <3>1, <3>2, Zenon
  <2> QED  BY <2>1, <2>2, <2>3
<1>5. client' \in Requests(T, Known)  BY <1>4, ClientTyped DEF Typed
<1>6. ExecWritten'  BY <1>4, OtherWrites DEF Typed
<1> QED  BY <1>1, <1>5, <1>6, RequestStepTyped DEF Typed, itemVars

\* What starts executions.
LEMMA StartsTyped ==
    ASSUME NEW T, NEW S, Never \in T, Typed(T, S), NEW c \in Client, NEW x \in Execution,
           \/ Create(c, x) \/ UpdateApp(c, x) \/ Update(c, x) \/ Upgrade(c, x)
           \/ Delete(c, x) \/ Retry(c, x)
    PROVE  Typed(T, S)'
<1> DEFINE old == client[c].item
<1>1. old \in Items(T, Known) /\ client[c].apps \in SUBSET App  BY ClientTypes DEF Typed
<1>2. apps \in SUBSET App  BY DEF Typed
<1>3. /\ "create" \in RequestKinds /\ "app" \in RequestKinds /\ "update" \in RequestKinds
      /\ "upgrade" \in RequestKinds /\ "delete" \in RequestKinds /\ "retry" \in RequestKinds
  BY DEF RequestKinds
<1>4. old.edits \cup {x} \in SUBSET Execution  BY <1>1, ItemTypes
<1>5. CASE Create(c, x)
  <2> DEFINE i1 == [Blank EXCEPT !.phase = "live"]
             i2 == [i1 EXCEPT !.apps = apps]
  <2>1. Blank \in Items(T, Known)  BY BlankTyped, KnownZero
  <2>2. i1 \in Items(T, Known)  BY <2>1, ItemFields
  <2>3. i2 \in Items(T, Known)  BY <1>2, <2>2, ItemFields
  <2>4. Launch(c, x, CreatePlan, "create", apps, i2)  BY <1>5, Zenon DEF Create
  <2> HIDE DEF i2
  <2> QED  BY <1>2, <1>3, <2>3, <2>4, PlansTyped, LaunchTyped
<1>6. CASE UpdateApp(c, x)
  <2> DEFINE i1 == [old EXCEPT !.action = "Update"]
             i2 == [i1 EXCEPT !.apps = client[c].apps]
  <2>1. i1 \in Items(T, Known)  BY <1>1, ItemFields
  <2>2. i2 \in Items(T, Known)  BY <1>1, <2>1, ItemFields
  <2>3. Launch(c, x, AppPlan, "app", client[c].apps, i2)  BY <1>6, Zenon DEF UpdateApp
  <2> HIDE DEF i2
  <2> QED  BY <1>1, <1>3, <2>2, <2>3, PlansTyped, LaunchTyped
<1>7. CASE Update(c, x)
  <2> DEFINE i1 == [old EXCEPT !.action = "Update"]
             i2 == [i1 EXCEPT !.apps = client[c].apps]
             i3 == [i2 EXCEPT !.edits = i2.edits \cup {x}]
  <2>1. i1 \in Items(T, Known)  BY <1>1, ItemFields
  <2>2. i2 \in Items(T, Known)  BY <1>1, <2>1, ItemFields
  <2>3. i2.edits \cup {x} \in SUBSET Execution  BY <2>2, ItemTypes
  <2>4. i3 \in Items(T, Known)  BY <2>2, <2>3, ItemFields
  <2>5. PICK plan \in Plan : Launch(c, x, plan, "update", apps, i3)
    <3>1. PICK plan \in {UpdatePlan(old.stacks, U) : U \in SUBSET Stack} \cup {UpgradePlan} :
             Launch(c, x, plan, "update", apps, i3)
      BY <1>7, Zenon DEF Update
    <3> QED  BY <3>1, PlansTyped
  <2> HIDE DEF i3
  <2> QED  BY <1>2, <1>3, <2>4, <2>5, LaunchTyped
<1>8. CASE Upgrade(c, x)
  <2> DEFINE i1 == [old EXCEPT !.action = "Upgrade"]
             i2 == [i1 EXCEPT !.apps = apps]
             i3 == [i2 EXCEPT !.edits = i2.edits \cup {x}]
  <2>1. i1 \in Items(T, Known)  BY <1>1, ItemFields
  <2>2. i2 \in Items(T, Known)  BY <1>2, <2>1, ItemFields
  <2>3. i2.edits \cup {x} \in SUBSET Execution  BY <2>2, ItemTypes
  <2>4. i3 \in Items(T, Known)  BY <2>2, <2>3, ItemFields
  <2>5. Launch(c, x, UpgradePlan, "upgrade", apps, i3)  BY <1>8, Zenon DEF Upgrade
  <2> HIDE DEF i3
  <2> QED  BY <1>2, <1>3, <2>4, <2>5, PlansTyped, LaunchTyped
<1>9. CASE Delete(c, x)
  <2> DEFINE i1 == [old EXCEPT !.action = "Delete"]
             i2 == [i1 EXCEPT !.stacks = ByName]
  <2>1. i1 \in Items(T, Known)  BY <1>1, ItemFields
  <2>2. ByName \in [Stack -> Recorded]  BY ByNameTyped DEF Typed
  <2>3. i2 \in Items(T, Known)  BY <2>1, <2>2, ItemFields
  <2>4. Launch(c, x, DeletePlan, "delete", apps, i2)  BY <1>9, Zenon DEF Delete
  <2> HIDE DEF i2
  <2> QED  BY <1>2, <1>3, <2>3, <2>4, PlansTyped, LaunchTyped
<1>10. CASE Retry(c, x)
  <2>1. Launch(c, x, RetryPlan(old.stacks), "retry", apps, old)  BY <1>10, Zenon DEF Retry
  <2> QED  BY <1>1, <1>2, <1>3, <2>1, PlansTyped, LaunchTyped
<1> QED  BY <1>5, <1>6, <1>7, <1>8, <1>9, <1>10

LEMMA WriteTyped ==
    ASSUME NEW T, NEW S, Never \in T, Chosen(Time \ Held) \in T, Typed(T, S), NEW c \in Client,
           Write(c)
    PROVE  Typed(T, S)'
<1> DEFINE kind == client[c].kind
           old == client[c].item
           new == [old EXCEPT !.phase = item.phase]
<1>1. /\ old \in Items(T, Known) /\ kind \in RequestKinds
      /\ client[c].apps \in SUBSET App /\ client = [d \in Client |-> client[d]]
  BY ClientTypes DEF Typed
<1>2. item.phase \in {"none", "live", "deleted"}  BY ItemTypes DEF Typed
<1>3. new \in Items(T, Known)  BY <1>1, <1>2, ItemFields
<1>4. new.ver \in Nat /\ new.exec \in Known  BY <1>3, ItemTypes
<1>5. [new EXCEPT !.ver = new.ver + 1] \in Items(T, Known)
  <2>1. new.ver + 1 \in Nat  BY <1>4
  <2> HIDE DEF new
  <2> QED  BY <1>3, <2>1, ItemFields
<1>6. image \in Items(T, Known)  BY DEF Typed
<1>7. item' \in Items(T, Known) /\ image' \in Items(T, Known)
  <2>1. CASE kind \in {"refresh", "force", "retry"}
    <3>1. Store(new)  BY <2>1, Zenon DEF Write
    <3> HIDE DEF new
    <3> QED  BY <1>3, <1>6, <3>1, StoreTyped
  <2>2. CASE kind \in {"app", "delete"}
    <3>1. Stamped(new)  BY <2>2, Zenon DEF Write
    <3> HIDE DEF new
    <3> QED  BY <1>3, <1>6, <3>1, StampTyped
  <2>3. CASE kind \in {"update", "upgrade"}
    <3>1. Stamped([new EXCEPT !.ver = new.ver + 1])  BY <2>3, Zenon DEF Write
    <3> HIDE DEF new
    <3> QED  BY <1>5, <1>6, <3>1, StampTyped
  <2>4. kind # "create"  BY DEF Write
  <2> QED  BY <1>1, <2>1, <2>2, <2>3, <2>4 DEF RequestKinds
<1>8. client' \in Requests(T, Known) /\ ExecWritten'
  <2>1. CASE client' = [client EXCEPT ![c] = Idle]
    BY <2>1, IdleTyped, KnownZero DEF Typed
  <2>2. CASE client' = [client EXCEPT ![c] = [pc |-> "register", kind |-> "app",
                                              apps |-> client[c].apps, item |-> Blank]]
    <3>1. "register" \in Stage /\ "app" \in RequestKinds  BY DEF Stage, RequestKinds
    <3>2. Blank \in Items(T, Known)  BY BlankTyped, KnownZero
    <3>3. client' \in Requests(T, Known)  BY <1>1, <2>2, <3>1, <3>2, ClientTyped DEF Typed
    <3>4. ExecWritten'  BY <2>2, OtherWrites DEF Typed
    <3> QED  BY <3>3, <3>4
  <2> QED  BY <1>1, <2>1, <2>2, Zenon DEF Write
<1>9. apps' \subseteq App /\ accepted' \subseteq Execution
  <2>1. ASSUME kind \in {"update", "upgrade"} PROVE new.exec \in Execution
    <3>1. new.exec = old.exec  BY <1>1, <1>2, SMT DEF Items
    <3>2. old.exec \in Execution  BY <2>1 DEF Write, Typed, ExecWritten
    <3> QED  BY <3>1, <3>2
  <2> QED  BY <2>1 DEF Write, Typed
<1>10. UNCHANGED <<exec, stackVars, worker, lis, mishaps>>  BY DEF Write
<1> QED  BY <1>7, <1>8, <1>9, <1>10, RequestStepTyped DEF Typed


LEMMA EndTyped ==
    ASSUME NEW T, NEW S, Never \in T, Chosen(Time \ Held) \in T, Typed(T, S), NEW c \in Client,
           Add(c) \/ Refused(c) \/ Register(c) \/ Die(c)
    PROVE  Typed(T, S)'
<1>1. client[c].item \in Items(T, Known) /\ client[c].apps \in SUBSET App
  BY ClientTypes DEF Typed
<1>2. client' = [client EXCEPT ![c] = Idle] /\ UNCHANGED <<accepted, exec, stackVars, worker, lis>>
  BY DEF Add, Refused, Register, Die, history
<1>3. client' \in Requests(T, Known) /\ ExecWritten'
  BY <1>2, IdleTyped, KnownZero DEF Typed
<1>4. item' \in Items(T, Known) /\ image' \in Items(T, Known)
  <2>1. CASE Add(c)
    <3>1. Stamped(client[c].item)  BY <2>1 DEF Add
    <3> QED  BY <1>1, <3>1, StampTyped DEF Typed
  <2>2. CASE ~Add(c)
    BY <2>2 DEF Refused, Register, Die, itemVars, Typed
  <2> QED  BY <2>1, <2>2
<1>5. apps' \subseteq App /\ mishaps' \in Nat
  BY <1>1 DEF Add, Refused, Register, Die, Mishap, Typed
<1>6. accepted' \subseteq Execution  BY <1>2 DEF Typed
<1> QED  BY <1>2, <1>3, <1>4, <1>5, <1>6, RequestStepTyped

LEMMA RequestTyped ==
    ASSUME NEW T, NEW S, Never \in T, Chosen(Time \ Held) \in T, Typed(T, S),
           NEW c \in Client, Request(c)
    PROVE  Typed(T, S)'
<1>1. CASE (\E kind \in RequestKinds : Read(c, kind)) \/ Remove(c)
  <2>1. PICK kind \in RequestKinds : Begin(c, kind)
    <3>1. "delete" \in RequestKinds  BY DEF RequestKinds
    <3> QED  BY <1>1, <3>1, Zenon DEF Read, Remove
  <2> QED  BY <2>1, ReadTyped
<1>2. CASE LoadForm(c) \/ SubmitForm(c) \/ Observe(c)  BY <1>2, FormTyped
<1>3. CASE \E x \in Execution : \/ Create(c, x) \/ UpdateApp(c, x) \/ Update(c, x)
                                \/ Upgrade(c, x) \/ Delete(c, x) \/ Retry(c, x)
  BY <1>3, StartsTyped
<1>4. CASE Write(c)  BY <1>4, WriteTyped
<1>5. CASE Add(c) \/ Refused(c) \/ Register(c) \/ Die(c)  BY <1>5, EndTyped
<1> QED  BY <1>1, <1>2, <1>3, <1>4, <1>5 DEF Request

\* An execution goes on, or ends with another status.
LEMMA ExecFields ==
    ASSUME ExecTyped, NEW x \in Execution, Running(x)
    PROVE  /\ \A s \in Stack, a \in {"Wait", "WaitByName", "Done"} : Goes(x, s, a) =>
                 ExecTyped' /\ Known' = Known
           /\ \A status \in {"SUCCEEDED", "FAILED"} :
                 exec' = [exec EXCEPT ![x] = [status |-> status, plan |-> Nothing, apps |-> {}]]
                    => ExecTyped' /\ Known' = Known
<1> DEFINE R == [status : {"none", "RUNNING", "SUCCEEDED", "FAILED"}, plan : Plan,
                 apps : SUBSET App]
<1>1. ASSUME NEW r \in R, r.status # "none", exec' = [exec EXCEPT ![x] = r]
      PROVE  ExecTyped' /\ Known' = Known
  <2>1. ExecTyped'  BY <1>1 DEF ExecTyped
  <2>2. \A y \in Execution : exec'[y].status = "none" <=> exec[y].status = "none"
    BY <1>1 DEF ExecTyped, Running
  <2>3. Known' = Known  BY <2>2 DEF Known
  <2> QED  BY <2>1, <2>3
<1>2. ASSUME NEW s \in Stack, NEW a \in {"Wait", "WaitByName", "Done"}, Goes(x, s, a)
      PROVE  ExecTyped' /\ Known' = Known
  <2> DEFINE r == [exec[x] EXCEPT !.plan = [exec[x].plan EXCEPT ![s] = a]]
  <2>1. exec[x] \in R  BY DEF ExecTyped
  <2>2. exec' = [exec EXCEPT ![x] = r]  BY <1>2 DEF Goes
  <2>3. [exec[x].plan EXCEPT ![s] = a] \in Plan  BY <2>1 DEF Plan
  <2>4. r \in R /\ r.status = "RUNNING"  BY <2>1, <2>3, SMT DEF Running
  <2> HIDE DEF R, r
  <2> QED  BY <1>1, <2>2, <2>4
<1>3. ASSUME NEW status \in {"SUCCEEDED", "FAILED"},
             exec' = [exec EXCEPT ![x] = [status |-> status, plan |-> Nothing, apps |-> {}]]
      PROVE  ExecTyped' /\ Known' = Known
  <2>1. Nothing \in Plan  BY DEF Nothing, Plan
  <2>2. [status |-> status, plan |-> Nothing, apps |-> {}] \in R  BY <2>1
  <2> HIDE DEF R
  <2> QED  BY <1>1, <1>3, <2>2
<1> QED  BY <1>2, <1>3

\* Steps that leave the item and the requests alone.
LEMMA CloudStepTyped ==
    ASSUME NEW T, NEW S, Typed(T, S), UNCHANGED <<itemVars, apps, accepted, client, worker>>,
           ExecTyped', StackTyped', Known' = Known, ListenerTyped(T)', EventsKnown',
           mishaps' \in Nat
    PROVE  Typed(T, S)'
BY DEF Typed, WorkerTyped, ExecWritten, itemVars

LEMMA StackEventTyped ==
    ASSUME StackTyped, NEW s \in Stack, NEW status \in CfnStatus, StackEvent(s, status),
           live' \in [Stack -> SUBSET App]
    PROVE  StackTyped'
<1>1. msgs' = [msgs EXCEPT ![s] = msgs[s] + 1] /\ msgs[s] + 1 \in Nat
  BY DEF StackTyped, StackEvent
<1>2. msgs' \in [Stack -> Nat]  BY <1>1 DEF StackTyped
<1>3. cfn' \in [Stack -> CfnStatus]  BY DEF StackTyped, StackEvent
<1> QED  BY <1>2, <1>3 DEF StackTyped

LEMMA EndsTyped ==
    ASSUME NEW T, NEW S, Typed(T, S), NEW x \in Execution, Running(x),
           NEW status \in {"SUCCEEDED", "FAILED"}, Ends(x, status)
    PROVE  ExecTyped' /\ Known' = Known /\ ListenerTyped(T)' /\ EventsKnown'
<1>1. ExecTyped' /\ Known' = Known  BY ExecFields DEF Ends, Typed
<1>2. <<x, "end">> \in Execution \X Event /\ <<x, "end">>[1] = x  BY DEF Event
<1>3. lis' = [lis EXCEPT ![<<x, "end">>].pc = "queued"]  BY DEF Ends
<1>4. ListenerTyped(T)'
  <2>1. "queued" \in Hearing  BY DEF Hearing
  <2> QED  BY <1>2, <1>3, <2>1, HearingTyped, Zenon DEF Typed, ListenerTyped
<1>5. \A k \in Execution \X Event : k # <<x, "end">> => lis'[k] = lis[k]
  BY <1>3 DEF Typed, ListenerTyped
<1>6. x \in Known  BY DEF Running, Known
<1> QED  BY <1>1, <1>2, <1>4, <1>5, <1>6 DEF Typed, EventsKnown

LEMMA ActTyped ==
    ASSUME NEW T, NEW S, Typed(T, S), NEW x \in Execution, NEW s \in Stack, Act(x, s)
    PROVE  Typed(T, S)'
<1>1. exec[x].apps \in SUBSET App  BY DEF Typed, ExecTyped
<1>2. CASE ActionFails(x, s)
  <2>1. Running(x) /\ Ends(x, "FAILED")  BY <1>2 DEF ActionFails, Due
  <2>2. UNCHANGED <<itemVars, apps, accepted, client, stackVars, worker, mishaps>>
    BY <1>2 DEF ActionFails, history
  <2>3. StackTyped' /\ mishaps' \in Nat  BY <2>2 DEF Typed, StackTyped, stackVars
  <2> QED  BY <2>1, <2>2, <2>3, EndsTyped, CloudStepTyped
<1>3. CASE CreateStack(x, s) \/ UpdateStack(x, s) \/ DeleteStack(x, s) \/ DescribeStack(x, s)
  <2>1. /\ UNCHANGED <<itemVars, apps, accepted, client, worker, lis, mishaps>>
        /\ Running(x)
        /\ \E a \in {"Wait", "WaitByName", "Done"} : Goes(x, s, a)
    BY <1>3 DEF CreateStack, UpdateStack, DeleteStack, DescribeStack, Due, history
  <2>2. ExecTyped' /\ Known' = Known  BY <2>1, ExecFields DEF Typed
  <2>3. StackTyped'
    <3>1. CASE UNCHANGED stackVars  BY <3>1 DEF Typed, StackTyped, stackVars
    <3>2. ASSUME NEW status \in {"creating", "updating", "deleting"}, StackEvent(s, status),
                 live' = [live EXCEPT ![s] = exec[x].apps] \/ live' = live
          PROVE  StackTyped'
      <4>1. status \in CfnStatus  BY DEF CfnStatus, InProgress
      <4>2. live' \in [Stack -> SUBSET App]  BY <1>1, <3>2 DEF Typed, StackTyped
      <4> QED  BY <3>2, <4>1, <4>2, StackEventTyped DEF Typed
    <3> QED
      BY <1>3, <3>1, <3>2 DEF CreateStack, UpdateStack, DeleteStack, DescribeStack
  <2>4. ListenerTyped(T)' /\ EventsKnown' /\ mishaps' \in Nat
    BY <2>1, <2>2 DEF Typed, ListenerTyped, EventsKnown
  <2> QED  BY <2>1, <2>2, <2>3, <2>4, CloudStepTyped
<1> QED  BY <1>2, <1>3 DEF Act

LEMMA EndsOfExecutionsTyped ==
    ASSUME NEW T, NEW S, Typed(T, S), NEW x \in Execution,
           ExecutionSucceeds(x) \/ ExecutionBreaks(x)
    PROVE  Typed(T, S)'
<1>1. mishaps' \in Nat  BY DEF ExecutionSucceeds, ExecutionBreaks, Mishap, Typed
<1>2. UNCHANGED <<itemVars, apps, accepted, client, worker>>
  BY DEF ExecutionSucceeds, ExecutionBreaks, history
<1>3. Running(x) /\ (Ends(x, "SUCCEEDED") \/ Ends(x, "FAILED")) /\ UNCHANGED stackVars
  BY DEF ExecutionSucceeds, ExecutionBreaks
<1>4. StackTyped'  BY <1>3 DEF Typed, StackTyped, stackVars
<1> QED  BY <1>1, <1>2, <1>3, <1>4, EndsTyped, CloudStepTyped

LEMMA EndsOfStacksTyped ==
    ASSUME NEW T, NEW S, Typed(T, S), NEW s \in Stack, StackDone(s) \/ StackFails(s)
    PROVE  Typed(T, S)'
<1>1. mishaps' \in Nat  BY DEF StackDone, StackFails, Mishap, Typed
<1>2. UNCHANGED <<itemVars, apps, accepted, client, live, exec, worker, lis>>
  BY DEF StackDone, StackFails, history
<1>3. PICK status \in {"complete", "none", "failed", "rollback", "undeleted"} :
         StackEvent(s, status)
  BY DEF StackDone, StackFails
<1>4. status \in CfnStatus  BY DEF CfnStatus, Broken, Settled
<1>5. StackTyped'  BY <1>2, <1>3, <1>4, StackEventTyped DEF Typed, StackTyped
<1>6. Known' = Known  BY <1>2, KnownKept
<1>7. ExecTyped' /\ ListenerTyped(T)' /\ EventsKnown'
  BY <1>2, <1>6 DEF Typed, ExecTyped, ListenerTyped, EventsKnown
<1> QED  BY <1>1, <1>2, <1>5, <1>6, <1>7, CloudStepTyped


Workings(T, S) ==
    [pc : {"idle", "described", "write"}, stack : S, seen : Recorded, at : T,
     tries : 0 .. MaxRetry, stacks : [Stack -> Recorded]]

LEMMA WorkingFields ==
    ASSUME NEW T, NEW S, NEW r \in Workings(T, S)
    PROVE  /\ \A pc \in {"idle", "described", "write"} : [r EXCEPT !.pc = pc] \in Workings(T, S)
           /\ \A s \in S : [r EXCEPT !.stack = s] \in Workings(T, S)
           /\ \A d \in Recorded : [r EXCEPT !.seen = d] \in Workings(T, S)
           /\ \A t \in T : [r EXCEPT !.at = t] \in Workings(T, S)
           /\ \A n \in 0 .. MaxRetry : [r EXCEPT !.tries = n] \in Workings(T, S)
           /\ \A d \in [Stack -> Recorded] : [r EXCEPT !.stacks = d] \in Workings(T, S)
<1>1. \A pc \in {"idle", "described", "write"} : [r EXCEPT !.pc = pc] \in Workings(T, S)  BY SMT DEF Workings
<1>2. \A s \in S : [r EXCEPT !.stack = s] \in Workings(T, S)  BY SMT DEF Workings
<1>3. \A d \in Recorded : [r EXCEPT !.seen = d] \in Workings(T, S)  BY SMT DEF Workings
<1>4. \A t \in T : [r EXCEPT !.at = t] \in Workings(T, S)  BY SMT DEF Workings
<1>5. \A n \in 0 .. MaxRetry : [r EXCEPT !.tries = n] \in Workings(T, S)  BY SMT DEF Workings
<1>6. \A d \in [Stack -> Recorded] : [r EXCEPT !.stacks = d] \in Workings(T, S)  BY SMT DEF Workings
<1> QED  BY <1>1, <1>2, <1>3, <1>4, <1>5, <1>6

LEMMA HearingFields ==
    ASSUME NEW T, NEW r \in Hearings(T)
    PROVE  /\ \A pc \in Hearing : [r EXCEPT !.pc = pc] \in Hearings(T)
           /\ \A t \in T : [r EXCEPT !.at = t] \in Hearings(T)
           /\ \A a \in {"Create", "Update", "Upgrade", "Delete"} : [r EXCEPT !.action = a] \in Hearings(T)
           /\ \A n \in 0 .. MaxRetry : [r EXCEPT !.tries = n] \in Hearings(T)
           /\ \A d \in [Stack -> Recorded] : [r EXCEPT !.stacks = d] \in Hearings(T)
<1>1. \A pc \in Hearing : [r EXCEPT !.pc = pc] \in Hearings(T)  BY SMT DEF Hearings
<1>2. \A t \in T : [r EXCEPT !.at = t] \in Hearings(T)  BY SMT DEF Hearings
<1>3. \A a \in {"Create", "Update", "Upgrade", "Delete"} : [r EXCEPT !.action = a] \in Hearings(T)  BY SMT DEF Hearings
<1>4. \A n \in 0 .. MaxRetry : [r EXCEPT !.tries = n] \in Hearings(T)  BY SMT DEF Hearings
<1>5. \A d \in [Stack -> Recorded] : [r EXCEPT !.stacks = d] \in Hearings(T)  BY SMT DEF Hearings
<1> QED  BY <1>1, <1>2, <1>3, <1>4, <1>5

LEMMA FreeTyped ==
    ASSUME NEW T, NEW S, Never \in T, Chosen(Stack) \in S
    PROVE  Free \in Workings(T, S)
<1>1. Blank.stacks \in [Stack -> Recorded]  BY DEF Blank, Recorded
<1>2. "absent" \in Recorded /\ 0 \in 0 .. MaxRetry  BY PipelineAssumption DEF Recorded
<1>3. Free = [pc |-> "idle", stack |-> Chosen(Stack), seen |-> "absent",
              at |-> Never, tries |-> 0, stacks |-> Blank.stacks]
  BY Zenon DEF Free, Chosen
<1> QED  BY <1>1, <1>2, <1>3, SMT DEF Workings

LEMMA MergedTyped ==
    ASSUME NEW stacks \in [Stack -> Recorded], NEW s, NEW seen \in Recorded
    PROVE  Merged(stacks, s, seen) \in [Stack -> Recorded]
BY DEF Merged, Recorded

\* One invocation of the stack listener goes on.
LEMMA WorkerStepTyped ==
    ASSUME NEW T, NEW S, Typed(T, S), WorkerTyped(T, S)', msgs' \in [Stack -> Nat],
           item' \in Items(T, Known), image' \in Items(T, Known),
           UNCHANGED <<apps, accepted, client, exec, cfn, live, lis, mishaps>>
    PROVE  Typed(T, S)'
<1>1. Known' = Known  BY KnownKept
<1> QED
  BY <1>1 DEF Typed, ExecTyped, ExecWritten, StackTyped, ListenerTyped, EventsKnown

\* What a look at a stack takes and leaves alone.
LEMMA DescribeTakes ==
    ASSUME NEW w \in Worker, NEW s \in Stack, Describe(w, s)
    PROVE  /\ worker[w].pc = "idle"
           /\ msgs[s] > 0 /\ msgs' = [msgs EXCEPT ![s] = msgs[s] - 1]
           /\ UNCHANGED <<item, image, apps, accepted, abrupt, client, exec, cfn, live,
                          lis, mishaps>>
  BY Zenon DEF Describe, itemVars, history

LEMMA StackListenerTyped ==
    ASSUME NEW T, NEW S, Never \in T, Stack \subseteq S, Chosen(Stack) \in S,
           Chosen(Time \ Held) \in T, Typed(T, S), NEW w \in Worker, StackListener(w)
    PROVE  Typed(T, S)'
<1>1. worker \in [Worker -> Workings(T, S)]  BY DEF Typed, WorkerTyped, Workings
<1>2. worker[w] \in Workings(T, S)  BY <1>1
<1>3. /\ item \in Items(T, Known) /\ image \in Items(T, Known)
      /\ msgs \in [Stack -> Nat] /\ cfn \in [Stack -> CfnStatus]
  BY DEF Typed, StackTyped
<1>4. ASSUME NEW r \in Workings(T, S), worker' = [worker EXCEPT ![w] = r]
      PROVE  WorkerTyped(T, S)'
  <2>1. worker' \in [Worker -> Workings(T, S)]  BY <1>1, <1>4
  <2> QED  BY <2>1 DEF WorkerTyped, Workings
<1>5. Free \in Workings(T, S)  BY FreeTyped
<1>6. ASSUME NEW tries \in 0 .. MaxRetry, Found(w, tries) PROVE WorkerTyped(T, S)'
  <2> DEFINE m == Merged(image.stacks, worker[w].stack, worker[w].seen)
             r1 == [worker[w] EXCEPT !.pc = "write"]
             r2 == [r1 EXCEPT !.at = image.at]
             r3 == [r2 EXCEPT !.tries = tries]
             r == [r3 EXCEPT !.stacks = m]
  <2>1. image.at \in T /\ image.stacks \in [Stack -> Recorded]  BY <1>3, ItemTypes
  <2>2. worker[w].seen \in Recorded  BY <1>2 DEF Workings
  <2>3. m \in [Stack -> Recorded]  BY <2>1, <2>2, MergedTyped
  <2> HIDE DEF m
  <2>4. r \in Workings(T, S)
    <3>1. r1 \in Workings(T, S)  BY <1>2, WorkingFields
    <3>2. r2 \in Workings(T, S)  BY <2>1, <3>1, WorkingFields
    <3>3. r3 \in Workings(T, S)  BY <3>2, WorkingFields
    <3> QED  BY <2>3, <3>3, WorkingFields
  <2>5. worker' = [worker EXCEPT ![w] = r]  BY <1>1, <1>6, Zenon DEF Found, m
  <2> HIDE DEF r
  <2> QED  BY <1>4, <2>4, <2>5
<1>7. ASSUME NEW s \in Stack, Describe(w, s) PROVE Typed(T, S)'
  <2> DEFINE seen == IF cfn[s] = "none" THEN "deleted" ELSE cfn[s]
             r1 == [worker[w] EXCEPT !.pc = "described"]
             r2 == [r1 EXCEPT !.stack = s]
             r == [r2 EXCEPT !.seen = seen]
  <2>1. seen \in Recorded /\ s \in S  BY <1>3 DEF CfnStatus, Recorded
  <2>2. worker' = [worker EXCEPT ![w] = r]  BY <1>1, <1>7, Zenon DEF Describe
  <2>7. msgs[s] > 0 /\ msgs' = [msgs EXCEPT ![s] = msgs[s] - 1]  BY <1>7, DescribeTakes
  <2> HIDE DEF seen
  <2>3. r \in Workings(T, S)
    <3>1. r1 \in Workings(T, S)  BY <1>2, WorkingFields
    <3>2. r2 \in Workings(T, S)  BY <2>1, <3>1, WorkingFields
    <3> QED  BY <2>1, <3>2, WorkingFields
  <2> HIDE DEF r
  <2>4. WorkerTyped(T, S)'  BY <1>4, <2>2, <2>3
  <2>5. msgs[s] - 1 \in Nat /\ msgs' = [msgs EXCEPT ![s] = msgs[s] - 1]
    BY <1>3, <2>7
  <2>6. msgs' \in [Stack -> Nat]  BY <1>3, <2>5
  <2> QED  BY <1>3, <1>7, <2>4, <2>6, DescribeTakes, WorkerStepTyped DEF itemVars
<1>8. CASE Match(w)
  <2>1. UNCHANGED <<itemVars, apps, accepted, client, exec, cfn, live, lis, mishaps>>
    BY <1>8 DEF Match, history
  <2>2. WorkerTyped(T, S)'
    <3>1. 0 \in 0 .. MaxRetry  BY PipelineAssumption
    <3>2. Found(w, 0) \/ worker' = [worker EXCEPT ![w] = Free]  BY <1>8 DEF Match
    <3> QED  BY <1>4, <1>5, <1>6, <3>1, <3>2
  <2>3. msgs' \in [Stack -> Nat]
    <3>1. CASE UNCHANGED msgs  BY <1>3, <3>1
    <3>2. CASE msgs' = [msgs EXCEPT ![worker[w].stack] = msgs[worker[w].stack] + 1]
      <4>1. CASE worker[w].stack \in Stack
        <5>1. msgs[worker[w].stack] + 1 \in Nat  BY <1>3, <4>1
        <5> QED  BY <1>3, <3>2, <5>1
      <4>2. CASE worker[w].stack \notin Stack
        <5>1. msgs' = msgs  BY <1>3, <3>2, <4>2
        <5> QED  BY <1>3, <5>1
      <4> QED  BY <4>1, <4>2
    <3> QED  BY <1>8, <3>1, <3>2 DEF Match
  <2> QED  BY <1>3, <2>1, <2>2, <2>3, WorkerStepTyped DEF itemVars
<1>9. CASE RecordStack(w)
  <2>1. worker[w].stacks \in [Stack -> Recorded]  BY <1>2 DEF Workings
  <2>2. [item EXCEPT !.stacks = worker[w].stacks] \in Items(T, Known)  BY <1>3, <2>1, ItemFields
  <2>3. item' \in Items(T, Known) /\ image' \in Items(T, Known)
    BY <1>3, <1>9, <2>2, StampTyped DEF RecordStack
  <2>4. WorkerTyped(T, S)'  BY <1>4, <1>5, <1>9 DEF RecordStack
  <2> QED  BY <1>3, <1>9, <2>3, <2>4, WorkerStepTyped DEF RecordStack, stackVars, history
<1>10. CASE RecordStackAgain(w)
  <2>1. WorkerTyped(T, S)'
    <3>1. CASE worker' = [worker EXCEPT ![w] = Free]  BY <1>4, <1>5, <3>1
    <3>2. CASE worker[w].tries < MaxRetry /\ Found(w, worker[w].tries + 1)
      <4>1. worker[w].tries + 1 \in 0 .. MaxRetry
        BY <1>2, <3>2, PipelineAssumption DEF Workings
      <4> QED  BY <1>6, <3>2, <4>1
    <3> QED  BY <1>10, <3>1, <3>2 DEF RecordStackAgain
  <2> QED  BY <1>3, <1>10, <2>1, WorkerStepTyped DEF RecordStackAgain, itemVars, stackVars, history
<1> QED  BY <1>7, <1>8, <1>9, <1>10 DEF StackListener

\* The state listener handles event k a step further.
LEMMA ListenerStepTyped ==
    ASSUME NEW T, NEW S, Typed(T, S), NEW k \in Execution \X Event, lis[k].pc # "none",
           NEW r \in Hearings(T), lis' = [lis EXCEPT ![k] = r],
           item' \in Items(T, Known), image' \in Items(T, Known), mishaps' \in Nat,
           UNCHANGED <<apps, accepted, client, exec, stackVars, worker>>
    PROVE  Typed(T, S)'
<1>1. Known' = Known  BY KnownKept
<1>2. ListenerTyped(T)'
  <2>1. lis \in [Execution \X Event -> Hearings(T)]  BY DEF Typed, ListenerTyped
  <2>2. lis' \in [Execution \X Event -> Hearings(T)]  BY <2>1, HearingTyped, Zenon
  <2> QED  BY <2>2 DEF ListenerTyped
<1>3. \A h \in Execution \X Event : h # k => lis'[h] = lis[h]
  BY DEF Typed, ListenerTyped
<1>4. EventsKnown'  BY <1>1, <1>3 DEF Typed, EventsKnown
<1> QED
  BY <1>1, <1>2, <1>4 DEF Typed, ExecTyped, ExecWritten, StackTyped, WorkerTyped, stackVars

LEMMA StateListenerTyped ==
    ASSUME NEW T, NEW S, Never \in T, Chosen(Time \ Held) \in T, Typed(T, S),
           NEW k \in Execution \X Event, StateListener(k) \/ Redeliver(k)
    PROVE  Typed(T, S)'
<1>1. lis \in [Execution \X Event -> Hearings(T)]  BY DEF Typed, ListenerTyped
<1>2. lis[k] \in Hearings(T)  BY <1>1, Zenon
<1>3. item \in Items(T, Known) /\ image \in Items(T, Known)  BY DEF Typed
<1>4. Silent \in Hearings(T)
  <2>1. Blank.stacks \in [Stack -> Recorded]  BY DEF Blank, Recorded
  <2>2. 0 \in 0 .. MaxRetry  BY PipelineAssumption
  <2> QED  BY <2>1, <2>2, SMT DEF Silent, Hearings, Hearing
<1>5. \A pc \in Hearing : [Silent EXCEPT !.pc = pc] \in Hearings(T)  BY <1>4, HearingFields
<1>6. Done \in Hearings(T) /\ [Silent EXCEPT !.pc = "delete"] \in Hearings(T)
  BY <1>5 DEF Done, Hearing
<1>7. AfterStatus(k) \in Hearings(T)
  <2> DEFINE r == [lis[k] EXCEPT !.pc = "fetch"]
  <2>1. [r EXCEPT !.tries = 0] \in Hearings(T)
    <3>1. r \in Hearings(T)  BY <1>2, HearingFields DEF Hearing
    <3>2. 0 \in 0 .. MaxRetry  BY PipelineAssumption
    <3> QED  BY <3>1, <3>2, HearingFields
  <2> QED  BY <1>6, <2>1 DEF AfterStatus
<1>8. AfterStacks(k) \in Hearings(T)  BY <1>6 DEF AfterStacks
<1>9. ByName \in [Stack -> Recorded]  BY ByNameTyped DEF Typed
<1>10. image.at \in T /\ image.action \in {"Create", "Update", "Upgrade", "Delete"}
  BY <1>3, ItemTypes
<1>11. lis[k].tries < MaxRetry => lis[k].tries + 1 \in 0 .. MaxRetry
  BY <1>2, PipelineAssumption DEF Hearings
<1>12. lis[k].pc # "none"
  BY DEF StateListener, Redeliver, Receive, Drop, RecordStatus, RecordStatusAgain, Fetch,
     RecordStacks, RecordStacksAgain, DeleteProject, Hears
<1>13. UNCHANGED <<apps, accepted, client, exec, stackVars, worker>> /\ mishaps' \in Nat
  BY DEF StateListener, Redeliver, Receive, Drop, RecordStatus, RecordStatusAgain, Fetch,
     RecordStacks, RecordStacksAgain, DeleteProject, Mishap, Typed, history
<1>14. \E r \in Hearings(T) : lis' = [lis EXCEPT ![k] = r]
  <2>1. CASE Receive(k)
    <3> DEFINE r1 == [Silent EXCEPT !.pc = "status"]
               r2 == [r1 EXCEPT !.at = image.at]
    <3>1. [r2 EXCEPT !.action = image.action] \in Hearings(T)
      <4>1. r1 \in Hearings(T)  BY <1>4, HearingFields DEF Hearing
      <4>2. r2 \in Hearings(T)  BY <1>10, <4>1, HearingFields
      <4> QED  BY <1>10, <4>2, HearingFields
    <3> QED  BY <1>5, <2>1, <3>1, Zenon DEF Receive, Hearing
  <2>2. CASE RecordStatus(k)  BY <1>7, <2>2 DEF RecordStatus
  <2>3. CASE RecordStatusAgain(k)
    <3> DEFINE r == [lis[k] EXCEPT !.at = image.at]
    <3>1. lis[k].tries < MaxRetry => [r EXCEPT !.tries = lis[k].tries + 1] \in Hearings(T)
      <4>1. r \in Hearings(T)  BY <1>2, <1>10, HearingFields
      <4> QED  BY <1>11, <4>1, HearingFields
    <3> DEFINE n == IF image.phase # "live" THEN Done
                    ELSE IF lis[k].tries < MaxRetry THEN [r EXCEPT !.tries = lis[k].tries + 1]
                    ELSE AfterStatus(k)
    <3>2. lis' = [lis EXCEPT ![k] = n]  BY <2>3, SMT DEF RecordStatusAgain
    <3>3. n \in Hearings(T)
      <4> HIDE DEF r
      <4> QED  BY <1>6, <1>7, <3>1
    <3> HIDE DEF n
    <3> QED  BY <3>2, <3>3
  <2>4. CASE Fetch(k)
    <3> DEFINE r == [lis[k] EXCEPT !.pc = "stacks"]
    <3>1. [r EXCEPT !.stacks = ByName] \in Hearings(T)
      <4>1. r \in Hearings(T)  BY <1>2, HearingFields DEF Hearing
      <4> QED  BY <1>9, <4>1, HearingFields
    <3> QED  BY <1>1, <2>4, <3>1, Zenon DEF Fetch
  <2>5. CASE RecordStacks(k)  BY <1>8, <2>5 DEF RecordStacks
  <2>6. CASE RecordStacksAgain(k)
    <3> DEFINE r1 == [lis[k] EXCEPT !.at = image.at]
               r2 == [r1 EXCEPT !.tries = lis[k].tries + 1]
    <3>1. lis[k].tries < MaxRetry => [r2 EXCEPT !.stacks = ByName] \in Hearings(T)
      <4>1. r1 \in Hearings(T)  BY <1>2, <1>10, HearingFields
      <4>2. lis[k].tries < MaxRetry => r2 \in Hearings(T)  BY <1>11, <4>1, HearingFields
      <4> QED  BY <1>9, <4>2, HearingFields
    <3> DEFINE n == IF image.phase # "live" THEN Done
                    ELSE IF lis[k].tries < MaxRetry THEN [r2 EXCEPT !.stacks = ByName]
                    ELSE AfterStacks(k)
    <3>2. lis' = [lis EXCEPT ![k] = n]  BY <2>6, SMT DEF RecordStacksAgain
    <3>3. n \in Hearings(T)
      <4> HIDE DEF r2
      <4> QED  BY <1>6, <1>8, <3>1
    <3> HIDE DEF n
    <3> QED  BY <3>2, <3>3
  <2>7. CASE DeleteProject(k)  BY <1>6, <2>7 DEF DeleteProject
  <2>8. CASE Redeliver(k)
    <3>1. [lis[k] EXCEPT !.pc = "queued"] \in Hearings(T)  BY <1>2, HearingFields DEF Hearing
    <3> QED  BY <1>1, <2>8, <3>1, Zenon DEF Redeliver
  <2>9. CASE Drop(k)  BY <1>6, <2>9 DEF Drop
  <2> QED  BY <2>1, <2>2, <2>3, <2>4, <2>5, <2>6, <2>7, <2>8, <2>9 DEF StateListener
<1>15. item' \in Items(T, Known) /\ image' \in Items(T, Known)
  <2>1. CASE RecordStatus(k)
    <3> DEFINE i1 == [item EXCEPT !.exec = k[1]]
               i2 == [i1 EXCEPT !.status = EventStatus(k)]
    <3>1. k[1] \in Known  BY <1>12 DEF Typed, EventsKnown
    <3>2. k[1] # 0  BY DEF Execution
    <3>3. EventStatus(k) \in {"RUNNING", "SUCCEEDED", "FAILED"}
      BY <3>1, <3>2, SeenTyped DEF EventStatus, Typed
    <3>4. i1 \in Items(T, Known)  BY <1>3, <3>1, ItemFields
    <3>5. i2 \in Items(T, Known)  BY <3>3, <3>4, ItemFields
    <3>6. Stamped(i2)  BY <2>1, Zenon DEF RecordStatus
    <3> HIDE DEF i2
    <3> QED  BY <1>3, <3>5, <3>6, StampTyped
  <2>2. CASE RecordStacks(k)
    <3>1. lis[k].stacks \in [Stack -> Recorded]  BY <1>2 DEF Hearings
    <3>2. [item EXCEPT !.stacks = lis[k].stacks] \in Items(T, Known)  BY <1>3, <3>1, ItemFields
    <3> QED  BY <1>3, <2>2, <3>2, StampTyped DEF RecordStacks
  <2>3. CASE DeleteProject(k)
    <3>1. [item EXCEPT !.phase = "deleted"] \in Items(T, Known)  BY <1>3, ItemFields
    <3> QED  BY <1>3, <2>3, <3>1, StoreTyped DEF DeleteProject
  <2>4. CASE ~RecordStatus(k) /\ ~RecordStacks(k) /\ ~DeleteProject(k)
    <3>1. UNCHANGED itemVars
      BY <2>4 DEF StateListener, Redeliver, Receive, Drop, RecordStatusAgain, Fetch,
         RecordStacksAgain
    <3> QED  BY <1>3, <3>1 DEF itemVars
  <2> QED  BY <2>1, <2>2, <2>3, <2>4
<1> QED  BY <1>12, <1>13, <1>14, <1>15, ListenerStepTyped

LEMMA TypedNext ==
    ASSUME NEW T, NEW S, Never \in T, Stack \subseteq S, Chosen(Stack) \in S,
           Chosen(Time \ Held) \in T, Typed(T, S), [Next]_vars
    PROVE  Typed(T, S)'
<1>1. CASE UNCHANGED vars
  <2>1. Known' = Known  BY <1>1 DEF vars, Known
  <2> QED
    BY <1>1, <2>1 DEF vars, itemVars, stackVars, Typed, ExecTyped, ExecWritten, StackTyped,
       WorkerTyped, ListenerTyped, EventsKnown
<1>2. CASE Propagate
  <2>1. Known' = Known  BY <1>2 DEF Propagate, Known
  <2> QED
    BY <1>2, <2>1 DEF Propagate, stackVars, Typed, ExecTyped, ExecWritten, StackTyped,
       WorkerTyped, ListenerTyped, EventsKnown, history
<1>3. CASE \E c \in Client : Request(c)  BY <1>3, RequestTyped
<1>4. CASE \E x \in Execution, s \in Stack : Act(x, s)  BY <1>4, ActTyped
<1>5. CASE \E w \in Worker : StackListener(w)  BY <1>5, StackListenerTyped
<1>6. CASE \E k \in Execution \X Event : StateListener(k) \/ Redeliver(k)
  BY <1>6, StateListenerTyped, Zenon
<1>7. CASE \E x \in Execution : ExecutionSucceeds(x) \/ ExecutionBreaks(x)
  BY <1>7, EndsOfExecutionsTyped
<1>8. CASE \E s \in Stack : StackDone(s) \/ StackFails(s)  BY <1>8, EndsOfStacksTyped
<1> QED  BY <1>1, <1>2, <1>3, <1>4, <1>5, <1>6, <1>7, <1>8 DEF Next


-----------------------------------------------------------------------------
(* Date.now() never runs out: there are more times than holders of one.    *)

Holders == 3 + Cardinality(Client) + Cardinality(Worker) + 2 * MaxExec

ClockRuns == IsFiniteSet(Time) => Cardinality(Time) > Holders

LEMMA ImageSize ==
    ASSUME NEW S, IsFiniteSet(S), NEW f, f = [x \in S |-> f[x]]
    PROVE  /\ IsFiniteSet({f[x] : x \in S})
           /\ Cardinality({f[x] : x \in S}) \in Nat
           /\ Cardinality({f[x] : x \in S}) <= Cardinality(S)
<1> DEFINE T == {f[x] : x \in S}
<1>1. f \in Surjection(S, T)  BY Zenon DEF Surjection
<1>2. IsFiniteSet(T) /\ Cardinality(T) <= Cardinality(S)  BY <1>1, FS_Surjection, Zenon
<1>3. Cardinality(T) \in Nat  BY <1>2, FS_CardinalityType
<1> QED  BY <1>2, <1>3

LEMMA UnionSize ==
    ASSUME NEW S, IsFiniteSet(S), NEW T, IsFiniteSet(T)
    PROVE  /\ IsFiniteSet(S \cup T) /\ Cardinality(S \cup T) \in Nat
           /\ Cardinality(S \cup T) <= Cardinality(S) + Cardinality(T)
<1>1. IsFiniteSet(S \cup T) /\ IsFiniteSet(S \cap T)
  BY FS_Union, FS_Intersection
<1>2. /\ Cardinality(S \cup T) \in Nat /\ Cardinality(S \cap T) \in Nat
      /\ Cardinality(S) \in Nat /\ Cardinality(T) \in Nat
  BY <1>1, FS_CardinalityType
<1>3. Cardinality(S \cup T) = Cardinality(S) + Cardinality(T) - Cardinality(S \cap T)
  BY FS_Union
<1> QED  BY <1>1, <1>2, <1>3

LEMMA EventsSize ==
    /\ IsFiniteSet(Execution \X Event)
    /\ Cardinality(Execution \X Event) = 2 * MaxExec
<1>1. IsFiniteSet(Execution) /\ Cardinality(Execution) = MaxExec
  BY FS_Interval, PipelineAssumption DEF Execution
<1>2. IsFiniteSet(Event) /\ Cardinality(Event) = 2
  <2>1. IsFiniteSet({"start"}) /\ Cardinality({"start"}) = 1  BY FS_Singleton
  <2>2. Event = {"start"} \cup {"end"} /\ "end" \notin {"start"}  BY DEF Event
  <2> QED  BY <2>1, <2>2, FS_AddElement
<1>3. MaxExec \in Nat  BY PipelineAssumption
<1>4. /\ IsFiniteSet(Execution \X Event)
      /\ Cardinality(Execution \X Event) = Cardinality(Execution) * Cardinality(Event)
  BY <1>1, <1>2, FS_Product
<1> QED  BY <1>1, <1>2, <1>3, <1>4

LEMMA ThreeAtMost ==
    ASSUME NEW x, NEW y, NEW z
    PROVE  /\ IsFiniteSet({x, y, z})
           /\ Cardinality({x, y, z}) \in Nat
           /\ Cardinality({x, y, z}) <= 3
<1> DEFINE A == {x}
           B == {y}
           C == {z}
<1>1. /\ IsFiniteSet(A) /\ Cardinality(A) = 1
      /\ IsFiniteSet(B) /\ Cardinality(B) = 1
      /\ IsFiniteSet(C) /\ Cardinality(C) = 1
  BY FS_Singleton
<1>2. {x, y, z} = (A \cup B) \cup C  OBVIOUS
<1> HIDE DEF A, B, C
<1>3. /\ IsFiniteSet(A \cup B) /\ Cardinality(A \cup B) \in Nat
      /\ Cardinality(A \cup B) <= 2
  <2>1. /\ IsFiniteSet(A \cup B) /\ Cardinality(A \cup B) \in Nat
        /\ Cardinality(A \cup B) <= Cardinality(A) + Cardinality(B)
    BY <1>1, UnionSize
  <2> QED  BY <1>1, <2>1
<1>4. /\ IsFiniteSet((A \cup B) \cup C) /\ Cardinality((A \cup B) \cup C) \in Nat
      /\ Cardinality((A \cup B) \cup C) <= Cardinality(A \cup B) + Cardinality(C)
  BY <1>1, <1>3, UnionSize
<1>5. Cardinality((A \cup B) \cup C) <= 3  BY <1>1, <1>3, <1>4
<1> QED  BY <1>2, <1>4, <1>5

LEMMA SomeTimeLeft ==
    ASSUME IsFiniteSet(Client), IsFiniteSet(Worker), ClockRuns
    PROVE  Time \ Held # {}
<1> DEFINE E == Execution \X Event
           fc == [c \in Client |-> client[c].item.at]
           fw == [w \in Worker |-> worker[w].at]
           fk == [k \in E |-> lis[k].at]
           C == {fc[c] : c \in Client}
           W == {fw[w] : w \in Worker}
           K == {fk[k] : k \in E}
           I == {Never, item.at, image.at}
<1>1. Held = ((I \cup C) \cup W) \cup K  BY Zenon DEF Held
<1>2. IsFiniteSet(I) /\ Cardinality(I) \in Nat /\ Cardinality(I) <= 3
  BY ThreeAtMost
<1>3. IsFiniteSet(C) /\ Cardinality(C) \in Nat /\ Cardinality(C) <= Cardinality(Client)
  <2>1. fc = [c \in Client |-> fc[c]]  OBVIOUS
  <2> HIDE DEF fc
  <2> QED  BY <2>1, ImageSize
<1>4. IsFiniteSet(W) /\ Cardinality(W) \in Nat /\ Cardinality(W) <= Cardinality(Worker)
  <2>1. fw = [w \in Worker |-> fw[w]]  OBVIOUS
  <2> HIDE DEF fw
  <2> QED  BY <2>1, ImageSize
<1>5. IsFiniteSet(K) /\ Cardinality(K) \in Nat /\ Cardinality(K) <= 2 * MaxExec
  <2>1. fk = [k \in E |-> fk[k]]  OBVIOUS
  <2>2. IsFiniteSet(E) /\ Cardinality(E) = 2 * MaxExec  BY EventsSize
  <2> HIDE DEF fk, E
  <2> QED  BY <2>1, <2>2, ImageSize
<1> HIDE DEF I, C, W, K
<1>6. /\ IsFiniteSet(I \cup C) /\ Cardinality(I \cup C) \in Nat
      /\ Cardinality(I \cup C) <= Cardinality(I) + Cardinality(C)
  BY <1>2, <1>3, UnionSize
<1>7. /\ IsFiniteSet((I \cup C) \cup W) /\ Cardinality((I \cup C) \cup W) \in Nat
      /\ Cardinality((I \cup C) \cup W) <= Cardinality(I \cup C) + Cardinality(W)
  BY <1>4, <1>6, UnionSize
<1>8. /\ IsFiniteSet(Held) /\ Cardinality(Held) \in Nat
      /\ Cardinality(Held) <= Cardinality((I \cup C) \cup W) + Cardinality(K)
  BY <1>1, <1>5, <1>7, UnionSize
<1>9. Cardinality(Held) <= Holders
  <2>1. Cardinality(Client) \in Nat /\ Cardinality(Worker) \in Nat /\ 2 * MaxExec \in Nat
    BY FS_CardinalityType, PipelineAssumption
  <2> QED  BY <1>2, <1>3, <1>4, <1>5, <1>6, <1>7, <1>8, <2>1 DEF Holders
<1>10. SUFFICES ASSUME Time \subseteq Held PROVE FALSE  OBVIOUS
<1>11. IsFiniteSet(Time) /\ Cardinality(Time) <= Cardinality(Held)
  BY <1>8, <1>10, FS_Subset
<1>12. Cardinality(Time) \in Nat /\ Holders \in Nat
  BY <1>11, FS_CardinalityType, PipelineAssumption DEF Holders
<1> QED  BY <1>8, <1>9, <1>11, <1>12 DEF ClockRuns

\* Only the DELETE route begins a deletion whatever the status is.
LEMMA AbruptStep ==
    ASSUME [Next]_vars
    PROVE  UNCHANGED abrupt \/ \E c \in Client : Remove(c)
<1>1. CASE UNCHANGED vars  BY <1>1, Zenon DEF vars
<1>2. CASE Propagate  BY <1>2, Zenon DEF Propagate, history
<1>3. ASSUME NEW c \in Client, Request(c) PROVE UNCHANGED abrupt \/ Remove(c)
  <2>1. CASE \E kind \in RequestKinds : Read(c, kind)  BY <2>1, Zenon DEF Read
  <2>2. CASE LoadForm(c) \/ SubmitForm(c) \/ Observe(c)
    BY <2>2, Zenon DEF LoadForm, SubmitForm, Observe, history
  <2>3. ASSUME NEW x, NEW plan, NEW kind, NEW S, NEW i, Launch(c, x, plan, kind, S, i)
        PROVE  UNCHANGED abrupt
    BY <2>3, Zenon DEF Launch, history
  <2>4. CASE \E x \in Execution : \/ Create(c, x) \/ UpdateApp(c, x) \/ Update(c, x)
                                  \/ Upgrade(c, x) \/ Delete(c, x) \/ Retry(c, x)
    BY <2>3, <2>4, Zenon DEF Create, UpdateApp, Update, Upgrade, Delete, Retry
  <2>5. CASE Write(c)  BY <2>5, Zenon DEF Write
  <2>6. CASE Add(c)  BY <2>6, Zenon DEF Add, history
  <2>7. CASE Refused(c) \/ Register(c) \/ Die(c)
    BY <2>7, Zenon DEF Refused, Register, Die, history
  <2> QED  BY <1>3, <2>1, <2>2, <2>4, <2>5, <2>6, <2>7, Zenon DEF Request
<1>4. ASSUME NEW x \in Execution, NEW s \in Stack, Act(x, s) PROVE UNCHANGED abrupt
  <2>1. CASE CreateStack(x, s)  BY <2>1, Zenon DEF CreateStack, history
  <2>2. CASE UpdateStack(x, s)  BY <2>2, Zenon DEF UpdateStack, history
  <2>3. CASE DeleteStack(x, s)  BY <2>3, Zenon DEF DeleteStack, history
  <2>4. CASE DescribeStack(x, s)  BY <2>4, Zenon DEF DescribeStack, history
  <2>5. CASE ActionFails(x, s)  BY <2>5, Zenon DEF ActionFails, history
  <2> QED  BY <1>4, <2>1, <2>2, <2>3, <2>4, <2>5, Zenon DEF Act
<1>5. ASSUME NEW x \in Execution, ExecutionSucceeds(x) \/ ExecutionBreaks(x)
      PROVE  UNCHANGED abrupt
  BY <1>5, Zenon DEF ExecutionSucceeds, ExecutionBreaks, history
<1>6. ASSUME NEW s \in Stack, StackDone(s) \/ StackFails(s) PROVE UNCHANGED abrupt
  BY <1>6, Zenon DEF StackDone, StackFails, history
<1>7. ASSUME NEW w \in Worker, StackListener(w) PROVE UNCHANGED abrupt
  BY <1>7, Zenon DEF StackListener, Describe, Match, RecordStack, RecordStackAgain, history
<1>8. ASSUME NEW k \in Execution \X Event, StateListener(k) \/ Redeliver(k)
      PROVE  UNCHANGED abrupt
  <2>1. CASE Receive(k) \/ Drop(k) \/ Fetch(k) \/ DeleteProject(k) \/ Redeliver(k)
    BY <2>1, Zenon DEF Receive, Drop, Fetch, DeleteProject, Redeliver, history
  <2>2. CASE RecordStatus(k) \/ RecordStatusAgain(k)
    BY <2>2, Zenon DEF RecordStatus, RecordStatusAgain, history
  <2>3. CASE RecordStacks(k) \/ RecordStacksAgain(k)
    BY <2>3, Zenon DEF RecordStacks, RecordStacksAgain, history
  <2> QED  BY <1>8, <2>1, <2>2, <2>3, Zenon DEF StateListener
<1> QED  BY <1>1, <1>2, <1>3, <1>4, <1>5, <1>6, <1>7, <1>8, Zenon DEF Next

\* A behaviour in which no deletion is abrupt never was.
LEMMA StillInOrder ==
    ASSUME [Next]_vars, ~abrupt'
    PROVE  ~abrupt
<1>1. ASSUME NEW c \in Client, Remove(c) PROVE ~abrupt  BY <1>1, Zenon DEF Remove
<1> QED  BY <1>1, AbruptStep, Zenon

LEMMA AbruptTyped ==
    ASSUME abrupt \in BOOLEAN, [Next]_vars
    PROVE  abrupt' \in BOOLEAN
<1>1. ASSUME NEW c \in Client, Remove(c) PROVE abrupt' \in BOOLEAN
  BY <1>1, Zenon DEF Remove
<1> QED  BY <1>1, AbruptStep, Zenon

\* Whatever overlaps, lags, repeats or dies, every record and every event has
\* its type: the execution an item names exists, and describing it (refresh
\* with force, the listener of executions) finds one that was started; retries
\* stay within MAX_RETRY_COUNT.
THEOREM PipelineTypeCorrect ==
    ASSUME Stack # {}, IsFiniteSet(Client), IsFiniteSet(Worker), ClockRuns
    PROVE  Spec => []TypeOK
<1>1. Never \in Time
  <2>1. Time # {}  BY SomeTimeLeft
  <2> QED  BY <2>1 DEF Never
<1>2. Chosen(Stack) \in Stack  BY DEF Chosen
<1>3. Init => Typed(Time, Stack)  BY <1>1, <1>2, TypedInit, PipelineAssumption
<1>4. Typed(Time, Stack) /\ [Next]_vars => Typed(Time, Stack)'
  <2>1. Chosen(Time \ Held) \in Time  BY SomeTimeLeft DEF Chosen
  <2> QED  BY <1>1, <1>2, <2>1, TypedNext
<1>5. Typed(Time, Stack) /\ abrupt \in BOOLEAN => TypeOK
  <2> SUFFICES ASSUME Typed(Time, Stack), abrupt \in BOOLEAN PROVE TypeOK  OBVIOUS
  <2>1. Items(Time, Known) \subseteq Item
    <3>1. Known \subseteq 0 .. MaxExec  BY PipelineAssumption DEF Known, Execution
    <3>2. Item = Items(Time, 0 .. MaxExec)  BY Zenon DEF Item, Items
    <3> QED  BY <3>1, <3>2, ItemsGrow
  <2>2. client \in [Client -> [pc : {"idle", "form", "checked", "write", "register"},
                               kind : RequestKinds, apps : SUBSET App, item : Item]]
    BY <2>1, SMT DEF Typed, Requests, Stage
  <2>3. item \in Item /\ image \in Item  BY <2>1 DEF Typed
  <2> QED
    BY <2>2, <2>3, Zenon DEF Typed, TypeOK, ExecTyped, StackTyped, WorkerTyped,
       ListenerTyped, Hearings, Hearing
<1>6. Init => abrupt \in BOOLEAN  BY DEF Init
<1>7. abrupt \in BOOLEAN /\ [Next]_vars => (abrupt \in BOOLEAN)'  BY AbruptTyped
<1> QED  BY <1>3, <1>4, <1>5, <1>6, <1>7, PTL DEF Spec

-----------------------------------------------------------------------------
(* One execution at a time, for requests that follow one another.          *)

\* Types without any assumption on the constants.
Shape == Typed(Time \cup {Chosen({})}, Stack \cup {Chosen(Stack)})

LEMMA ShapeHolds ==
    /\ Init => Shape
    /\ Shape /\ [Next]_vars => Shape'
<1> DEFINE T == Time \cup {Chosen({})}
           S == Stack \cup {Chosen(Stack)}
<1>1. Never \in T
  <2>1. CASE Time = {}  BY <2>1 DEF Never, Chosen
  <2>2. CASE Time # {}  BY <2>2 DEF Never
  <2> QED  BY <2>1, <2>2
<1>2. Chosen(Time \ Held) \in T
  <2>1. CASE Time \ Held = {}  BY <2>1
  <2>2. CASE Time \ Held # {}
    <3>1. Chosen(Time \ Held) \in Time \ Held  BY <2>2 DEF Chosen
    <3> QED  BY <3>1
  <2> QED  BY <2>1, <2>2
<1>3. Stack \subseteq S /\ Chosen(Stack) \in S  OBVIOUS
<1> HIDE DEF T, S
<1>4. Init => Typed(T, S)  BY <1>1, <1>3, TypedInit, PipelineAssumption
<1>5. Typed(T, S) /\ [Next]_vars => Typed(T, S)'  BY <1>1, <1>2, <1>3, TypedNext
<1> QED  BY <1>4, <1>5 DEF Shape, T, S

\* Requests follow one another to their end, a read sees the last write,
\* listeners keep up, and nobody edits a form or forces a refresh.
Calm == Serial /\ Prompt /\ ~Lag /\ Kinds \cap {"update", "force"} = {}

\* The execution of x is not over, or its end not yet recorded.
Open(x) == Running(x) \/ lis[<<x, "end">>].pc \in {"queued", "status"}

\* Record i shows the execution that is open.
Shows(i) == \A x \in Execution : Open(x) => i.exec = x /\ i.status = "RUNNING"

Writing == \E c \in Client : client[c].pc = "write"

\* Requests of the kinds that are allowed follow one another.
Orderly ==
    /\ \A c, d \in Client : Acting(c) /\ Acting(d) => c = d
    /\ \A c \in Client : /\ client[c].pc # "form"
                         /\ client[c].kind \notin {"update", "force"}

\* No version condition fails.
Current ==
    /\ \A c \in Client : client[c].pc \in {"checked", "write"} /\ client[c].kind # "create" =>
                            item.phase # "none" /\ client[c].item.ver = item.ver
    /\ \A c \in Client : client[c].pc = "write" /\ client[c].kind = "create" =>
                            item.phase = "none"
    /\ item.phase = "none" =>
          \A c \in Client : Acting(c) => client[c].pc = "write" /\ client[c].kind = "create"
    /\ 1 \in Execution /\ exec[1].status = "none" =>
          /\ item.phase = "none" /\ \A c \in Client : ~Acting(c)
          /\ \A x \in Execution : exec[x].status = "none"

\* Events come in the order of what they tell, and are handled when there is
\* an item.
EventsInOrder ==
    /\ \A x \in Execution :
          /\ lis[<<x, "start">>].pc \in {"queued", "status"} => Running(x)
          /\ lis[<<x, "end">>].pc # "none" => ~Running(x)
    /\ \A k \in Execution \X Event :
          lis[k].pc \notin {"none", "queued", "done"} => item.phase # "none"

OneInv ==
    /\ image = item
    /\ Orderly /\ Current /\ EventsInOrder
    /\ ~Writing => Shows(item)
    /\ \A c \in Client : client[c].pc = "write" => Shows(client[c].item)
    /\ \A c \in Client : client[c].pc = "checked" => \A x \in Execution : ~Open(x)

\* Whatever is open is one execution.
LEMMA OneOpen ==
    ASSUME OneInv, NEW x \in Execution, NEW y \in Execution, Open(x), Open(y)
    PROVE  x = y
BY DEF OneInv, Writing, Shows

LEMMA OneInit == Init => OneInv
<1> SUFFICES ASSUME Init PROVE OneInv  OBVIOUS
<1>1. \A x \in Execution : <<x, "start">> \in Execution \X Event /\ <<x, "end">> \in Execution \X Event
  BY DEF Event
<1>2. \A k \in Execution \X Event : lis[k].pc = "none"  BY DEF Init, Silent
<1>3. \A c \in Client : client[c].pc = "idle" /\ client[c].kind = "refresh"  BY DEF Init, Idle
<1>4. \A x \in Execution : exec[x].status = "none"  BY DEF Init
<1>5. item.phase = "none"  BY DEF Init, Blank
<1>6. \A x \in Execution : ~Running(x) /\ ~Open(x)  BY <1>1, <1>2, <1>4 DEF Running, Open
<1>7. Orderly /\ Current /\ EventsInOrder
  BY <1>1, <1>2, <1>3, <1>4, <1>5, <1>6 DEF Orderly, Current, EventsInOrder, Acting
<1> QED  BY <1>3, <1>6, <1>7 DEF OneInv, Init, Writing, Shows

\* What a stamped write leaves of a record.
LEMMA StampKeeps ==
    ASSUME NEW T, NEW X, NEW i \in Items(T, X), Stamped(i), ~Lag
    PROVE  /\ image' = item'
           /\ item'.phase = i.phase /\ item'.ver = i.ver /\ item'.exec = i.exec
           /\ item'.status = i.status /\ item'.action = i.action
<1>1. PICK t : Store([i EXCEPT !.at = t])  BY StampedIsStored, Zenon
<1>2. item' = [i EXCEPT !.at = t] /\ image' = item'  BY <1>1 DEF Store
<1> QED  BY <1>2, SMT DEF Items

\* A step that changes no request and opens nothing.
LEMMA OneElsewhere ==
    ASSUME OneInv, client' = client, image' = item', item'.ver = item.ver,
           item'.phase = "none" <=> item.phase = "none",
           \A x \in Execution : exec'[x].status = "none" <=> exec[x].status = "none",
           \A x \in Execution : Open(x)' => Open(x),
           EventsInOrder', ~Writing => Shows(item)'
    PROVE  OneInv'
<1>1. Orderly'  BY DEF OneInv, Orderly, Acting
<1>2. Current'
  <2> USE DEF OneInv, Current, Acting
  <2>1. \A c \in Client : client'[c] = client[c]  OBVIOUS
  <2> QED  BY <2>1
<1>3. Writing' = Writing  BY DEF Writing
<1> QED  BY <1>1, <1>2, <1>3 DEF OneInv, Shows

\* ... and leaves events and the outcomes of executions alone.
LEMMA OneQuietly ==
    ASSUME OneInv, UNCHANGED <<client, lis>>, image' = item', item'.ver = item.ver,
           item'.phase = item.phase, item'.exec = item.exec, item'.status = item.status,
           \A x \in Execution : exec'[x].status = exec[x].status
    PROVE  OneInv'
<1>1. \A x \in Execution : (Open(x)' <=> Open(x)) /\ (Running(x)' <=> Running(x))
  BY DEF Open, Running
<1>2. EventsInOrder'  BY <1>1 DEF OneInv, EventsInOrder
<1>3. ~Writing => Shows(item)'  BY <1>1 DEF OneInv, Shows
<1> QED  BY <1>1, <1>2, <1>3, OneElsewhere

\* An execution ends when all events so far are handled and no request writes.
LEMMA EndOne ==
    ASSUME Shape, OneInv, Prompt, UNCHANGED <<itemVars, client>>, NEW x \in Execution,
           Running(x), KeptUp(Stack), NEW status \in {"SUCCEEDED", "FAILED"}, Ends(x, status)
    PROVE  OneInv'
<1>1. /\ \A k \in Execution \X Event : lis[k].pc \in {"none", "done"}
      /\ \A c \in Client : client[c].pc # "write"
  BY DEF KeptUp
<1>2. /\ exec'[x].status = status
      /\ \A y \in Execution : y # x => exec'[y] = exec[y]
  BY DEF Ends, Shape, Typed, ExecTyped
<1>3. \A y \in Execution : <<y, "start">> \in Execution \X Event /\ <<y, "end">> \in Execution \X Event
  BY DEF Event
<1>4. \A k \in Execution \X Event : k # <<x, "end">> => lis'[k] = lis[k]
  BY DEF Ends, Shape, Typed, ListenerTyped
<1>5. \A y \in Execution : Open(y)' => Open(y)
  <2>1. ASSUME NEW y \in Execution, y # x, Open(y)' PROVE Open(y)
    BY <1>2, <1>3, <1>4, <2>1 DEF Open, Running
  <2>2. Open(x)  BY DEF Open
  <2> QED  BY <2>1, <2>2
<1>6. EventsInOrder'
  <2>1. \A y \in Execution : lis[<<y, "start">>].pc \notin {"queued", "status"}
    BY <1>1, <1>3
  <2>2. lis'[<<x, "end">>].pc \in {"none", "queued"}
    BY <1>3 DEF Ends, Shape, Typed, ListenerTyped, Hearings
  <2>3. ~Running(x)' /\ \A y \in Execution : y # x => (Running(y)' <=> Running(y))
    BY <1>2 DEF Running
  <2>4. \A y \in Execution : <<y, "start">> # <<x, "end">> /\ (y # x => <<y, "end">> # <<x, "end">>)
    OBVIOUS
  <2>5. \A y \in Execution : lis'[<<y, "start">>].pc \notin {"queued", "status"}
    BY <1>3, <1>4, <2>1, <2>4
  <2>6. \A y \in Execution : lis'[<<y, "end">>].pc # "none" => ~Running(y)'
    BY <1>3, <1>4, <2>3, <2>4 DEF OneInv, EventsInOrder
  <2>7. \A k \in Execution \X Event :
           lis'[k].pc \notin {"none", "queued", "done"} => item'.phase # "none"
    BY <1>4, <2>2 DEF OneInv, EventsInOrder, itemVars
  <2> QED  BY <2>5, <2>6, <2>7 DEF EventsInOrder
<1>7. \A y \in Execution : exec'[y].status = "none" <=> exec[y].status = "none"
  BY <1>2 DEF Running
<1>8. ~Writing => Shows(item)'  BY <1>5 DEF OneInv, Shows, itemVars
<1> QED  BY <1>5, <1>6, <1>7, <1>8, OneElsewhere DEF OneInv, itemVars

\* What executions, CloudFormation and the listener of stacks do.
LEMMA CloudOne ==
    ASSUME Shape, OneInv, Calm,
           \/ \E x \in Execution, s \in Stack : Act(x, s)
           \/ \E x \in Execution : ExecutionSucceeds(x) \/ ExecutionBreaks(x)
           \/ \E s \in Stack : StackDone(s) \/ StackFails(s)
    PROVE  OneInv'
<1>1. ASSUME NEW x \in Execution, NEW s \in Stack, Act(x, s) PROVE OneInv'
  <2>1. CASE ActionFails(x, s)
    BY <2>1, EndOne DEF ActionFails, Due, Calm
  <2>2. CASE CreateStack(x, s) \/ UpdateStack(x, s) \/ DeleteStack(x, s) \/ DescribeStack(x, s)
    <3>1. UNCHANGED <<itemVars, client, lis>> /\ \E a : Goes(x, s, a)
      BY <2>2 DEF CreateStack, UpdateStack, DeleteStack, DescribeStack
    <3>2. \A y \in Execution : exec'[y].status = exec[y].status
      <4>1. PICK a : exec' = [exec EXCEPT ![x].plan[s] = a]  BY <3>1 DEF Goes
      <4> QED  BY <4>1 DEF Shape, Typed, ExecTyped
    <3> QED  BY <3>1, <3>2, OneQuietly DEF OneInv, itemVars
  <2> QED  BY <1>1, <2>1, <2>2 DEF Act
<1>2. ASSUME NEW x \in Execution, ExecutionSucceeds(x) \/ ExecutionBreaks(x) PROVE OneInv'
  BY <1>2, EndOne DEF ExecutionSucceeds, ExecutionBreaks, Calm
<1>3. ASSUME NEW s \in Stack, StackDone(s) \/ StackFails(s) PROVE OneInv'
  <2>1. UNCHANGED <<itemVars, client, lis, exec>>  BY <1>3 DEF StackDone, StackFails
  <2> QED  BY <2>1, OneQuietly DEF OneInv, itemVars
<1> QED  BY <1>1, <1>2, <1>3

LEMMA StackListenerOne ==
    ASSUME Shape, OneInv, Calm, NEW w \in Worker, StackListener(w)
    PROVE  OneInv'
<1>1. UNCHANGED <<client, lis, exec>>
  BY DEF StackListener, Describe, Match, RecordStack, RecordStackAgain
<1>2. CASE RecordStack(w)
  <2> DEFINE T == Time \cup {Chosen({})}
             i == [item EXCEPT !.stacks = worker[w].stacks]
  <2>1. item \in Items(T, Known)  BY DEF Shape, Typed
  <2>2. worker[w].stacks \in [Stack -> Recorded]  BY DEF Shape, Typed, WorkerTyped
  <2>3. i \in Items(T, Known)  BY <2>1, <2>2, ItemFields
  <2>4. /\ i.phase = item.phase /\ i.ver = item.ver /\ i.exec = item.exec
        /\ i.status = item.status
    BY <2>1, SMT DEF Items
  <2>5. Stamped(i)  BY <1>2 DEF RecordStack
  <2> HIDE DEF i, T
  <2>6. /\ image' = item' /\ item'.phase = item.phase /\ item'.ver = item.ver
        /\ item'.exec = item.exec /\ item'.status = item.status
    BY <2>3, <2>4, <2>5, StampKeeps DEF Calm
  <2> QED  BY <1>1, <2>6, OneQuietly
<1>3. CASE ~RecordStack(w)
  <2>1. UNCHANGED itemVars
    BY <1>3 DEF StackListener, Describe, Match, RecordStackAgain
  <2> QED  BY <1>1, <2>1, OneQuietly DEF OneInv, itemVars
<1> QED  BY <1>2, <1>3

\* The listener of executions handles event k a step further.
LEMMA ListenerOne ==
    ASSUME Shape, OneInv, UNCHANGED <<client, exec>>, image' = item', item'.ver = item.ver,
           item'.phase = "none" <=> item.phase = "none",
           NEW k \in Execution \X Event, lis[k].pc # "none",
           NEW r, lis' = [lis EXCEPT ![k] = r], r.pc \notin {"none", "queued"},
           r.pc = "done" \/ item.phase # "none",
           r.pc = "status" => lis[k].pc \in {"queued", "status"},
           ~Writing => Shows(item)'
    PROVE  OneInv'
<1>1. \A x \in Execution : <<x, "start">> \in Execution \X Event /\ <<x, "end">> \in Execution \X Event
  BY DEF Event
<1>2. lis'[k] = r /\ \A h \in Execution \X Event : h # k => lis'[h] = lis[h]
  BY DEF Shape, Typed, ListenerTyped
<1>3. \A h \in Execution \X Event :
         lis'[h].pc \in {"queued", "status"} => lis[h].pc \in {"queued", "status"}
  BY <1>2
<1>4. \A x \in Execution : Running(x)' <=> Running(x)  BY DEF Running
<1>5. \A x \in Execution : Open(x)' => Open(x)  BY <1>1, <1>3, <1>4 DEF Open
<1>6. EventsInOrder'
  <2>1. \A h \in Execution \X Event : lis'[h].pc # "none" => lis[h].pc # "none"  BY <1>2
  <2> QED  BY <1>1, <1>3, <1>4, <2>1 DEF OneInv, EventsInOrder
<1> QED  BY <1>5, <1>6, OneElsewhere

\* The outcome of an execution replaces what the item says of it.
LEMMA RecordStatusOne ==
    ASSUME Shape, OneInv, Calm, NEW k \in Execution \X Event, RecordStatus(k)
    PROVE  OneInv'
<1> DEFINE T == Time \cup {Chosen({})}
           x == k[1]
           i1 == [item EXCEPT !.exec = x]
           i == [i1 EXCEPT !.status = EventStatus(k)]
<1>1. lis[k].pc = "status" /\ lis' = [lis EXCEPT ![k] = AfterStatus(k)] /\ UNCHANGED <<client, exec>>
  BY DEF RecordStatus, Hears
<1>2. x \in Execution /\ (k = <<x, "start">> \/ k = <<x, "end">>)  BY DEF Event
<1>3. x \in Known /\ item \in Items(T, Known)
  BY <1>1, Zenon DEF Shape, Typed, EventsKnown
<1>4. EventStatus(k) \in {"RUNNING", "SUCCEEDED", "FAILED"}
  <2>1. x # 0  BY <1>2 DEF Execution
  <2> QED  BY <1>3, <2>1, SeenTyped DEF EventStatus, Shape, Typed
<1>5. i1 \in Items(T, Known)  BY <1>3, ItemFields
<1>6. i \in Items(T, Known)  BY <1>4, <1>5, ItemFields
<1>7. i.phase = item.phase /\ i.ver = item.ver /\ i.exec = x /\ i.status = EventStatus(k)
  <2>1. i1.phase = item.phase /\ i1.ver = item.ver /\ i1.exec = x  BY <1>3, SMT DEF Items
  <2> HIDE DEF i1
  <2> QED  BY <1>5, <2>1, SMT DEF Items
<1>8. Stamped(i)  BY Zenon DEF RecordStatus
<1> HIDE DEF i, i1, T
<1>9. /\ image' = item' /\ item'.phase = item.phase /\ item'.ver = item.ver
      /\ item'.exec = x /\ item'.status = EventStatus(k)
  BY <1>6, <1>7, <1>8, StampKeeps DEF Calm
<1>10. item.phase # "none"  BY <1>1 DEF OneInv, EventsInOrder
<1>11. Open(x)  BY <1>1, <1>2 DEF Open, OneInv, EventsInOrder
<1>12. AfterStatus(k).pc \in {"done", "fetch"}
  <2>1. lis[k] \in Hearings(T)  BY DEF Shape, Typed, ListenerTyped, T
  <2>2. [lis[k] EXCEPT !.pc = "fetch", !.tries = 0].pc = "fetch"  BY <2>1, SMT DEF Hearings
  <2>3. Done.pc = "done"  BY DEF Done, Silent
  <2> QED  BY <2>2, <2>3 DEF AfterStatus
<1>13. ~Writing => Shows(item)'
  <2> SUFFICES ASSUME ~Writing, NEW y \in Execution, Open(y)'
               PROVE  item'.exec = y /\ item'.status = "RUNNING"
    BY DEF Shows
  <2>1. \A h \in Execution \X Event : h # k => lis'[h] = lis[h]
    BY <1>1 DEF Shape, Typed, ListenerTyped
  <2>2. lis'[k].pc \in {"done", "fetch"}
    BY <1>1, <1>12 DEF Shape, Typed, ListenerTyped
  <2>3. <<y, "end">> \in Execution \X Event  BY DEF Event
  <2>4. Open(y)  BY <1>1, <2>1, <2>2, <2>3 DEF Open, Running
  <2>5. y = x  BY <1>2, <1>11, <2>4, OneOpen
  <2>6. CASE k = <<x, "start">>
    BY <1>9, <2>5, <2>6 DEF EventStatus
  <2>7. CASE k = <<x, "end">>
    <3>1. ~Running(x)  BY <1>1, <1>2, <2>7 DEF OneInv, EventsInOrder
    <3>2. ~Open(y)'  BY <1>1, <2>2, <2>5, <2>7, <3>1 DEF Open, Running
    <3> QED  BY <3>2
  <2> QED  BY <1>2, <2>6, <2>7
<1> QED  BY <1>1, <1>9, <1>10, <1>12, <1>13, ListenerOne

LEMMA StateListenerOne ==
    ASSUME Shape, OneInv, Calm, NEW k \in Execution \X Event, StateListener(k)
    PROVE  OneInv'
<1> DEFINE T == Time \cup {Chosen({})}
<1>1. UNCHANGED <<client, exec>>
  BY DEF StateListener, Receive, Drop, RecordStatus, RecordStatusAgain, Fetch,
     RecordStacks, RecordStacksAgain, DeleteProject
<1>2. lis[k] \in Hearings(T)  BY DEF Shape, Typed, ListenerTyped
<1>3. item \in Items(T, Known)  BY DEF Shape, Typed
<1>4. Done.pc = "done" /\ \A pc \in Hearing : [Silent EXCEPT !.pc = pc].pc = pc
  BY DEF Done, Silent
<1>5. AfterStatus(k).pc \in {"done", "fetch"}
  <2>1. [lis[k] EXCEPT !.pc = "fetch", !.tries = 0].pc = "fetch"  BY <1>2, SMT DEF Hearings
  <2> QED  BY <1>4, <2>1 DEF AfterStatus
<1>6. AfterStacks(k).pc \in {"done", "delete"}
  BY <1>4 DEF AfterStacks, Hearing
<1>7. lis[k].pc \notin {"none", "queued", "done"} => item.phase # "none"
  BY DEF OneInv, EventsInOrder
<1>8. ASSUME NEW r, lis' = [lis EXCEPT ![k] = r], r.pc \notin {"none", "queued"},
             r.pc = "status" => lis[k].pc \in {"queued", "status"},
             r.pc = "done" \/ item.phase # "none", lis[k].pc # "none", UNCHANGED itemVars
      PROVE  OneInv'
  <2>1. UNCHANGED <<item, image>> /\ image' = item'  BY <1>8 DEF itemVars, OneInv
  <2>2. ~Writing => Shows(item)'
    <3>1. ListenerTyped(T)  BY DEF Shape, Typed
    <3>2. \A h \in Execution \X Event :
             lis'[h].pc \in {"queued", "status"} => lis[h].pc \in {"queued", "status"}
      BY <1>8, <3>1 DEF ListenerTyped
    <3>3. \A x \in Execution : <<x, "end">> \in Execution \X Event  BY DEF Event
    <3>4. \A x \in Execution : Open(x)' => Open(x)  BY <1>1, <3>2, <3>3 DEF Open, Running
    <3> QED  BY <2>1, <3>4 DEF OneInv, Shows
  <2> QED  BY <1>1, <1>8, <2>1, <2>2, ListenerOne
<1>9. CASE Receive(k)
  <2> DEFINE r == IF image.phase = "live"
                  THEN [Silent EXCEPT !.pc = "status", !.at = image.at, !.action = image.action]
                  ELSE [Silent EXCEPT !.pc = "done"]
  <2>1. r.pc \in {"status", "done"}  BY <1>4 DEF Silent, Hearing
  <2>2. lis[k].pc = "queued" /\ image.phase # "none" /\ UNCHANGED itemVars
        /\ lis' = [lis EXCEPT ![k] = r]
    BY <1>9, Zenon DEF Receive, Hears
  <2> HIDE DEF r
  <2> QED  BY <1>8, <2>1, <2>2 DEF OneInv
<1>10. CASE RecordStatus(k)  BY <1>10, RecordStatusOne
<1>11. CASE RecordStatusAgain(k)
  <2> DEFINE r == IF image.phase # "live" THEN Done
                  ELSE IF lis[k].tries < MaxRetry
                  THEN [lis[k] EXCEPT !.at = image.at, !.tries = lis[k].tries + 1]
                  ELSE AfterStatus(k)
  <2>1. lis[k].pc = "status" /\ UNCHANGED itemVars /\ lis' = [lis EXCEPT ![k] = r]
    BY <1>11, Zenon DEF RecordStatusAgain, Hears
  <2>2. r.pc \in {"status", "done", "fetch"}
    <3>1. [lis[k] EXCEPT !.at = image.at, !.tries = lis[k].tries + 1].pc = "status"
      BY <1>2, <2>1, SMT DEF Hearings
    <3> QED  BY <1>4, <1>5, <3>1
  <2> HIDE DEF r
  <2> QED  BY <1>7, <1>8, <2>1, <2>2
<1>12. CASE Fetch(k)
  <2> DEFINE r1 == [lis[k] EXCEPT !.pc = "stacks"]
             r == [r1 EXCEPT !.stacks = ByName]
  <2>1. lis[k].pc = "fetch" /\ UNCHANGED itemVars /\ lis' = [lis EXCEPT ![k] = r]
    <3>1. lis \in [Execution \X Event -> Hearings(T)]  BY DEF Shape, Typed, ListenerTyped
    <3>2. lis' = [lis EXCEPT ![k] = r]  BY <1>12, <3>1, Zenon DEF Fetch
    <3>3. lis[k].pc = "fetch" /\ UNCHANGED itemVars  BY <1>12 DEF Fetch, Hears
    <3> QED  BY <3>2, <3>3
  <2>2. r.pc = "stacks"
    <3>1. r1 \in Hearings(T) /\ r1.pc = "stacks"  BY <1>2, SMT DEF Hearings, Hearing
    <3> HIDE DEF r1
    <3> QED  BY <3>1, SMT DEF Hearings
  <2> HIDE DEF r
  <2> QED  BY <1>7, <1>8, <2>1, <2>2
<1>13. CASE RecordStacks(k)
  <2> DEFINE i == [item EXCEPT !.stacks = lis[k].stacks]
  <2>1. lis[k].stacks \in [Stack -> Recorded]  BY <1>2 DEF Hearings
  <2>2. i \in Items(T, Known)  BY <1>3, <2>1, ItemFields
  <2>3. /\ i.phase = item.phase /\ i.ver = item.ver /\ i.exec = item.exec
        /\ i.status = item.status
    BY <1>3, SMT DEF Items
  <2>4. lis[k].pc = "stacks" /\ Stamped(i) /\ lis' = [lis EXCEPT ![k] = AfterStacks(k)]
    BY <1>13 DEF RecordStacks, Hears
  <2> HIDE DEF i, T
  <2>5. /\ image' = item' /\ item'.phase = item.phase /\ item'.ver = item.ver
        /\ item'.exec = item.exec /\ item'.status = item.status
    BY <2>2, <2>3, <2>4, StampKeeps DEF Calm
  <2>6. ~Writing => Shows(item)'
    <3>1. \A h \in Execution \X Event :
             lis'[h].pc \in {"queued", "status"} => lis[h].pc \in {"queued", "status"}
      BY <1>6, <2>4 DEF Shape, Typed, ListenerTyped
    <3>2. \A x \in Execution : <<x, "end">> \in Execution \X Event  BY DEF Event
    <3>3. \A x \in Execution : Open(x)' => Open(x)  BY <1>1, <3>1, <3>2 DEF Open, Running
    <3> QED  BY <2>5, <3>3 DEF OneInv, Shows
  <2> QED  BY <1>1, <1>6, <1>7, <2>4, <2>5, <2>6, ListenerOne
<1>14. CASE RecordStacksAgain(k)
  <2> DEFINE r == IF image.phase # "live" THEN Done
                  ELSE IF lis[k].tries < MaxRetry
                  THEN [lis[k] EXCEPT !.at = image.at, !.tries = lis[k].tries + 1,
                                      !.stacks = ByName]
                  ELSE AfterStacks(k)
  <2>1. lis[k].pc = "stacks" /\ UNCHANGED itemVars /\ lis' = [lis EXCEPT ![k] = r]
    BY <1>14, Zenon DEF RecordStacksAgain, Hears
  <2>2. r.pc \in {"stacks", "done", "delete"}
    <3>1. [lis[k] EXCEPT !.at = image.at, !.tries = lis[k].tries + 1, !.stacks = ByName].pc
             = "stacks"
      BY <1>2, <2>1, SMT DEF Hearings
    <3> QED  BY <1>4, <1>6, <3>1
  <2> HIDE DEF r
  <2> QED  BY <1>7, <1>8, <2>1, <2>2
<1>15. CASE DeleteProject(k)
  <2> DEFINE i == [item EXCEPT !.phase = "deleted"]
  <2>1. lis[k].pc = "delete" /\ item' = i /\ image' = i /\ lis' = [lis EXCEPT ![k] = Done]
    BY <1>15 DEF DeleteProject, Hears, Store, Calm
  <2>2. /\ i.phase = "deleted" /\ i.ver = item.ver /\ i.exec = item.exec
        /\ i.status = item.status
    BY <1>3, SMT DEF Items
  <2> HIDE DEF i
  <2>3. ~Writing => Shows(item)'
    <3>1. \A h \in Execution \X Event :
             lis'[h].pc \in {"queued", "status"} => lis[h].pc \in {"queued", "status"}
      BY <1>4, <2>1 DEF Shape, Typed, ListenerTyped
    <3>2. \A x \in Execution : <<x, "end">> \in Execution \X Event  BY DEF Event
    <3>3. \A x \in Execution : Open(x)' => Open(x)  BY <1>1, <3>1, <3>2 DEF Open, Running
    <3> QED  BY <2>1, <2>2, <3>3 DEF OneInv, Shows
  <2> QED  BY <1>1, <1>4, <1>7, <2>1, <2>2, <2>3, ListenerOne
<1>16. CASE Drop(k)
  <2>1. lis[k].pc = "queued" /\ UNCHANGED itemVars /\ lis' = [lis EXCEPT ![k] = Done]
    BY <1>16 DEF Drop, Hears
  <2> QED  BY <1>4, <1>8, <2>1
<1> QED
  BY <1>9, <1>10, <1>11, <1>12, <1>13, <1>14, <1>15, <1>16 DEF StateListener

\* A pipeline whose execution runs is busy, and takes no request that acts.
LEMMA RunningIsBusy ==
    ASSUME NEW i, i.status = "RUNNING", NEW kind \in {"app", "upgrade", "retry", "delete"}
    PROVE  ~Permits(kind, i)
<1>1. Status(i) = RunningStatus(i.action)  BY DEF Status
<1>2. Status(i) \in Busy  BY <1>1 DEF RunningStatus, Busy
<1> QED  BY <1>2 DEF Permits, Busy

LEMMA OneOfRequests ==
    ASSUME Shape, NEW c \in Client, NEW r, client' = [client EXCEPT ![c] = r]
    PROVE  client'[c] = r /\ \A d \in Client : d # c => client'[d] = client[d]
BY DEF Shape, Typed, Requests

LEMMA OpenSame ==
    ASSUME UNCHANGED <<lis, exec>>
    PROVE  \A x : (Open(x)' <=> Open(x)) /\ (Running(x)' <=> Running(x))
BY DEF Open, Running

\* The requests that may act, and that read the pipeline first.
Reads == {"refresh", "app", "upgrade", "retry", "delete"}

\* A deletion that is not abrupt begins as the project's would.
LEMMA CalmReads ==
    ASSUME Calm, NEW c \in Client, ~abrupt',
           (\E kind \in RequestKinds : Read(c, kind)) \/ Remove(c)
    PROVE  \E kind \in Reads :
              Begin(c, kind) /\ Permits(kind, image) /\ (kind = "refresh" => kind \in Kinds)
<1>1. CASE Remove(c)
  <2>1. Permits("delete", image) /\ Begin(c, "delete")  BY <1>1, Zenon DEF Remove
  <2>2. "delete" \in Reads /\ "delete" # "refresh"  BY DEF Reads
  <2> QED  BY <2>1, <2>2, Zenon
<1>2. ASSUME NEW kind \in RequestKinds, Read(c, kind)
      PROVE  \E k \in Reads : Begin(c, k) /\ Permits(k, image) /\ (k = "refresh" => k \in Kinds)
  <2>1. Begin(c, kind) /\ Permits(kind, image) /\ kind \in Kinds \ {"create", "update"}
    BY <1>2, Zenon DEF Read
  <2>2. kind \in Reads  BY <2>1 DEF Calm, RequestKinds, Reads
  <2> QED  BY <2>1, <2>2
<1> QED  BY <1>1, <1>2

LEMMA ReadOne ==
    ASSUME Shape, OneInv, Calm, NEW c \in Client, NEW kind \in Reads,
           Begin(c, kind), Permits(kind, image)
    PROVE  OneInv'
<1> DEFINE T == Time \cup {Chosen({})}
           pc == IF kind = "refresh" THEN "write" ELSE "checked"
<1>1. kind \in {"refresh", "app", "upgrade", "retry", "delete"}
  BY DEF Reads
<1>2. /\ client[c].pc = "idle" /\ Permits(kind, item) /\ item.phase = "live"
      /\ \A d \in Client : ~Acting(d)
  BY DEF Begin, MayBegin, Calm, OneInv, Permits
<1>3. UNCHANGED <<item, image, lis, exec>>  BY DEF Begin, itemVars
<1>4. PICK A : client' = [client EXCEPT ![c] =
                  [pc |-> pc, kind |-> kind, apps |-> A, item |-> Kept(kind)]]
  BY Zenon DEF Begin
<1> HIDE DEF pc
<1>5. /\ client'[c].pc = pc /\ client'[c].kind = kind /\ client'[c].item = Kept(kind)
      /\ \A d \in Client : d # c => client'[d] = client[d]
  <2> DEFINE r == [pc |-> pc, kind |-> kind, apps |-> A, item |-> Kept(kind)]
  <2>1. r.pc = pc /\ r.kind = kind /\ r.item = Kept(kind)  OBVIOUS
  <2>2. client' = [client EXCEPT ![c] = r]  BY <1>4
  <2> HIDE DEF r
  <2> QED  BY <2>1, <2>2, OneOfRequests
<1>6. Kept(kind).ver = item.ver
  <2>1. image \in Items(T, Known)  BY DEF Shape, Typed
  <2>2. Kept(kind).ver = image.ver  BY <2>1 DEF Kept, Items
  <2> QED  BY <2>2 DEF OneInv
<1>7. ~Writing /\ Shows(item)  BY <1>2 DEF Acting, Writing, OneInv
<1>8. Orderly'
  <2>1. \A d \in Client : Acting(d)' => d = c  BY <1>2, <1>5 DEF Acting
  <2>2. \A d \in Client : client'[d].pc # "form" /\ client'[d].kind \notin {"update", "force"}
    BY <1>1, <1>5 DEF OneInv, Orderly, pc
  <2> QED  BY <2>1, <2>2 DEF Orderly
<1>9. Current'
  <2>1. \A d \in Client : d # c => client'[d].pc \notin {"checked", "write", "register"}
    BY <1>2, <1>5 DEF Acting
  <2>2. ~(1 \in Execution /\ exec[1].status = "none")  BY <1>2 DEF OneInv, Current
  <2> QED  BY <1>1, <1>2, <1>3, <1>5, <1>6, <2>1, <2>2 DEF Current
<1>10. EventsInOrder'  BY <1>3, OpenSame DEF OneInv, EventsInOrder
<1>11. (~Writing => Shows(item))'  BY <1>3, <1>7, OpenSame DEF Shows
<1>12. \A d \in Client : client'[d].pc = "write" => Shows(client[d].item)'
  <2>1. ASSUME client'[c].pc = "write" PROVE Shows(client[c].item)'
    <3>1. Kept(kind) = item  BY <1>5, <2>1 DEF pc, Kept, OneInv
    <3> QED  BY <1>3, <1>5, <1>7, <3>1, OpenSame DEF Shows
  <2> QED  BY <1>2, <1>5, <2>1 DEF Acting
<1>13. \A d \in Client : client'[d].pc = "checked" => \A x \in Execution : ~Open(x)'
  <2>1. ASSUME client'[c].pc = "checked", NEW x \in Execution, Open(x) PROVE FALSE
    <3>1. item.status = "RUNNING"  BY <1>7, <2>1 DEF Shows
    <3>2. kind # "refresh"  BY <1>5, <2>1 DEF pc
    <3> QED  BY <1>1, <1>2, <3>1, <3>2, RunningIsBusy
  <2> QED  BY <1>2, <1>3, <1>5, <2>1, OpenSame DEF Acting
<1> QED  BY <1>3, <1>8, <1>9, <1>10, <1>11, <1>12, <1>13 DEF OneInv

\* A request starts an execution while none is open.
LEMMA LaunchOne ==
    ASSUME Shape, OneInv, NEW c \in Client, NEW x \in Execution, NEW plan, NEW A,
           NEW kind \in {"create", "app", "upgrade", "delete", "retry"},
           NEW i \in Items(Time \cup {Chosen({})}, Known), Launch(c, x, plan, kind, A, i),
           \A y \in Execution : ~Open(y), \A d \in Client : Acting(d) => d = c,
           kind = "create" => item.phase = "none",
           kind # "create" => item.phase # "none" /\ i.ver = item.ver
    PROVE  OneInv'
<1> DEFINE i1 == [i EXCEPT !.exec = x]
           i2 == [i1 EXCEPT !.status = "RUNNING"]
<1>1. i2.exec = x /\ i2.status = "RUNNING" /\ i2.ver = i.ver
  <2> DEFINE X == Known \cup {x}
             T == Time \cup {Chosen({})}
  <2>1. i \in Items(T, X)  BY ItemsGrow
  <2>2. i1.exec = x /\ i1.ver = i.ver  BY SMT DEF Items
  <2>3. i1 \in Items(T, X)  BY <2>1, ItemFields
  <2> HIDE DEF i1, T, X
  <2> QED  BY <2>2, <2>3, SMT DEF Items
<1>2. client' = [client EXCEPT ![c] = [pc |-> "write", kind |-> kind, apps |-> A, item |-> i2]]
  BY Zenon DEF Launch
<1> HIDE DEF i2
<1>3. /\ client'[c].pc = "write" /\ client'[c].kind = kind /\ client'[c].item = i2
      /\ \A d \in Client : d # c => client'[d] = client[d]
  <2> DEFINE r == [pc |-> "write", kind |-> kind, apps |-> A, item |-> i2]
  <2>1. r.pc = "write" /\ r.kind = kind /\ r.item = i2  OBVIOUS
  <2>2. client' = [client EXCEPT ![c] = r]  BY <1>2
  <2> HIDE DEF r
  <2> QED  BY <2>1, <2>2, OneOfRequests
<1>4. UNCHANGED <<item, image>> /\ exec[x].status = "none"  BY DEF Launch, itemVars
<1>5. /\ exec'[x].status = "RUNNING"
      /\ \A y \in Execution : y # x => exec'[y] = exec[y]
  BY DEF Launch, Shape, Typed, ExecTyped
<1>6. \A y \in Execution : <<y, "start">> \in Execution \X Event /\ <<y, "end">> \in Execution \X Event
  BY DEF Event
<1>7. /\ lis'[<<x, "start">>].pc = "queued"
      /\ \A k \in Execution \X Event : k # <<x, "start">> => lis'[k] = lis[k]
  <2>1. \A k \in Execution \X Event : k # <<x, "start">> => lis'[k] = lis[k]
    BY DEF Launch, Shape, Typed, ListenerTyped
  <2>2. lis'[<<x, "start">>].pc = "queued"
    BY <1>6 DEF Launch, Shape, Typed, ListenerTyped, Hearings
  <2> QED  BY <2>1, <2>2
<1>8. lis[<<x, "end">>].pc = "none"
  <2>1. x \notin Known  BY <1>4 DEF Known, Execution
  <2> QED  BY <1>6, <2>1 DEF Shape, Typed, EventsKnown
<1>9. \A y \in Execution : <<y, "end">> # <<x, "start">> /\ (y # x => <<y, "start">> # <<x, "start">>)
  OBVIOUS
<1>10. \A y \in Execution : Open(y)' => y = x
  BY <1>5, <1>6, <1>7, <1>9 DEF Open, Running
<1>11. EventsInOrder'
  <2>1. Running(x)' /\ \A y \in Execution : y # x => (Running(y)' <=> Running(y))
    BY <1>5 DEF Running
  <2>2. \A y \in Execution : lis'[<<y, "start">>].pc \in {"queued", "status"} => Running(y)'
    BY <1>6, <1>7, <1>9, <2>1 DEF OneInv, EventsInOrder
  <2>3. \A y \in Execution : lis'[<<y, "end">>].pc # "none" => ~Running(y)'
    BY <1>6, <1>7, <1>8, <1>9, <2>1 DEF OneInv, EventsInOrder
  <2>4. \A k \in Execution \X Event :
           lis'[k].pc \notin {"none", "queued", "done"} => item'.phase # "none"
    BY <1>4, <1>7 DEF OneInv, EventsInOrder
  <2> QED  BY <2>2, <2>3, <2>4 DEF EventsInOrder
<1>12. Orderly'
  <2>1. \A d \in Client : Acting(d)' => d = c  BY <1>3 DEF Acting
  <2>2. \A d \in Client : client'[d].pc # "form" /\ client'[d].kind \notin {"update", "force"}
    BY <1>3 DEF OneInv, Orderly
  <2> QED  BY <2>1, <2>2 DEF Orderly
<1>13. Current'
  <2>1. \A d \in Client : d # c => client'[d].pc \notin {"checked", "write", "register"}
    BY <1>3 DEF Acting
  <2>2. 1 \in Execution => exec'[1].status # "none"
    <3>1. x = 1 \/ exec[1].status # "none"  BY PipelineAssumption DEF Launch, Execution
    <3> QED  BY <1>5, <3>1
  <2> QED  BY <1>1, <1>3, <1>4, <2>1, <2>2 DEF Current, Acting
<1>14. Writing'  BY <1>3 DEF Writing
<1>15. \A d \in Client : client'[d].pc = "write" => Shows(client[d].item)'
  <2>1. Shows(client[c].item)'  BY <1>1, <1>3, <1>10 DEF Shows
  <2> QED  BY <1>3, <2>1 DEF Acting
<1>16. \A d \in Client : client'[d].pc # "checked"  BY <1>3 DEF Acting
<1> QED  BY <1>4, <1>11, <1>12, <1>13, <1>14, <1>15, <1>16 DEF OneInv

LEMMA StartsOne ==
    ASSUME Shape, OneInv, Calm, NEW c \in Client, NEW x \in Execution,
           \/ Create(c, x) \/ UpdateApp(c, x) \/ Update(c, x) \/ Upgrade(c, x)
           \/ Delete(c, x) \/ Retry(c, x)
    PROVE  OneInv'
<1> DEFINE T == Time \cup {Chosen({})}
           old == client[c].item
<1>1. old \in Items(T, Known) /\ client[c].apps \in SUBSET App
  <2>1. client \in Requests(T, Known)  BY DEF Shape, Typed
  <2> QED  BY <2>1, ClientTypes
<1>2. apps \in SUBSET App  BY DEF Shape, Typed
<1>3. ASSUME client[c].pc = "checked", client[c].kind # "create",
             NEW plan, NEW A, NEW kind \in {"app", "upgrade", "delete", "retry"},
             NEW i \in Items(T, Known), i.ver = old.ver, Launch(c, x, plan, kind, A, i)
      PROVE  OneInv'
  <2>1. \A y \in Execution : ~Open(y)  BY <1>3 DEF OneInv
  <2>2. \A d \in Client : Acting(d) => d = c  BY <1>3 DEF OneInv, Orderly, Acting
  <2>3. item.phase # "none" /\ i.ver = item.ver  BY <1>3 DEF OneInv, Current
  <2> QED  BY <1>3, <2>1, <2>2, <2>3, LaunchOne
<1>4. old.edits \cup {x} \in SUBSET Execution  BY <1>1, ItemTypes
<1>5. CASE Create(c, x)
  <2> DEFINE i1 == [Blank EXCEPT !.phase = "live"]
             i2 == [i1 EXCEPT !.apps = apps]
  <2>1. i2 \in Items(T, Known)
    <3>1. Never \in T
      <4>1. CASE Time = {}  BY <4>1 DEF Never, Chosen
      <4>2. CASE Time # {}  BY <4>2 DEF Never
      <4> QED  BY <4>1, <4>2
    <3>2. i1 \in Items(T, Known)  BY <3>1, BlankTyped, KnownZero, ItemFields
    <3> QED  BY <1>2, <3>2, ItemFields
  <2>2. Launch(c, x, CreatePlan, "create", apps, i2) /\ x = 1 /\ client[c].pc = "idle"
    BY <1>5, Zenon DEF Create
  <2> HIDE DEF i2
  <2>3. exec[1].status = "none"  BY <2>2 DEF Launch
  <2>4. item.phase = "none" /\ \A d \in Client : ~Acting(d)
    BY <2>2, <2>3 DEF OneInv, Current
  <2>5. \A y \in Execution : ~Open(y)
    <3>1. \A y \in Execution : <<y, "end">> \in Execution \X Event /\ <<y, "start">> \in Execution \X Event
      BY DEF Event
    <3>2. \A y \in Execution : exec[y].status = "none"  BY <2>2, <2>3 DEF OneInv, Current
    <3>3. \A y \in Execution : lis[<<y, "end">>].pc = "none"
      <4>1. Known = {0}  BY <3>2 DEF Known
      <4>2. \A y \in Execution : y \notin {0}  BY DEF Execution
      <4> QED  BY <3>1, <4>1, <4>2 DEF Shape, Typed, EventsKnown
    <3> QED  BY <3>2, <3>3 DEF Open, Running
  <2> QED  BY <2>1, <2>2, <2>4, <2>5, LaunchOne
<1>6. CASE UpdateApp(c, x)
  <2> DEFINE i1 == [old EXCEPT !.action = "Update"]
             i2 == [i1 EXCEPT !.apps = client[c].apps]
  <2>1. i1 \in Items(T, Known) /\ i1.ver = old.ver
    <3>1. i1 \in Items(T, Known)  BY <1>1, ItemFields
    <3>2. i1.ver = old.ver  BY <1>1, SMT DEF Items
    <3> QED  BY <3>1, <3>2
  <2>2. i2 \in Items(T, Known) /\ i2.ver = old.ver
    <3> HIDE DEF i1
    <3>2. i2 \in Items(T, Known)  BY <1>1, <2>1, ItemFields
    <3>3. i2.ver = old.ver  BY <2>1, SMT DEF Items
    <3> QED  BY <3>2, <3>3
  <2>3. Launch(c, x, AppPlan, "app", client[c].apps, i2)  BY <1>6, Zenon DEF UpdateApp
  <2>4. client[c].pc = "checked" /\ client[c].kind = "app"  BY <1>6 DEF UpdateApp, Checked
  <2> HIDE DEF i2
  <2> QED  BY <1>3, <2>2, <2>3, <2>4
<1>7. CASE Update(c, x)
  BY <1>7 DEF Update, Checked, OneInv, Orderly
<1>8. CASE Upgrade(c, x)
  <2> DEFINE i1 == [old EXCEPT !.action = "Upgrade"]
             i2 == [i1 EXCEPT !.apps = apps]
             i3 == [i2 EXCEPT !.edits = i2.edits \cup {x}]
  <2>1. i1 \in Items(T, Known) /\ i1.ver = old.ver
    <3>1. i1 \in Items(T, Known)  BY <1>1, ItemFields
    <3>2. i1.ver = old.ver  BY <1>1, SMT DEF Items
    <3> QED  BY <3>1, <3>2
  <2>2. i2 \in Items(T, Known) /\ i2.ver = old.ver
    <3> HIDE DEF i1
    <3>2. i2 \in Items(T, Known)  BY <1>2, <2>1, ItemFields
    <3>3. i2.ver = old.ver  BY <2>1, SMT DEF Items
    <3> QED  BY <3>2, <3>3
  <2>3. i3 \in Items(T, Known) /\ i3.ver = old.ver
    <3> HIDE DEF i2
    <3>1. i2.edits \cup {x} \in SUBSET Execution  BY <2>2, ItemTypes
    <3>2. i3 \in Items(T, Known)  BY <2>2, <3>1, ItemFields
    <3>3. i3.ver = old.ver  BY <2>2, SMT DEF Items
    <3> QED  BY <3>2, <3>3
  <2>4. Launch(c, x, UpgradePlan, "upgrade", apps, i3)  BY <1>8, Zenon DEF Upgrade
  <2>5. client[c].pc = "checked" /\ client[c].kind = "upgrade"  BY <1>8 DEF Upgrade, Checked
  <2> HIDE DEF i3
  <2> QED  BY <1>3, <2>3, <2>4, <2>5
<1>9. CASE Delete(c, x)
  <2> DEFINE i1 == [old EXCEPT !.action = "Delete"]
             i2 == [i1 EXCEPT !.stacks = ByName]
  <2>1. i1 \in Items(T, Known) /\ i1.ver = old.ver
    <3>1. i1 \in Items(T, Known)  BY <1>1, ItemFields
    <3>2. i1.ver = old.ver  BY <1>1, SMT DEF Items
    <3> QED  BY <3>1, <3>2
  <2>2. i2 \in Items(T, Known) /\ i2.ver = old.ver
    <3> HIDE DEF i1
    <3>1. ByName \in [Stack -> Recorded]  BY ByNameTyped DEF Shape, Typed
    <3>2. i2 \in Items(T, Known)  BY <2>1, <3>1, ItemFields
    <3>3. i2.ver = old.ver  BY <2>1, SMT DEF Items
    <3> QED  BY <3>2, <3>3
  <2>3. Launch(c, x, DeletePlan, "delete", apps, i2)  BY <1>9, Zenon DEF Delete
  <2>4. client[c].pc = "checked" /\ client[c].kind \in {"delete", "retry"}
    BY <1>9 DEF Delete, Checked
  <2> HIDE DEF i2
  <2> QED  BY <1>3, <2>2, <2>3, <2>4
<1>10. CASE Retry(c, x)
  <2>1. Launch(c, x, RetryPlan(old.stacks), "retry", apps, old)  BY <1>10, Zenon DEF Retry
  <2>2. client[c].pc = "checked" /\ client[c].kind = "retry"  BY <1>10 DEF Retry, Checked
  <2> QED  BY <1>1, <1>3, <2>1, <2>2
<1> QED  BY <1>5, <1>6, <1>7, <1>8, <1>9, <1>10

LEMMA IdleFields == Idle.pc = "idle" /\ Idle.kind = "refresh"
BY DEF Idle

\* The only request that acts writes what it has, and is then done or goes on
\* to register.
LEMMA StoredOne ==
    ASSUME Shape, OneInv, UNCHANGED <<lis, exec>>, NEW c \in Client, client[c].pc = "write",
           NEW r, client' = [client EXCEPT ![c] = r],
           r.pc \in {"idle", "register"}, r.kind \notin {"update", "force"},
           image' = item', item'.exec = client[c].item.exec,
           item'.status = client[c].item.status,
           item.phase # "none" => item'.phase # "none",
           r.pc = "register" => item'.phase # "none"
    PROVE  OneInv'
<1>1. \A d \in Client : Acting(d) => d = c  BY DEF OneInv, Orderly, Acting
<1>2. client'[c] = r /\ \A d \in Client : d # c => client'[d] = client[d]  BY OneOfRequests
<1>3. \A d \in Client : d # c => client'[d].pc \notin {"checked", "write", "register"}
  BY <1>1, <1>2 DEF Acting
<1>4. Orderly'
  <2>1. \A d \in Client : Acting(d)' => d = c  BY <1>3 DEF Acting
  <2>2. \A d \in Client : client'[d].pc # "form" /\ client'[d].kind \notin {"update", "force"}
    BY <1>2 DEF OneInv, Orderly
  <2> QED  BY <2>1, <2>2 DEF Orderly
<1>5. Current'
  <2>1. ~(1 \in Execution /\ exec[1].status = "none")  BY DEF OneInv, Current, Acting
  <2>2. \A d \in Client : client'[d].pc \notin {"checked", "write"}  BY <1>2, <1>3
  <2>3. item'.phase = "none" => \A d \in Client : client'[d].pc # "register"  BY <1>2, <1>3
  <2> QED  BY <2>1, <2>2, <2>3 DEF Current, Acting
<1>6. EventsInOrder'  BY OpenSame DEF OneInv, EventsInOrder
<1>7. Shows(item)'  BY OpenSame DEF OneInv, Shows
<1>8. \A d \in Client : client'[d].pc \notin {"checked", "write"}  BY <1>2, <1>3
<1> QED  BY <1>4, <1>5, <1>6, <1>7, <1>8 DEF OneInv

LEMMA WriteOne ==
    ASSUME Shape, OneInv, Calm, NEW c \in Client, Write(c)
    PROVE  OneInv'
<1> DEFINE T == Time \cup {Chosen({})}
           kind == client[c].kind
           old == client[c].item
           new == [old EXCEPT !.phase = item.phase]
           up == [new EXCEPT !.ver = new.ver + 1]
<1>1. client[c].pc = "write" /\ kind # "create" /\ UNCHANGED <<lis, exec>>  BY DEF Write
<1>2. kind \in {"refresh", "app", "upgrade", "retry", "delete"} /\ item.phase # "none"
  <2>1. client \in Requests(T, Known)  BY DEF Shape, Typed
  <2>2. kind \in RequestKinds  BY <2>1, ClientTypes
  <2> QED  BY <1>1, <2>2 DEF OneInv, Orderly, Current, RequestKinds
<1>3. old \in Items(T, Known) /\ item \in Items(T, Known)
  <2>1. client \in Requests(T, Known)  BY DEF Shape, Typed
  <2>2. item \in Items(T, Known)  BY DEF Shape, Typed
  <2> QED  BY <2>1, <2>2, ClientTypes
<1>4. new \in Items(T, Known)
  <2>1. item.phase \in {"none", "live", "deleted"}  BY <1>3, ItemTypes
  <2> QED  BY <1>3, <2>1, ItemFields
<1>5. new.phase = item.phase /\ new.exec = old.exec /\ new.status = old.status
  BY <1>3, SMT DEF Items
<1> HIDE DEF new
<1>6. up \in Items(T, Known)
  <2>1. new.ver + 1 \in Nat  BY <1>4, ItemTypes
  <2> QED  BY <1>4, <2>1, ItemFields
<1>7. up.phase = item.phase /\ up.exec = old.exec /\ up.status = old.status
  BY <1>4, <1>5, SMT DEF Items
<1> HIDE DEF up, T
<1>8. Store(new) \/ Stamped(new) \/ Stamped(up)
  BY <1>2, Zenon DEF Write, new, up
<1>9. /\ image' = item' /\ item'.phase = item.phase
      /\ item'.exec = old.exec /\ item'.status = old.status
  <2>1. CASE Store(new)  BY <1>5, <2>1 DEF Store, Calm
  <2>2. CASE Stamped(new)  BY <1>4, <1>5, <2>2, StampKeeps DEF Calm
  <2>3. CASE Stamped(up)  BY <1>6, <1>7, <2>3, StampKeeps DEF Calm
  <2> QED  BY <1>8, <2>1, <2>2, <2>3
<1>10. \E r : /\ client' = [client EXCEPT ![c] = r]
              /\ r.pc \in {"idle", "register"} /\ r.kind \notin {"update", "force"}
  <2> DEFINE r == [pc |-> "register", kind |-> "app", apps |-> client[c].apps, item |-> Blank]
  <2>1. r.pc = "register" /\ r.kind = "app"  OBVIOUS
  <2>2. client' = [client EXCEPT ![c] = Idle] \/ client' = [client EXCEPT ![c] = r]
    <3>1. client \in Requests(T, Known)  BY DEF Shape, Typed, T
    <3>2. client = [d \in Client |-> client[d]]  BY <3>1, ClientTypes
    <3> QED  BY <3>2, Zenon DEF Write
  <2> HIDE DEF r
  <2> QED  BY <2>1, <2>2, IdleFields
<1> QED  BY <1>1, <1>2, <1>9, <1>10, StoredOne

LEMMA RequestStepOne ==
    ASSUME Shape, OneInv, Calm, NEW c \in Client, Request(c), ~abrupt'
    PROVE  OneInv'
<1> DEFINE T == Time \cup {Chosen({})}
<1>1. CASE (\E kind \in RequestKinds : Read(c, kind)) \/ Remove(c)
  BY <1>1, CalmReads, ReadOne
<1>2. CASE LoadForm(c) \/ SubmitForm(c) \/ Observe(c)
  BY <1>2 DEF LoadForm, SubmitForm, Observe, Calm, OneInv, Orderly
<1>3. CASE \E x \in Execution : \/ Create(c, x) \/ UpdateApp(c, x) \/ Update(c, x)
                                \/ Upgrade(c, x) \/ Delete(c, x) \/ Retry(c, x)
  BY <1>3, StartsOne
<1>4. CASE Write(c)  BY <1>4, WriteOne
<1>5. CASE Add(c)
  <2> DEFINE old == client[c].item
  <2>1. /\ client[c].pc = "write" /\ item.phase = "none" /\ Stamped(old)
        /\ client' = [client EXCEPT ![c] = Idle] /\ UNCHANGED <<lis, exec>>
    BY <1>5 DEF Add
  <2>2. old \in Items(T, Known)
    <3>1. client \in Requests(T, Known)  BY DEF Shape, Typed
    <3> QED  BY <3>1, ClientTypes
  <2> HIDE DEF T
  <2>3. image' = item' /\ item'.exec = old.exec /\ item'.status = old.status
    BY <2>1, <2>2, StampKeeps DEF Calm
  <2> QED  BY <2>1, <2>3, IdleFields, StoredOne
<1>6. CASE Refused(c)
  BY <1>6 DEF Refused, SameVersion, OneInv, Current
<1>7. CASE Register(c)
  <2>1. /\ client[c].pc = "register" /\ client' = [client EXCEPT ![c] = Idle]
        /\ UNCHANGED <<item, image, lis, exec>>
    BY <1>7 DEF Register, itemVars
  <2>2. \A d \in Client : Acting(d) => d = c  BY <2>1 DEF OneInv, Orderly, Acting
  <2>3. client'[c] = Idle /\ \A d \in Client : d # c => client'[d] = client[d]
    BY <2>1, OneOfRequests
  <2>4. \A d \in Client : client'[d].pc \notin {"checked", "write", "register"}
    BY <2>2, <2>3, IdleFields DEF Acting
  <2>5. ~Writing /\ ~Writing'  BY <2>1, <2>2, <2>4 DEF Writing, Acting
  <2>6. Orderly'
    BY <2>3, <2>4, IdleFields DEF OneInv, Orderly, Acting
  <2>7. Current'  BY <2>1, <2>4 DEF OneInv, Current, Acting
  <2>8. EventsInOrder' /\ Shows(item)'
    BY <2>1, <2>5, OpenSame DEF OneInv, EventsInOrder, Shows
  <2> QED  BY <2>1, <2>4, <2>6, <2>7, <2>8 DEF OneInv
<1>8. CASE Die(c)  BY <1>8 DEF Die, Calm
<1> QED  BY <1>1, <1>2, <1>3, <1>4, <1>5, <1>6, <1>7, <1>8 DEF Request

LEMMA OneNext ==
    ASSUME Shape, OneInv, Calm, [Next]_vars, ~abrupt'
    PROVE  OneInv'
<1>1. CASE UNCHANGED vars
  BY <1>1, OneQuietly DEF vars, itemVars, OneInv
<1>2. CASE Propagate  BY <1>2 DEF Propagate, OneInv
<1>3. CASE \E c \in Client : Request(c)  BY <1>3, RequestStepOne
<1>4. CASE \/ \E x \in Execution, s \in Stack : Act(x, s)
           \/ \E x \in Execution : ExecutionSucceeds(x) \/ ExecutionBreaks(x)
           \/ \E s \in Stack : StackDone(s) \/ StackFails(s)
  BY <1>4, CloudOne
<1>5. CASE \E w \in Worker : StackListener(w)  BY <1>5, StackListenerOne
<1>6. CASE \E k \in Execution \X Event : StateListener(k) \/ Redeliver(k)
  <2>1. \A k \in Execution \X Event : ~Redeliver(k)  BY DEF Redeliver, Calm
  <2> QED  BY <1>6, <2>1, StateListenerOne, Zenon
<1> QED  BY <1>1, <1>2, <1>3, <1>4, <1>5, <1>6, Zenon DEF Next

\* The statuses that requests check are enough: for requests that follow one
\* another, with listeners that keep up, no creation, registration, upgrade,
\* retry or deletion starts an execution while another one runs, however
\* executions end and however many refreshes write back what they read.  The
\* exception is DELETE /pipeline/:id, which checks no status: this holds as
\* long as no deletion began by it where the project's would be refused.
THEOREM ExecutionsFollow ==
    ASSUME Calm
    PROVE  Spec => []OneExecution
<1> DEFINE Inv == Shape /\ (~abrupt => OneInv)
<1>1. Init => Inv  BY ShapeHolds, OneInit
<1>2. Inv /\ [Next]_vars => Inv'  BY ShapeHolds, OneNext, StillInOrder
<1>3. Inv => OneExecution  BY OneOpen DEF OneExecution, Open
<1> QED  BY <1>1, <1>2, <1>3, PTL DEF Spec

-----------------------------------------------------------------------------
(* A pipeline is marked deleted only when none of its stacks is left.      *)

\* The end of a deletion that succeeded is still to be heard of.
DeletedBy(x) ==
    \/ lis[<<x, "end">>].pc = "delete"
    \/ /\ exec[x].status = "SUCCEEDED"
       /\ \/ lis[<<x, "end">>].pc = "queued" /\ item.action = "Delete"
          \/ /\ lis[<<x, "end">>].pc \in {"status", "fetch", "stacks"}
             /\ lis[<<x, "end">>].action = "Delete"

Gone == item.phase = "deleted" \/ \E x \in Execution : DeletedBy(x)

\* How far a deletion has come with each stack.
Deletes(x) ==
    \A s \in Stack :
       \/ exec[x].plan[s] = "Delete"
       \/ exec[x].plan[s] = "Wait" /\ cfn[s] \in {"deleting", "none", "undeleted"}
       \/ exec[x].plan[s] = "Done" /\ cfn[s] = "none"

StartsHandled ==
    \A x \in Execution : lis[<<x, "start">>].pc \in {"none", "queued", "status", "done"}

\* A request that has started an execution writes it while it runs, and a
\* refresh does not change what the pipeline is doing.
Writers ==
    \A c \in Client : client[c].pc = "write" =>
        /\ client[c].kind = "refresh" => client[c].item.action = item.action
        /\ client[c].kind # "refresh" => /\ client[c].item.exec \in Execution
                                         /\ Running(client[c].item.exec)
        /\ client[c].kind = "create" => client[c].item.phase = "live"

\* The record says of what runs whether it is a deletion.
Deleting ==
    \A x \in Execution : Running(x) =>
        /\ ~Writing /\ item.action = "Delete" => Deletes(x)
        /\ \A c \in Client : client[c].pc = "write" /\ client[c].item.action = "Delete"
                                => Deletes(x)

\* Nothing is left, and what still runs or may start makes nothing new.
NothingLeft ==
    /\ \A s \in Stack : cfn[s] = "none"
    /\ \A x \in Execution, s \in Stack : Running(x) =>
          exec[x].plan[s] \in {"Update", "Delete", "Pass", "Done"}
    /\ \A c \in Client : client[c].pc = "checked" => client[c].item.action = "Delete"
    /\ item.phase = "deleted" \/ item.action = "Delete" \/ \E x \in Execution : Running(x)

GoneInv == StartsHandled /\ Writers /\ Deleting /\ (Gone => NothingLeft)

LEMMA GoneInit == Init => GoneInv
<1> SUFFICES ASSUME Init PROVE GoneInv  OBVIOUS
<1>1. \A x \in Execution : <<x, "start">> \in Execution \X Event /\ <<x, "end">> \in Execution \X Event
  BY DEF Event
<1>2. \A k \in Execution \X Event : lis[k].pc = "none"  BY DEF Init, Silent
<1>3. \A c \in Client : client[c].pc = "idle"  BY DEF Init, Idle
<1>4. \A x \in Execution : ~Running(x)  BY DEF Init, Running
<1>5. ~Gone  BY <1>1, <1>2 DEF Gone, DeletedBy, Init, Blank
<1>6. StartsHandled  BY <1>1, <1>2 DEF StartsHandled
<1> QED  BY <1>3, <1>4, <1>5, <1>6 DEF GoneInv, Writers, Deleting

\* A step that changes no request, execution or stack, and by which nothing
\* turns out to be gone.
LEMMA GoneElsewhere ==
    ASSUME GoneInv, UNCHANGED <<client, exec, cfn>>, item'.action = item.action,
           item.phase = "deleted" => item'.phase = "deleted",
           Gone' => Gone, StartsHandled'
    PROVE  GoneInv'
<1>1. \A x : (Running(x)' <=> Running(x)) /\ (Deletes(x)' <=> Deletes(x))
  BY DEF Running, Deletes
<1>2. Writers' /\ Deleting'  BY <1>1 DEF GoneInv, Writers, Deleting, Writing
<1>3. NothingLeft => NothingLeft'  BY <1>1 DEF NothingLeft
<1> QED  BY <1>2, <1>3 DEF GoneInv

LEMMA GoneQuietly ==
    ASSUME GoneInv, UNCHANGED <<client, lis, exec, cfn>>, item'.action = item.action,
           item'.phase = item.phase
    PROVE  GoneInv'
<1>1. Gone' => Gone  BY DEF Gone, DeletedBy
<1>2. StartsHandled'  BY DEF GoneInv, StartsHandled
<1> QED  BY <1>1, <1>2, GoneElsewhere

\* A deletion stays one with every stack it turns to.
LEMMA DeletesStep ==
    ASSUME Shape, NEW x \in Execution, NEW s \in Stack, Deletes(x),
           CreateStack(x, s) \/ UpdateStack(x, s) \/ DeleteStack(x, s) \/ DescribeStack(x, s)
    PROVE  Deletes(x)'
<1>1. /\ exec[x].plan[s] \in {"Delete", "Wait", "Done"}
      /\ exec[x].plan[s] = "Wait" => cfn[s] \in {"deleting", "none", "undeleted"}
  BY DEF Deletes
<1>2. DeleteStack(x, s) \/ DescribeStack(x, s)
  BY <1>1 DEF CreateStack, UpdateStack, Due
<1>3. /\ \A t \in Stack : t # s => cfn'[t] = cfn[t] /\ exec'[x].plan[t] = exec[x].plan[t]
      /\ \/ exec'[x].plan[s] = "Done" /\ cfn'[s] = "none"
         \/ exec'[x].plan[s] = "Wait" /\ cfn'[s] = "deleting"
  <2>1. cfn \in [Stack -> CfnStatus] /\ ExecTyped  BY DEF Shape, Typed, StackTyped
  <2>2. ASSUME NEW a, Goes(x, s, a)
        PROVE  exec'[x].plan[s] = a /\ \A t \in Stack : t # s => exec'[x].plan[t] = exec[x].plan[t]
    BY <2>1, <2>2 DEF Goes, ExecTyped, Plan
  <2>3. CASE DeleteStack(x, s)
    BY <2>1, <2>2, <2>3 DEF DeleteStack, StackEvent, stackVars
  <2>4. CASE DescribeStack(x, s)
    <3>1. cfn[s] = "none"  BY <1>1, <2>4 DEF DescribeStack, Settled
    <3> QED  BY <2>2, <2>4, <3>1 DEF DescribeStack, stackVars
  <2> QED  BY <1>2, <2>3, <2>4
<1> QED  BY <1>3 DEF Deletes

\* While nothing is left no execution makes anything.
LEMMA NothingMade ==
    ASSUME Shape, NothingLeft, NEW x \in Execution, NEW s \in Stack,
           CreateStack(x, s) \/ UpdateStack(x, s) \/ DeleteStack(x, s) \/ DescribeStack(x, s)
    PROVE  UNCHANGED cfn /\ Goes(x, s, "Done")
<1>1. Running(x) /\ cfn[s] = "none"
  BY DEF CreateStack, UpdateStack, DeleteStack, DescribeStack, Due, NothingLeft
<1>2. exec[x].plan[s] \in {"Update", "Delete", "Pass", "Done"}  BY <1>1 DEF NothingLeft
<1>3. ~CreateStack(x, s) /\ ~DescribeStack(x, s)  BY <1>2 DEF CreateStack, DescribeStack, Due
<1>4. ~UpdateStack(x, s)  BY <1>1 DEF UpdateStack, Settled, InProgress
<1> QED  BY <1>1, <1>3, <1>4 DEF DeleteStack, stackVars

LEMMA ActGone ==
    ASSUME Shape, OneInv, GoneInv, NEW x \in Execution, NEW s \in Stack,
           CreateStack(x, s) \/ UpdateStack(x, s) \/ DeleteStack(x, s) \/ DescribeStack(x, s)
    PROVE  GoneInv'
<1>1. UNCHANGED <<item, client, lis>> /\ Running(x) /\ \E a : Goes(x, s, a)
  BY DEF CreateStack, UpdateStack, DeleteStack, DescribeStack, Due, itemVars
<1>2. \A y \in Execution : exec'[y].status = exec[y].status
  <2>1. PICK a : exec' = [exec EXCEPT ![x].plan[s] = a]  BY <1>1 DEF Goes
  <2> QED  BY <2>1 DEF Shape, Typed, ExecTyped
<1>3. \A y \in Execution : Running(y)' <=> Running(y)  BY <1>2 DEF Running
<1>4. Gone' <=> Gone  BY <1>1, <1>2 DEF Gone, DeletedBy
<1>5. StartsHandled' /\ Writers'  BY <1>1, <1>3 DEF GoneInv, StartsHandled, Writers
<1>6. Deleting'
  <2>1. \A y \in Execution : Running(y) => y = x  BY <1>1, OneOpen DEF Open
  <2>2. Deletes(x) => Deletes(x)'  BY DeletesStep
  <2> QED  BY <1>1, <1>3, <2>1, <2>2 DEF GoneInv, Deleting, Writing
<1>7. ASSUME NothingLeft PROVE NothingLeft'
  <2>1. UNCHANGED cfn /\ Goes(x, s, "Done")  BY <1>7, NothingMade
  <2>2. \A y \in Execution, t \in Stack : exec'[y].plan[t] \in {exec[y].plan[t], "Done"}
    BY <2>1 DEF Goes, Shape, Typed, ExecTyped, Plan
  <2> QED  BY <1>1, <1>3, <1>7, <2>1, <2>2 DEF NothingLeft
<1> QED  BY <1>4, <1>5, <1>6, <1>7 DEF GoneInv

LEMMA EndGone ==
    ASSUME Shape, OneInv, GoneInv, Prompt, UNCHANGED <<item, client, cfn>>, NEW x \in Execution,
           Running(x), KeptUp(Stack), NEW status \in {"SUCCEEDED", "FAILED"}, Ends(x, status),
           status = "SUCCEEDED" => \A s \in Stack : exec[x].plan[s] \in {"Pass", "Done"}
    PROVE  GoneInv'
<1>1. /\ \A k \in Execution \X Event : lis[k].pc \in {"none", "done"}
      /\ \A c \in Client : client[c].pc # "write"
  BY DEF KeptUp
<1>2. /\ exec'[x].status = status
      /\ \A y \in Execution : y # x => exec'[y] = exec[y]
  BY DEF Ends, Shape, Typed, ExecTyped
<1>3. \A y \in Execution : <<y, "start">> \in Execution \X Event /\ <<y, "end">> \in Execution \X Event
  BY DEF Event
<1>4. /\ \A k \in Execution \X Event : k # <<x, "end">> => lis'[k] = lis[k]
      /\ lis'[<<x, "end">>].pc = "queued"
  <2>1. \A k \in Execution \X Event : k # <<x, "end">> => lis'[k] = lis[k]
    BY DEF Ends, Shape, Typed, ListenerTyped
  <2>2. lis'[<<x, "end">>].pc = "queued"
    BY ZenonT(60), <1>3 DEF Ends, Shape, Typed, ListenerTyped, Hearings
  <2> QED  BY <2>1, <2>2
<1>5. \A y \in Execution : ~Running(y)'
  <2>1. \A y \in Execution : Running(y) => y = x  BY OneOpen DEF Open
  <2> QED  BY <1>2, <2>1 DEF Running
<1>6. StartsHandled'
  <2>1. \A y \in Execution : <<y, "start">> # <<x, "end">>  OBVIOUS
  <2> QED  BY <1>3, <1>4, <2>1 DEF GoneInv, StartsHandled
<1>7. Writers' /\ Deleting'  BY <1>1, <1>5 DEF Writers, Deleting
<1>8. ASSUME Gone' PROVE NothingLeft'
  <2>1. \A c \in Client : client'[c].pc # "checked"  BY DEF OneInv, Open
  <2>2. CASE item.phase = "deleted"
    <3>1. NothingLeft  BY <2>2 DEF GoneInv, Gone
    <3> QED  BY <1>5, <2>1, <2>2, <3>1 DEF NothingLeft
  <2>3. CASE \E y \in Execution : DeletedBy(y)'
    <3>1. PICK y \in Execution : DeletedBy(y)'  BY <2>3
    <3>2. y = x
      <4>1. ASSUME y # x PROVE FALSE
        <5>1. <<y, "end">> # <<x, "end">>  BY <4>1
        <5>2. lis'[<<y, "end">>].pc \in {"none", "done"}  BY <1>1, <1>3, <1>4, <5>1
        <5> QED  BY <3>1, <5>2 DEF DeletedBy
      <4> QED  BY <4>1
    <3>3. status = "SUCCEEDED" /\ item.action = "Delete"
      BY <1>2, <1>4, <3>1, <3>2 DEF DeletedBy
    <3>4. Deletes(x)  BY <1>1, <3>3 DEF GoneInv, Deleting, Writing
    <3>5. \A s \in Stack : cfn[s] = "none"  BY <3>3, <3>4 DEF Deletes
    <3> QED  BY <1>5, <2>1, <3>3, <3>5 DEF NothingLeft
  <2> QED  BY <1>8, <2>2, <2>3 DEF Gone
<1> QED  BY <1>6, <1>7, <1>8 DEF GoneInv

LEMMA CloudGone ==
    ASSUME Shape, OneInv, GoneInv, Calm,
           \/ \E x \in Execution, s \in Stack : Act(x, s)
           \/ \E x \in Execution : ExecutionSucceeds(x) \/ ExecutionBreaks(x)
           \/ \E s \in Stack : StackDone(s) \/ StackFails(s)
    PROVE  GoneInv'
<1>1. ASSUME NEW x \in Execution, NEW s \in Stack, Act(x, s) PROVE GoneInv'
  <2>1. CASE ActionFails(x, s)
    <3>1. /\ Running(x) /\ KeptUp(Stack) /\ Ends(x, "FAILED") /\ UNCHANGED <<item, client, cfn>>
      BY <2>1 DEF ActionFails, Due, itemVars, stackVars
    <3> QED  BY <3>1, EndGone DEF Calm
  <2> QED  BY <1>1, <2>1, ActGone DEF Act
<1>2. ASSUME NEW x \in Execution, ExecutionSucceeds(x) PROVE GoneInv'
  <2>1. /\ Running(x) /\ KeptUp(Stack) /\ Ends(x, "SUCCEEDED") /\ UNCHANGED <<item, client, cfn>>
        /\ \A s \in Stack : exec[x].plan[s] \in {"Pass", "Done"}
    BY <1>2 DEF ExecutionSucceeds, itemVars, stackVars
  <2> QED  BY <2>1, EndGone DEF Calm
<1>3. ASSUME NEW x \in Execution, ExecutionBreaks(x) PROVE GoneInv'
  <2>1. /\ Running(x) /\ KeptUp(Stack) /\ Ends(x, "FAILED") /\ UNCHANGED <<item, client, cfn>>
    BY <1>3 DEF ExecutionBreaks, itemVars, stackVars
  <2> QED  BY <2>1, EndGone DEF Calm
<1>4. ASSUME NEW s \in Stack, StackDone(s) \/ StackFails(s) PROVE GoneInv'
  <2>1. UNCHANGED <<item, client, lis, exec>>  BY <1>4 DEF StackDone, StackFails, itemVars
  <2>2. /\ cfn[s] \in {"creating", "updating", "deleting"}
        /\ cfn[s] = "deleting" => cfn'[s] \in {"none", "undeleted"}
        /\ \A t \in Stack : t # s => cfn'[t] = cfn[t]
    BY <1>4 DEF StackDone, StackFails, StackEvent, Shape, Typed, StackTyped
  <2>3. ~Gone /\ ~Gone'
    <3>1. ~Gone  BY <2>2 DEF GoneInv, NothingLeft
    <3> QED  BY <2>1, <3>1 DEF Gone, DeletedBy
  <2>4. \A x \in Execution : Deletes(x) => Deletes(x)'  BY <2>1, <2>2 DEF Deletes
  <2>5. StartsHandled' /\ Writers' /\ Deleting'
    BY <2>1, <2>4 DEF GoneInv, StartsHandled, Writers, Deleting, Writing, Running
  <2> QED  BY <2>3, <2>5 DEF GoneInv
<1> QED  BY <1>1, <1>2, <1>3, <1>4

LEMMA StackListenerGone ==
    ASSUME Shape, OneInv, GoneInv, Calm, NEW w \in Worker, StackListener(w)
    PROVE  GoneInv'
<1>1. UNCHANGED <<client, lis, exec, cfn>>
  BY DEF StackListener, Describe, Match, RecordStack, RecordStackAgain, stackVars
<1>2. item'.action = item.action /\ item'.phase = item.phase
  <2>1. CASE RecordStack(w)
    <3> DEFINE T == Time \cup {Chosen({})}
               i == [item EXCEPT !.stacks = worker[w].stacks]
    <3>1. item \in Items(T, Known)  BY DEF Shape, Typed
    <3>2. worker[w].stacks \in [Stack -> Recorded]  BY DEF Shape, Typed, WorkerTyped
    <3>3. i \in Items(T, Known)  BY <3>1, <3>2, ItemFields
    <3>4. i.action = item.action /\ i.phase = item.phase  BY <3>1, SMT DEF Items
    <3>5. Stamped(i)  BY <2>1 DEF RecordStack
    <3> HIDE DEF i, T
    <3> QED  BY <3>3, <3>4, <3>5, StampKeeps DEF Calm
  <2>2. CASE ~RecordStack(w)
    BY <2>2 DEF StackListener, Describe, Match, RecordStackAgain, itemVars
  <2> QED  BY <2>1, <2>2
<1> QED  BY <1>1, <1>2, GoneQuietly

\* The listener of executions handles event k a step further.
LEMMA ListenerGone ==
    ASSUME Shape, GoneInv, UNCHANGED <<client, exec, cfn>>, item'.action = item.action,
           item'.phase = item.phase \/ (item'.phase = "deleted" /\ Gone),
           NEW k \in Execution \X Event, NEW r, lis' = [lis EXCEPT ![k] = r],
           k[2] = "start" => r.pc \in {"status", "done"},
           r.pc # "queued",
           k[2] = "end" /\ r.pc = "delete" => DeletedBy(k[1]),
           k[2] = "end" /\ r.pc \in {"status", "fetch", "stacks"} /\ r.action = "Delete"
              /\ exec[k[1]].status = "SUCCEEDED" => DeletedBy(k[1])
    PROVE  GoneInv'
<1>1. \A x \in Execution : <<x, "start">> \in Execution \X Event /\ <<x, "end">> \in Execution \X Event
  BY DEF Event
<1>2. lis'[k] = r /\ \A h \in Execution \X Event : h # k => lis'[h] = lis[h]
  BY DEF Shape, Typed, ListenerTyped
<1>3. StartsHandled'
  <2>1. ASSUME NEW x \in Execution
        PROVE  lis'[<<x, "start">>].pc \in {"none", "queued", "status", "done"}
    <3>1. CASE k = <<x, "start">>  BY <1>2, <3>1
    <3>2. CASE k # <<x, "start">>  BY <1>1, <1>2, <3>2 DEF GoneInv, StartsHandled
    <3> QED  BY <3>1, <3>2
  <2> QED  BY <2>1 DEF StartsHandled
<1>4. ASSUME NEW x \in Execution, DeletedBy(x)' PROVE DeletedBy(x)
  <2>1. CASE k = <<x, "end">>
    <3>1. k[1] = x /\ k[2] = "end"  BY <2>1
    <3> QED  BY <1>2, <1>4, <2>1, <3>1 DEF DeletedBy
  <2>2. CASE k # <<x, "end">>
    <3>1. lis'[<<x, "end">>] = lis[<<x, "end">>]  BY <1>1, <1>2, <2>2
    <3> QED  BY <1>4, <3>1 DEF DeletedBy
  <2> QED  BY <2>1, <2>2
<1>5. Gone' => Gone  BY <1>4 DEF Gone
<1> QED  BY <1>3, <1>5, GoneElsewhere

LEMMA StateListenerGone ==
    ASSUME Shape, OneInv, GoneInv, Calm, NEW k \in Execution \X Event, StateListener(k)
    PROVE  GoneInv'
<1> DEFINE T == Time \cup {Chosen({})}
           x == k[1]
<1>1. UNCHANGED <<client, exec, cfn>>
  BY DEF StateListener, Receive, Drop, RecordStatus, RecordStatusAgain, Fetch,
     RecordStacks, RecordStacksAgain, DeleteProject, stackVars
<1>2. lis[k] \in Hearings(T) /\ lis \in [Execution \X Event -> Hearings(T)]
  BY DEF Shape, Typed, ListenerTyped
<1>3. item \in Items(T, Known)  BY DEF Shape, Typed
<1>4. x \in Execution /\ (k = <<x, "start">> \/ k = <<x, "end">>)  BY DEF Event
<1>5. Done.pc = "done" /\ \A pc \in Hearing : [Silent EXCEPT !.pc = pc].pc = pc
  BY DEF Done, Silent
<1>6. k[2] = "start" => lis[k].pc \in {"none", "queued", "status", "done"}
  BY <1>4 DEF GoneInv, StartsHandled
<1>7. lis[k].pc \in {"status", "fetch", "stacks"} /\ lis[k].action = "Delete"
         /\ exec[x].status = "SUCCEEDED" /\ k[2] = "end" => DeletedBy(x)
  BY <1>4 DEF DeletedBy
<1>8. ASSUME lis[k].pc = "status"
      PROVE  \/ AfterStatus(k).pc = "done"
             \/ k[2] = "end" /\ AfterStatus(k).pc = "fetch" /\ AfterStatus(k).action = lis[k].action
  <2> DEFINE r1 == [lis[k] EXCEPT !.pc = "fetch"]
  <2>1. r1.pc = "fetch" /\ r1.action = lis[k].action /\ r1 \in Hearings(T)
    <3>1. r1 \in Hearings(T)  BY <1>2, HearingFields DEF Hearing
    <3>2. r1.pc = "fetch" /\ r1.action = lis[k].action  BY <1>2, SMT DEF Hearings
    <3> QED  BY <3>1, <3>2
  <2> HIDE DEF r1
  <2>2. [r1 EXCEPT !.tries = 0].pc = "fetch" /\ [r1 EXCEPT !.tries = 0].action = lis[k].action
    BY <2>1, SMT DEF Hearings
  <2>3. [lis[k] EXCEPT !.pc = "fetch", !.tries = 0] = [r1 EXCEPT !.tries = 0]  BY Zenon DEF r1
  <2> QED  BY <1>4, <1>5, <2>2, <2>3 DEF AfterStatus
<1>9. ASSUME lis[k].pc = "stacks"
      PROVE  \/ AfterStacks(k).pc = "done"
             \/ k[2] = "end" /\ AfterStacks(k).pc = "delete" /\ DeletedBy(x)
  <2>1. k[2] = "end"  BY <1>4, <1>6, <1>9
  <2>2. EventStatus(k) = exec[x].status  BY <2>1 DEF EventStatus
  <2> QED  BY <1>5, <1>7, <1>9, <2>1, <2>2 DEF AfterStacks, Hearing
<1>0. ASSUME NEW r, lis' = [lis EXCEPT ![k] = r], item'.action = item.action,
              item'.phase = item.phase,
              \/ r.pc = "done"
              \/ r.pc = "status" /\ r.action = lis[k].action /\ lis[k].pc = "status"
              \/ /\ r.pc \in {"fetch", "stacks"} /\ r.action = lis[k].action
                 /\ lis[k].pc \in {"status", "fetch", "stacks"} /\ k[2] = "end"
              \/ r.pc = "delete" /\ k[2] = "end" /\ DeletedBy(x)
       PROVE  GoneInv'
  <2>1. k[2] = "start" => r.pc \in {"status", "done"}  BY <1>4, <1>0
  <2>2. r.pc # "queued"  BY <1>0
  <2>3. k[2] = "end" /\ r.pc = "delete" => DeletedBy(x)  BY <1>0
  <2>4. k[2] = "end" /\ r.pc \in {"status", "fetch", "stacks"} /\ r.action = "Delete"
           /\ exec[x].status = "SUCCEEDED" => DeletedBy(x)
    BY <1>7, <1>0
  <2>5. item'.phase = item.phase  BY <1>0
  <2>6. item'.phase = item.phase \/ (item'.phase = "deleted" /\ Gone)  BY ONLY <2>5
  <2> QED  BY <1>1, <1>0, <2>1, <2>2, <2>3, <2>4, <2>6, ListenerGone, Zenon
<1>10. CASE Receive(k)
  <2> DEFINE r1 == [Silent EXCEPT !.pc = "status", !.at = image.at, !.action = image.action]
             r2 == [Silent EXCEPT !.pc = "done"]
             r == IF image.phase = "live" THEN r1 ELSE r2
  <2>1. r1.pc = "status" /\ r1.action = item.action /\ r2.pc = "done"
    BY DEF Silent, OneInv
  <2>2. lis[k].pc = "queued" /\ UNCHANGED itemVars /\ lis' = [lis EXCEPT ![k] = r]
    BY <1>10, Zenon DEF Receive, Hears
  <2>3. r.pc = "done" \/ (r.pc = "status" /\ r.action = item.action)
    <3>1. CASE image.phase = "live"
      <4>1. r1.pc = "status" /\ r1.action = item.action  BY <2>1
      <4>2. r = r1  BY <3>1
      <4> HIDE DEF r, r1
      <4> QED  BY <4>1, <4>2
    <3>2. CASE image.phase # "live"
      <4>1. r2.pc = "done"  BY <2>1
      <4>2. r = r2  BY <3>2
      <4> HIDE DEF r, r2
      <4> QED  BY <4>1, <4>2
    <3> QED  BY <3>1, <3>2
  <2> HIDE DEF r
  <2>4. k[2] = "end" /\ item.action = "Delete" /\ exec[x].status = "SUCCEEDED" => DeletedBy(x)
    BY <1>4, <2>2 DEF DeletedBy
  <2>5. /\ k[2] = "start" => r.pc \in {"status", "done"}
        /\ r.pc # "queued"
        /\ k[2] = "end" /\ r.pc = "delete" => DeletedBy(x)
    BY <2>3
  <2>6. k[2] = "end" /\ r.pc \in {"status", "fetch", "stacks"} /\ r.action = "Delete"
           /\ exec[x].status = "SUCCEEDED" => DeletedBy(x)
    BY <2>3, <2>4
  <2>7. /\ item'.action = item.action
        /\ item'.phase = item.phase \/ (item'.phase = "deleted" /\ Gone)
    <3>1. item' = item  BY <2>2 DEF itemVars
    <3>2. item'.action = item.action /\ item'.phase = item.phase  BY ONLY <3>1
    <3> QED  BY ONLY <3>2
  <2> QED  BY <1>1, <2>2, <2>5, <2>6, <2>7, ListenerGone, Zenon
<1>11. CASE RecordStatus(k)
  <2> DEFINE i1 == [item EXCEPT !.exec = x]
             i == [i1 EXCEPT !.status = EventStatus(k)]
  <2>1. lis[k].pc = "status" /\ lis' = [lis EXCEPT ![k] = AfterStatus(k)]
    BY <1>11 DEF RecordStatus, Hears
  <2>2. x \in Known  BY <2>1, Zenon DEF Shape, Typed, EventsKnown
  <2>3. EventStatus(k) \in {"RUNNING", "SUCCEEDED", "FAILED"}
    <3>1. x # 0  BY <1>4 DEF Execution
    <3> QED  BY <2>2, <3>1, SeenTyped DEF EventStatus, Shape, Typed
  <2>4. i1 \in Items(T, Known) /\ i1.action = item.action /\ i1.phase = item.phase
    <3>1. i1 \in Items(T, Known)  BY <1>3, <2>2, ItemFields
    <3>2. i1.action = item.action /\ i1.phase = item.phase  BY <1>3, SMT DEF Items
    <3> QED  BY <3>1, <3>2
  <2> HIDE DEF i1
  <2>5. i \in Items(T, Known)  BY <2>3, <2>4, ItemFields
  <2>6. i.action = item.action /\ i.phase = item.phase  BY <2>4, SMT DEF Items
  <2>7. Stamped(i)  BY <1>11, Zenon DEF RecordStatus, i1
  <2> HIDE DEF i, T
  <2>8. item'.action = item.action /\ item'.phase = item.phase
    BY <2>5, <2>6, <2>7, StampKeeps DEF Calm
  <2> QED  BY <1>8, <1>0, <2>1, <2>8
<1>12. CASE RecordStatusAgain(k)
  <2> DEFINE r1 == [lis[k] EXCEPT !.at = image.at, !.tries = lis[k].tries + 1]
             r == IF image.phase # "live" THEN Done
                  ELSE IF lis[k].tries < MaxRetry THEN r1 ELSE AfterStatus(k)
  <2>1. lis[k].pc = "status" /\ UNCHANGED itemVars /\ lis' = [lis EXCEPT ![k] = r]
    BY <1>12, Zenon DEF RecordStatusAgain, Hears
  <2>2. r1.pc = "status" /\ r1.action = lis[k].action
    BY <1>2, <2>1, SMT DEF Hearings
  <2> HIDE DEF r1
  <2>3. \/ r.pc = "done"
        \/ r.pc = "status" /\ r.action = lis[k].action
        \/ k[2] = "end" /\ r.pc = "fetch" /\ r.action = lis[k].action
    BY <1>5, <1>8, <2>1, <2>2
  <2> HIDE DEF r
  <2> QED  BY <1>0, <2>1, <2>3 DEF itemVars
<1>13. CASE Fetch(k)
  <2> DEFINE r1 == [lis[k] EXCEPT !.pc = "stacks"]
             r == [r1 EXCEPT !.stacks = ByName]
  <2>1. lis[k].pc = "fetch" /\ UNCHANGED itemVars /\ lis' = [lis EXCEPT ![k] = r]
    <3>1. lis' = [lis EXCEPT ![k] = r]  BY <1>2, <1>13, Zenon DEF Fetch
    <3> QED  BY <1>13, <3>1 DEF Fetch, Hears
  <2>2. r1 \in Hearings(T) /\ r1.pc = "stacks" /\ r1.action = lis[k].action
    <3>1. r1 \in Hearings(T)  BY <1>2, HearingFields DEF Hearing
    <3>2. r1.pc = "stacks" /\ r1.action = lis[k].action  BY <1>2, SMT DEF Hearings
    <3> QED  BY <3>1, <3>2
  <2> HIDE DEF r1
  <2>3. r.pc = "stacks" /\ r.action = lis[k].action  BY <2>2, SMT DEF Hearings
  <2> HIDE DEF r
  <2>4. k[2] = "end"  BY <1>4, <1>6, <2>1
  <2> QED  BY <1>0, <2>1, <2>3, <2>4 DEF itemVars
<1>14. CASE RecordStacks(k)
  <2> DEFINE i == [item EXCEPT !.stacks = lis[k].stacks]
  <2>1. lis[k].stacks \in [Stack -> Recorded]  BY <1>2 DEF Hearings
  <2>2. i \in Items(T, Known)  BY <1>3, <2>1, ItemFields
  <2>3. i.phase = item.phase /\ i.action = item.action  BY <1>3, SMT DEF Items
  <2>4. lis[k].pc = "stacks" /\ Stamped(i) /\ lis' = [lis EXCEPT ![k] = AfterStacks(k)]
    BY <1>14 DEF RecordStacks, Hears
  <2> HIDE DEF i, T
  <2>5. item'.action = item.action /\ item'.phase = item.phase
    BY <2>2, <2>3, <2>4, StampKeeps DEF Calm
  <2> QED  BY <1>9, <1>0, <2>4, <2>5
<1>15. CASE RecordStacksAgain(k)
  <2> DEFINE r1 == [lis[k] EXCEPT !.at = image.at, !.tries = lis[k].tries + 1,
                                  !.stacks = ByName]
             r == IF image.phase # "live" THEN Done
                  ELSE IF lis[k].tries < MaxRetry THEN r1 ELSE AfterStacks(k)
  <2>1. lis[k].pc = "stacks" /\ UNCHANGED itemVars /\ lis' = [lis EXCEPT ![k] = r]
    BY <1>15, Zenon DEF RecordStacksAgain, Hears
  <2>2. r1.pc = "stacks" /\ r1.action = lis[k].action
    BY <1>2, <2>1, SMT DEF Hearings
  <2> HIDE DEF r1
  <2>3. \/ r.pc = "done"
        \/ r.pc = "stacks" /\ r.action = lis[k].action
        \/ k[2] = "end" /\ r.pc = "delete" /\ DeletedBy(x)
    BY <1>5, <1>9, <2>1, <2>2
  <2> HIDE DEF r
  <2>4. k[2] = "end"  BY <1>4, <1>6, <2>1
  <2>5. item'.action = item.action /\ item'.phase = item.phase  BY <2>1 DEF itemVars
  <2> QED  BY <1>0, <2>1, <2>3, <2>4, <2>5
<1>16. CASE DeleteProject(k)
  <2>1. /\ lis[k].pc = "delete" /\ item' = [item EXCEPT !.phase = "deleted"]
        /\ lis' = [lis EXCEPT ![k] = Done]
    BY <1>16 DEF DeleteProject, Hears, Store
  <2>2. item'.phase = "deleted" /\ item'.action = item.action  BY <1>3, <2>1, SMT DEF Items
  <2>3. Gone  BY <1>4, <1>6, <2>1 DEF Gone, DeletedBy
  <2> QED  BY <1>1, <1>5, <2>1, <2>2, <2>3, ListenerGone
<1>17. CASE Drop(k)
  <2>1. UNCHANGED itemVars /\ lis' = [lis EXCEPT ![k] = Done]  BY <1>17 DEF Drop
  <2>2. item'.action = item.action /\ item'.phase = item.phase  BY <2>1 DEF itemVars
  <2> QED  BY <1>5, <1>0, <2>1, <2>2
<1> QED
  BY <1>10, <1>11, <1>12, <1>13, <1>14, <1>15, <1>16, <1>17 DEF StateListener

\* A request that reads the item takes over what the pipeline is doing.
LEMMA ReadGone ==
    ASSUME Shape, OneInv, GoneInv, Calm, NEW c \in Client, NEW kind \in Reads,
           Begin(c, kind), Permits(kind, image)
    PROVE  GoneInv'
<1> DEFINE pc == IF kind = "refresh" THEN "write" ELSE "checked"
<1>1. kind \in {"refresh", "app", "upgrade", "retry", "delete"}
  BY DEF Reads
<1>2. /\ client[c].pc = "idle" /\ Permits(kind, item) /\ item.phase = "live"
      /\ \A d \in Client : ~Acting(d)
  BY DEF Begin, MayBegin, Calm, OneInv, Permits
<1>3. UNCHANGED <<item, lis, exec, cfn>>  BY DEF Begin, itemVars, stackVars
<1>4. PICK A : client' = [client EXCEPT ![c] =
                  [pc |-> pc, kind |-> kind, apps |-> A, item |-> Kept(kind)]]
  BY Zenon DEF Begin
<1> HIDE DEF pc
<1>5. /\ client'[c].pc = pc /\ client'[c].kind = kind /\ client'[c].item = Kept(kind)
      /\ \A d \in Client : d # c => client'[d] = client[d]
  <2> DEFINE r == [pc |-> pc, kind |-> kind, apps |-> A, item |-> Kept(kind)]
  <2>1. r.pc = pc /\ r.kind = kind /\ r.item = Kept(kind)  OBVIOUS
  <2>2. client' = [client EXCEPT ![c] = r]  BY <1>4
  <2> HIDE DEF r
  <2> QED  BY <2>1, <2>2, OneOfRequests
<1>6. Kept(kind).action = item.action
  <2>1. image \in Items(Time \cup {Chosen({})}, Known)  BY DEF Shape, Typed
  <2>2. Kept(kind).action = image.action  BY <2>1 DEF Kept, Items
  <2> QED  BY <2>2 DEF OneInv
<1>7. ~Writing  BY <1>2 DEF Acting, Writing
<1>8. \A d \in Client : client'[d].pc \in {"checked", "write"} => d = c
  BY <1>2, <1>5 DEF Acting
<1>9. /\ \A x : (Running(x)' <=> Running(x)) /\ (Deletes(x)' <=> Deletes(x))
      /\ Gone' <=> Gone
  BY <1>3 DEF Running, Deletes, Gone, DeletedBy
<1>10. StartsHandled'  BY <1>3 DEF GoneInv, StartsHandled
<1>11. Writers'
  <2>1. client'[c].pc = "write" => kind = "refresh"  BY <1>5 DEF pc
  <2> QED  BY <1>3, <1>5, <1>6, <1>8, <2>1 DEF Writers
<1>12. Deleting'
  <2>1. \A x \in Execution : Running(x) /\ item.action = "Delete" => Deletes(x)
    BY <1>7 DEF GoneInv, Deleting
  <2> QED  BY <1>3, <1>5, <1>6, <1>8, <1>9, <2>1 DEF Deleting
<1>13. ASSUME NothingLeft PROVE NothingLeft'
  <2>1. ASSUME kind # "refresh" PROVE item.action = "Delete"
    <3>1. item.action = "Delete" \/ \E x \in Execution : Running(x)
      BY <1>2, <1>13 DEF NothingLeft
    <3>2. ASSUME NEW x \in Execution, Running(x) PROVE FALSE
      <4>1. item.status = "RUNNING"  BY <1>7, <3>2 DEF OneInv, Shows, Open
      <4> QED  BY <1>1, <1>2, <2>1, <4>1, RunningIsBusy
    <3> QED  BY <3>1, <3>2
  <2>2. client'[c].pc = "checked" => client'[c].item.action = "Delete"
    BY <1>5, <1>6, <2>1 DEF pc
  <2> QED  BY <1>3, <1>8, <1>9, <1>13, <2>2 DEF NothingLeft
<1> QED  BY <1>9, <1>10, <1>11, <1>12, <1>13 DEF GoneInv

\* A request starts an execution: when all is gone, one that makes nothing.
LEMMA LaunchGone ==
    ASSUME Shape, GoneInv, NEW c \in Client, NEW x \in Execution, NEW plan, NEW A,
           NEW kind \in {"create", "app", "upgrade", "delete", "retry"},
           NEW i \in Items(Time \cup {Chosen({})}, Known), Launch(c, x, plan, kind, A, i),
           \A y \in Execution : ~Open(y), \A d \in Client : Acting(d) => d = c,
           kind = "create" => i.phase = "live",
           i.action = "Delete" => plan = DeletePlan,
           Gone => \A s \in Stack : plan[s] \in {"Update", "Delete", "Pass", "Done"}
    PROVE  GoneInv'
<1> DEFINE i1 == [i EXCEPT !.exec = x]
           i2 == [i1 EXCEPT !.status = "RUNNING"]
<1>1. i2.exec = x /\ i2.phase = i.phase /\ i2.action = i.action
  <2> DEFINE X == Known \cup {x}
             T == Time \cup {Chosen({})}
  <2>1. i \in Items(T, X)  BY ItemsGrow
  <2>2. i1.exec = x /\ i1.phase = i.phase /\ i1.action = i.action  BY SMT DEF Items
  <2>3. i1 \in Items(T, X)  BY <2>1, ItemFields
  <2> HIDE DEF i1, T, X
  <2> QED  BY <2>2, <2>3, SMT DEF Items
<1>2. client' = [client EXCEPT ![c] = [pc |-> "write", kind |-> kind, apps |-> A, item |-> i2]]
  BY Zenon DEF Launch
<1> HIDE DEF i2
<1>3. /\ client'[c].pc = "write" /\ client'[c].kind = kind /\ client'[c].item = i2
      /\ \A d \in Client : d # c => client'[d] = client[d]
  <2> DEFINE r == [pc |-> "write", kind |-> kind, apps |-> A, item |-> i2]
  <2>1. r.pc = "write" /\ r.kind = kind /\ r.item = i2  OBVIOUS
  <2>2. client' = [client EXCEPT ![c] = r]  BY <1>2
  <2> HIDE DEF r
  <2> QED  BY ZenonT(60), <2>1, <2>2, OneOfRequests
<1>4. \A d \in Client : client'[d].pc \in {"checked", "write"} => d = c  BY <1>3 DEF Acting
<1>5. UNCHANGED <<item, cfn>>  BY DEF Launch, itemVars, stackVars
<1>6. /\ exec'[x].status = "RUNNING" /\ exec'[x].plan = plan
      /\ \A y \in Execution : y # x => exec'[y] = exec[y]
  BY DEF Launch, Shape, Typed, ExecTyped
<1>7. \A y \in Execution : Running(y)' <=> y = x
  BY <1>6 DEF Open, Running
<1>8. \A y \in Execution : <<y, "start">> \in Execution \X Event /\ <<y, "end">> \in Execution \X Event
  BY DEF Event
<1>9. /\ lis'[<<x, "start">>].pc = "queued"
      /\ \A k \in Execution \X Event : k # <<x, "start">> => lis'[k] = lis[k]
  <2>1. \A k \in Execution \X Event : k # <<x, "start">> => lis'[k] = lis[k]
    BY DEF Launch, Shape, Typed, ListenerTyped
  <2>2. lis'[<<x, "start">>].pc = "queued"
    BY <1>8 DEF Launch, Shape, Typed, ListenerTyped, Hearings
  <2> QED  BY <2>1, <2>2
<1>10. \A y \in Execution : <<y, "end">> # <<x, "start">> /\ (y # x => <<y, "start">> # <<x, "start">>)
  OBVIOUS
<1>11. StartsHandled'  BY <1>8, <1>9, <1>10 DEF GoneInv, StartsHandled
<1>12. Writers'
  <2>1. kind # "refresh"  OBVIOUS
  <2> QED  BY <1>1, <1>3, <1>4, <1>7, <2>1 DEF Writers
<1>13. Deleting'
  <2>1. Writing'  BY <1>3 DEF Writing
  <2>2. i.action = "Delete" => Deletes(x)'
    BY <1>6 DEF Deletes, DeletePlan
  <2> QED  BY <1>1, <1>3, <1>4, <1>7, <2>1, <2>2 DEF Deleting
<1>14. Gone' => Gone
  <2>1. \A y \in Execution : DeletedBy(y)' => DeletedBy(y)
    <3>1. \A y \in Execution : lis'[<<y, "end">>] = lis[<<y, "end">>]  BY <1>8, <1>9, <1>10
    <3>2. \A y \in Execution : exec'[y].status = "SUCCEEDED" => exec[y].status = "SUCCEEDED"
      BY <1>6
    <3> QED  BY <1>5, <3>1, <3>2 DEF DeletedBy
  <2> QED  BY <1>5, <2>1 DEF Gone
<1>15. ASSUME Gone PROVE NothingLeft'
  <2>1. NothingLeft  BY <1>15 DEF GoneInv
  <2>2. \A d \in Client : client'[d].pc # "checked"  BY <1>3, <1>4
  <2> QED  BY <1>5, <1>6, <1>7, <1>15, <2>1, <2>2 DEF NothingLeft
<1> QED  BY <1>11, <1>12, <1>13, <1>14, <1>15 DEF GoneInv

LEMMA StartsGone ==
    ASSUME Shape, OneInv, GoneInv, Calm, NEW c \in Client, NEW x \in Execution,
           \/ Create(c, x) \/ UpdateApp(c, x) \/ Update(c, x) \/ Upgrade(c, x)
           \/ Delete(c, x) \/ Retry(c, x)
    PROVE  GoneInv'
<1> DEFINE T == Time \cup {Chosen({})}
           old == client[c].item
<1>1. old \in Items(T, Known) /\ client[c].apps \in SUBSET App
  <2>1. client \in Requests(T, Known)  BY DEF Shape, Typed
  <2> QED  BY <2>1, ClientTypes
<1>2. apps \in SUBSET App  BY DEF Shape, Typed
<1>3. ASSUME client[c].pc = "checked",
             NEW plan, NEW A, NEW kind \in {"app", "upgrade", "delete", "retry"},
             NEW i \in Items(T, Known), Launch(c, x, plan, kind, A, i),
             i.action = "Delete" => plan = DeletePlan,
             Gone => \A s \in Stack : plan[s] \in {"Update", "Delete", "Pass", "Done"}
      PROVE  GoneInv'
  <2>1. \A y \in Execution : ~Open(y)  BY <1>3 DEF OneInv
  <2>2. \A d \in Client : Acting(d) => d = c  BY <1>3 DEF OneInv, Orderly, Acting
  <2> QED  BY <1>3, <2>1, <2>2, LaunchGone
<1>4. CASE Create(c, x)
  <2> DEFINE i1 == [Blank EXCEPT !.phase = "live"]
             i2 == [i1 EXCEPT !.apps = apps]
  <2>1. i2 \in Items(T, Known) /\ i2.phase = "live" /\ i2.action = "Create"
    <3>1. Never \in T
      <4>1. CASE Time = {}  BY <4>1 DEF Never, Chosen
      <4>2. CASE Time # {}  BY <4>2 DEF Never
      <4> QED  BY <4>1, <4>2
    <3>2. i1 \in Items(T, Known)  BY <3>1, BlankTyped, KnownZero, ItemFields
    <3>3. i1.phase = "live" /\ i1.action = "Create"  BY DEF Blank
    <3> HIDE DEF i1
    <3>4. i2 \in Items(T, Known)  BY <1>2, <3>2, ItemFields
    <3>5. i2.phase = "live" /\ i2.action = "Create"  BY <3>2, <3>3, SMT DEF Items
    <3> QED  BY <3>4, <3>5
  <2>2. Launch(c, x, CreatePlan, "create", apps, i2) /\ x = 1 /\ client[c].pc = "idle"
    BY <1>4, Zenon DEF Create
  <2> HIDE DEF i2
  <2>3. exec[1].status = "none"  BY <2>2 DEF Launch
  <2>4. item.phase = "none" /\ \A d \in Client : ~Acting(d)
    BY <2>2, <2>3 DEF OneInv, Current
  <2>5. (\A y \in Execution : ~Open(y)) /\ ~Gone
    <3>1. \A y \in Execution : <<y, "end">> \in Execution \X Event /\ <<y, "start">> \in Execution \X Event
      BY DEF Event
    <3>2. \A y \in Execution : exec[y].status = "none"  BY <2>2, <2>3 DEF OneInv, Current
    <3>3. \A y \in Execution : lis[<<y, "end">>].pc = "none"
      <4>1. Known = {0}  BY <3>2 DEF Known
      <4>2. \A y \in Execution : y \notin {0}  BY DEF Execution
      <4> QED  BY <3>1, <4>1, <4>2 DEF Shape, Typed, EventsKnown
    <3>4. \A y \in Execution : ~Open(y) /\ ~DeletedBy(y)
      BY <3>2, <3>3 DEF Open, Running, DeletedBy
    <3> QED  BY <2>4, <3>4 DEF Gone
  <2> QED  BY <2>1, <2>2, <2>4, <2>5, LaunchGone
<1>5. CASE UpdateApp(c, x)
  <2> DEFINE i1 == [old EXCEPT !.action = "Update"]
             i2 == [i1 EXCEPT !.apps = client[c].apps]
  <2>1. i1 \in Items(T, Known) /\ i1.action = "Update"
    <3>1. i1 \in Items(T, Known)  BY <1>1, ItemFields
    <3>2. i1.action = "Update"  BY <1>1, SMT DEF Items
    <3> QED  BY <3>1, <3>2
  <2>2. i2 \in Items(T, Known) /\ i2.action = "Update"
    <3> HIDE DEF i1
    <3>2. i2 \in Items(T, Known)  BY <1>1, <2>1, ItemFields
    <3>3. i2.action = "Update"  BY <2>1, SMT DEF Items
    <3> QED  BY <3>2, <3>3
  <2>3. Launch(c, x, AppPlan, "app", client[c].apps, i2)  BY <1>5, Zenon DEF UpdateApp
  <2>4. client[c].pc = "checked"  BY <1>5 DEF UpdateApp, Checked
  <2>5. \A s \in Stack : AppPlan[s] \in {"Update", "Delete", "Pass", "Done"}  BY DEF AppPlan
  <2> HIDE DEF i2
  <2> QED  BY <1>3, <2>2, <2>3, <2>4, <2>5
<1>6. CASE Update(c, x)
  BY <1>6 DEF Update, Checked, OneInv, Orderly
<1>7. CASE Upgrade(c, x)
  <2> DEFINE i1 == [old EXCEPT !.action = "Upgrade"]
             i2 == [i1 EXCEPT !.apps = apps]
             i3 == [i2 EXCEPT !.edits = i2.edits \cup {x}]
  <2>1. i1 \in Items(T, Known) /\ i1.action = "Upgrade"
    <3>1. i1 \in Items(T, Known)  BY <1>1, ItemFields
    <3>2. i1.action = "Upgrade"  BY <1>1, SMT DEF Items
    <3> QED  BY <3>1, <3>2
  <2>2. i2 \in Items(T, Known) /\ i2.action = "Upgrade"
    <3> HIDE DEF i1
    <3>2. i2 \in Items(T, Known)  BY <1>2, <2>1, ItemFields
    <3>3. i2.action = "Upgrade"  BY <2>1, SMT DEF Items
    <3> QED  BY <3>2, <3>3
  <2>3. i3 \in Items(T, Known) /\ i3.action = "Upgrade"
    <3> HIDE DEF i2
    <3>1. i2.edits \cup {x} \in SUBSET Execution  BY <2>2, ItemTypes
    <3>2. i3 \in Items(T, Known)  BY <2>2, <3>1, ItemFields
    <3>3. i3.action = "Upgrade"  BY <2>2, SMT DEF Items
    <3> QED  BY <3>2, <3>3
  <2>4. Launch(c, x, UpgradePlan, "upgrade", apps, i3)  BY <1>7, Zenon DEF Upgrade
  <2>5. client[c].pc = "checked"  BY <1>7 DEF Upgrade, Checked
  <2>6. \A s \in Stack : UpgradePlan[s] \in {"Update", "Delete", "Pass", "Done"}
    BY DEF UpgradePlan
  <2> HIDE DEF i3
  <2> QED  BY <1>3, <2>3, <2>4, <2>5, <2>6
<1>8. CASE Delete(c, x)
  <2> DEFINE i1 == [old EXCEPT !.action = "Delete"]
             i2 == [i1 EXCEPT !.stacks = ByName]
  <2>1. i1 \in Items(T, Known)  BY <1>1, ItemFields
  <2>2. i2 \in Items(T, Known)
    <3> HIDE DEF i1
    <3>1. ByName \in [Stack -> Recorded]  BY ByNameTyped DEF Shape, Typed
    <3> QED  BY <2>1, <3>1, ItemFields
  <2>3. Launch(c, x, DeletePlan, "delete", apps, i2)  BY <1>8, Zenon DEF Delete
  <2>4. client[c].pc = "checked"  BY <1>8 DEF Delete, Checked
  <2>5. \A s \in Stack : DeletePlan[s] \in {"Update", "Delete", "Pass", "Done"}
    BY DEF DeletePlan
  <2> HIDE DEF i2
  <2> QED  BY <1>3, <2>2, <2>3, <2>4, <2>5
<1>9. CASE Retry(c, x)
  <2>1. Launch(c, x, RetryPlan(old.stacks), "retry", apps, old)  BY <1>9, Zenon DEF Retry
  <2>2. client[c].pc = "checked" /\ old.action # "Delete"  BY <1>9 DEF Retry, Checked
  <2>3. ~Gone  BY <2>2 DEF GoneInv, NothingLeft
  <2> QED  BY <1>1, <1>3, <2>1, <2>2, <2>3
<1> QED  BY <1>4, <1>5, <1>6, <1>7, <1>8, <1>9

\* The only request that acts writes what it has.
LEMMA StoredGone ==
    ASSUME Shape, OneInv, GoneInv, UNCHANGED <<lis, exec, cfn>>, NEW c \in Client,
           client[c].pc = "write", NEW r, client' = [client EXCEPT ![c] = r],
           r.pc \in {"idle", "register"},
           item'.action = client[c].item.action,
           item'.phase = "deleted" => item.phase = "deleted",
           item'.phase # item.phase => client[c].kind # "refresh"
    PROVE  GoneInv'
<1>1. \A d \in Client : Acting(d) => d = c  BY DEF OneInv, Orderly, Acting
<1>2. client'[c] = r /\ \A d \in Client : d # c => client'[d] = client[d]  BY OneOfRequests
<1>3. \A d \in Client : client'[d].pc \notin {"checked", "write"}  BY <1>1, <1>2 DEF Acting
<1>4. \A x : (Running(x)' <=> Running(x)) /\ (Deletes(x)' <=> Deletes(x))
  BY DEF Running, Deletes
<1>5. StartsHandled' /\ Writers'  BY <1>3 DEF GoneInv, StartsHandled, Writers
<1>6. Deleting'  BY <1>3, <1>4 DEF GoneInv, Deleting
<1>7. client[c].kind = "refresh" => item'.action = item.action  BY DEF GoneInv, Writers
<1>8. client[c].kind # "refresh" => \E x \in Execution : Running(x)  BY DEF GoneInv, Writers
<1>9. Gone' => Gone
  <2>1. ASSUME NEW y \in Execution, DeletedBy(y)' PROVE DeletedBy(y)
    <3>1. CASE client[c].kind = "refresh"  BY <1>7, <2>1, <3>1 DEF DeletedBy
    <3>2. CASE client[c].kind # "refresh"
      <4>1. PICK x \in Execution : Running(x)  BY <1>8, <3>2
      <4>2. ASSUME lis[<<y, "end">>].pc = "queued" PROVE FALSE
        <5>1. x = y  BY <4>1, <4>2, OneOpen DEF Open
        <5> QED  BY <4>1, <4>2, <5>1 DEF OneInv, EventsInOrder
      <4> QED  BY <2>1, <4>2 DEF DeletedBy
    <3> QED  BY <3>1, <3>2
  <2> QED  BY <2>1 DEF Gone
<1>10. ASSUME NothingLeft PROVE NothingLeft'
  BY <1>3, <1>4, <1>7, <1>8, <1>10 DEF NothingLeft
<1> QED  BY <1>5, <1>6, <1>9, <1>10 DEF GoneInv

LEMMA WriteGone ==
    ASSUME Shape, OneInv, GoneInv, Calm, NEW c \in Client, Write(c)
    PROVE  GoneInv'
<1> DEFINE T == Time \cup {Chosen({})}
           kind == client[c].kind
           old == client[c].item
           new == [old EXCEPT !.phase = item.phase]
           up == [new EXCEPT !.ver = new.ver + 1]
<1>1. client[c].pc = "write" /\ kind # "create" /\ UNCHANGED <<lis, exec, cfn>>
  BY DEF Write, stackVars
<1>2. kind \in {"refresh", "app", "upgrade", "retry", "delete"}
  <2>1. client \in Requests(T, Known)  BY DEF Shape, Typed
  <2>2. kind \in RequestKinds  BY <2>1, ClientTypes
  <2> QED  BY <1>1, <2>2 DEF OneInv, Orderly, RequestKinds
<1>3. old \in Items(T, Known) /\ item \in Items(T, Known)
  <2>1. client \in Requests(T, Known)  BY DEF Shape, Typed
  <2>2. item \in Items(T, Known)  BY DEF Shape, Typed
  <2> QED  BY <2>1, <2>2, ClientTypes
<1>4. new \in Items(T, Known)
  <2>1. item.phase \in {"none", "live", "deleted"}  BY <1>3, ItemTypes
  <2> QED  BY <1>3, <2>1, ItemFields
<1>5. new.phase = item.phase /\ new.action = old.action  BY <1>3, SMT DEF Items
<1> HIDE DEF new
<1>6. up \in Items(T, Known)
  <2>1. new.ver + 1 \in Nat  BY <1>4, ItemTypes
  <2> QED  BY <1>4, <2>1, ItemFields
<1>7. up.phase = item.phase /\ up.action = old.action  BY <1>4, <1>5, SMT DEF Items
<1> HIDE DEF up, T
<1>8. Store(new) \/ Stamped(new) \/ Stamped(up)
  BY <1>2, Zenon DEF Write, new, up
<1>9. item'.phase = item.phase /\ item'.action = old.action
  <2>1. CASE Store(new)  BY <1>5, <2>1 DEF Store
  <2>2. CASE Stamped(new)  BY <1>4, <1>5, <2>2, StampKeeps DEF Calm
  <2>3. CASE Stamped(up)  BY <1>6, <1>7, <2>3, StampKeeps DEF Calm
  <2> QED  BY <1>8, <2>1, <2>2, <2>3
<1>10. \E r : client' = [client EXCEPT ![c] = r] /\ r.pc \in {"idle", "register"}
  <2> DEFINE r == [pc |-> "register", kind |-> "app", apps |-> client[c].apps, item |-> Blank]
  <2>1. r.pc = "register"  OBVIOUS
  <2>2. client' = [client EXCEPT ![c] = Idle] \/ client' = [client EXCEPT ![c] = r]
    <3>1. client \in Requests(T, Known)  BY DEF Shape, Typed, T
    <3>2. client = [d \in Client |-> client[d]]  BY <3>1, ClientTypes
    <3> QED  BY <3>2, Zenon DEF Write
  <2> HIDE DEF r
  <2> QED  BY <2>1, <2>2, IdleFields
<1> QED  BY <1>1, <1>9, <1>10, StoredGone

LEMMA RequestStepGone ==
    ASSUME Shape, OneInv, GoneInv, Calm, NEW c \in Client, Request(c), ~abrupt'
    PROVE  GoneInv'
<1> DEFINE T == Time \cup {Chosen({})}
<1>1. CASE (\E kind \in RequestKinds : Read(c, kind)) \/ Remove(c)
  BY <1>1, CalmReads, ReadGone
<1>2. CASE LoadForm(c) \/ SubmitForm(c) \/ Observe(c)
  BY <1>2 DEF LoadForm, SubmitForm, Observe, Calm, OneInv, Orderly
<1>3. CASE \E x \in Execution : \/ Create(c, x) \/ UpdateApp(c, x) \/ Update(c, x)
                                \/ Upgrade(c, x) \/ Delete(c, x) \/ Retry(c, x)
  BY <1>3, StartsGone
<1>4. CASE Write(c)  BY <1>4, WriteGone
<1>5. CASE Add(c)
  <2> DEFINE old == client[c].item
  <2>1. /\ client[c].pc = "write" /\ client[c].kind = "create" /\ Stamped(old)
        /\ client' = [client EXCEPT ![c] = Idle] /\ UNCHANGED <<lis, exec, cfn>>
    BY <1>5 DEF Add, stackVars
  <2>2. old \in Items(T, Known)
    <3>1. client \in Requests(T, Known)  BY DEF Shape, Typed
    <3> QED  BY <3>1, ClientTypes
  <2>3. old.phase = "live"  BY <2>1 DEF GoneInv, Writers
  <2> HIDE DEF T
  <2>4. item'.phase = "live" /\ item'.action = old.action
    BY <2>1, <2>2, <2>3, StampKeeps DEF Calm
  <2> QED  BY <2>1, <2>4, IdleFields, StoredGone
<1>6. CASE Refused(c)
  BY <1>6 DEF Refused, SameVersion, OneInv, Current
<1>7. CASE Register(c)
  <2>1. /\ client[c].pc = "register" /\ client' = [client EXCEPT ![c] = Idle]
        /\ UNCHANGED <<item, lis, exec, cfn>>
    BY <1>7 DEF Register, itemVars, stackVars
  <2>2. \A d \in Client : Acting(d) => d = c  BY <2>1 DEF OneInv, Orderly, Acting
  <2>3. client'[c] = Idle /\ \A d \in Client : d # c => client'[d] = client[d]
    BY <2>1, OneOfRequests
  <2>4. \A d \in Client : client'[d].pc \notin {"checked", "write", "register"}
    BY <2>2, <2>3, IdleFields DEF Acting
  <2>5. ~Writing  BY <2>1, <2>2 DEF Writing, Acting
  <2>6. /\ \A x : (Running(x)' <=> Running(x)) /\ (Deletes(x)' <=> Deletes(x))
        /\ Gone' <=> Gone
    BY <2>1 DEF Running, Deletes, Gone, DeletedBy
  <2>7. StartsHandled' /\ Writers'  BY <2>1, <2>4 DEF GoneInv, StartsHandled, Writers
  <2>8. Deleting'  BY <2>1, <2>4, <2>5, <2>6 DEF GoneInv, Deleting
  <2>9. NothingLeft => NothingLeft'  BY <2>1, <2>4, <2>6 DEF NothingLeft
  <2> QED  BY <2>6, <2>7, <2>8, <2>9 DEF GoneInv
<1>8. CASE Die(c)  BY <1>8 DEF Die, Calm
<1> QED  BY <1>1, <1>2, <1>3, <1>4, <1>5, <1>6, <1>7, <1>8 DEF Request

LEMMA GoneNext ==
    ASSUME Shape, OneInv, GoneInv, Calm, [Next]_vars, ~abrupt'
    PROVE  GoneInv'
<1>1. CASE UNCHANGED vars
  BY <1>1, GoneQuietly DEF vars, itemVars, stackVars
<1>2. CASE Propagate  BY <1>2 DEF Propagate, OneInv
<1>3. CASE \E c \in Client : Request(c)  BY <1>3, RequestStepGone
<1>4. CASE \/ \E x \in Execution, s \in Stack : Act(x, s)
           \/ \E x \in Execution : ExecutionSucceeds(x) \/ ExecutionBreaks(x)
           \/ \E s \in Stack : StackDone(s) \/ StackFails(s)
  BY <1>4, CloudGone
<1>5. CASE \E w \in Worker : StackListener(w)  BY <1>5, StackListenerGone
<1>6. CASE \E k \in Execution \X Event : StateListener(k) \/ Redeliver(k)
  <2>1. \A k \in Execution \X Event : ~Redeliver(k)  BY DEF Redeliver, Calm
  <2> QED  BY <1>6, <2>1, StateListenerGone, Zenon
<1> QED  BY <1>1, <1>2, <1>3, <1>4, <1>5, <1>6, Zenon DEF Next

\* A project goes only with the last of its stacks: the listener marks the
\* pipeline deleted on the end of an execution that succeeded while the record
\* said Delete, and for requests that follow one another such an execution has
\* deleted every stack, whatever failed, was retried or was written back by a
\* refresh before; and nothing makes a stack for a pipeline that is gone.  As
\* before, no deletion is abrupt.
THEOREM DeletedWhenGone ==
    ASSUME Calm
    PROVE  Spec => []DeletedOnlyWhenGone
<1> DEFINE Inv == Shape /\ (~abrupt => OneInv /\ GoneInv)
<1>1. Init => Inv  BY ShapeHolds, OneInit, GoneInit
<1>2. Inv /\ [Next]_vars => Inv'  BY ShapeHolds, OneNext, GoneNext, StillInOrder
<1>3. Inv => DeletedOnlyWhenGone  BY DEF GoneInv, Gone, NothingLeft, DeletedOnlyWhenGone
<1> QED  BY <1>1, <1>2, <1>3, PTL DEF Spec


-----------------------------------------------------------------------------
(* When everything is at rest, the item says what became of the last       *)
(* execution and of every stack.                                           *)

Over(x) == exec[x].status \in {"SUCCEEDED", "FAILED"}

Latest(x) == exec[x].status # "none" /\ \A y \in Execution : y > x => exec[y].status = "none"

\* One execution follows another, each of them with an end that is heard of.
InTurn ==
    /\ \A x, y \in Execution : x < y /\ exec[y].status # "none" => Over(x)
    /\ \A x \in Execution : Over(x) => lis[<<x, "end">>].pc # "none"
    /\ item.phase # "none" => \E x \in Execution : Latest(x)
    /\ \A c \in Client : client[c].pc = "write" => client[c].kind # "refresh"
    /\ \A w \in Worker : worker[w].pc # "idle" => worker[w].stack \in Stack

\* What is said of stack s is so; of a stack that is gone, it depends on
\* whether it is known by its name or by its id.
Agrees(seen, s) ==
    IF cfn[s] = "none" THEN seen \in {"absent", "deleted"} ELSE seen = cfn[s]

Holds(w, s) == worker[w].pc # "idle" /\ worker[w].stack = s

\* Stacks that are at work, or whose last change is still to be recorded.
Pending ==
    {s \in Stack : cfn[s] \in InProgress \/ msgs[s] # 0 \/ \E w \in Worker : Holds(w, s)}

StacksStill == (\A s \in Stack : msgs[s] = 0) /\ \A w \in Worker : worker[w].pc = "idle"

\* The end of x is being recorded: nobody else writes the item.
Ending(x, e) ==
    /\ e.pc \in {"queued", "status", "fetch", "stacks", "delete"} => StacksStill
    /\ e.pc = "status" => e.at = item.at
    /\ e.pc \in {"fetch", "stacks"} => item.exec = x /\ item.status = exec[x].status
    /\ e.pc = "fetch" => e.tries = 0
    /\ e.pc = "stacks" => e.stacks = ByName /\ (e.tries = 0 \/ e.at = item.at)

\* One change of a stack at a time is known of.
OneChange ==
    /\ \A s \in Stack : msgs[s] # 0 => msgs[s] = 1 /\ cfn[s] \notin InProgress
    /\ \A w \in Worker, s \in Stack : Holds(w, s) =>
          /\ msgs[s] = 0 /\ cfn[s] \notin InProgress
          /\ Agrees(worker[w].seen, s)
          /\ \A v \in Worker : Holds(v, s) => v = w

OneByOne == \A v, w \in Worker : v = w

\* Attempts that failed, and the one that is about to.
Attempts(w) == worker[w].tries + IF worker[w].at = item.at THEN 0 ELSE 1

\* Every attempt fails by the record of another stack, which is then known.
Recording(w) ==
    /\ worker[w].at = item.at =>
          worker[w].stacks = Merged(item.stacks, worker[w].stack, worker[w].seen)
    /\ Attempts(w) <= IF OneByOne THEN 0 ELSE Cardinality(Stack \ Pending)

Tracked ==
    /\ OneChange
    /\ \A s \in Stack \ Pending : Agrees(item.stacks[s], s)
    /\ \A w \in Worker : worker[w].pc = "write" => Recording(w)

\* After the last execution: its end is recorded first, and then what
\* becomes of stacks that were left at work.
Aftermath(x) ==
    /\ \A k \in Execution \X Event : k # <<x, "end">> => lis[k].pc \in {"none", "done"}
    /\ Ending(x, lis[<<x, "end">>])
    /\ lis[<<x, "end">>].pc = "done" /\ item.phase = "live" =>
          item.exec = x /\ item.status = exec[x].status /\ Tracked

SettleInv == InTurn /\ \A x \in Execution : Latest(x) /\ Over(x) => Aftermath(x)

LEMMA SettleInit == Init => SettleInv
<1> SUFFICES ASSUME Init PROVE SettleInv  OBVIOUS
<1>1. \A x \in Execution : exec[x].status = "none"  BY DEF Init
<1>2. \A c \in Client : client[c].pc = "idle"  BY DEF Init, Idle
<1>3. \A w \in Worker : worker[w].pc = "idle"  BY DEF Init, Free
<1>4. item.phase = "none"  BY DEF Init, Blank
<1>5. InTurn  BY <1>1, <1>2, <1>3, <1>4 DEF InTurn, Over
<1> QED  BY <1>1, <1>5 DEF SettleInv, Over

\* What runs was started last.
LEMMA RunsLast ==
    ASSUME InTurn, NEW z \in Execution, Running(z)
    PROVE  Latest(z) /\ \A x \in Execution : Latest(x) => ~Over(x)
<1>1. ~Over(z) /\ exec[z].status # "none"  BY DEF Running, Over
<1>2. \A y \in Execution : y > z => exec[y].status = "none"
  BY <1>1 DEF InTurn, Execution
<1>3. ASSUME NEW x \in Execution, Latest(x) PROVE ~Over(x)
  <2>1. x = z \/ x < z \/ x > z  BY DEF Execution
  <2>2. ~(x < z)
    <3> SUFFICES ASSUME x < z PROVE FALSE  OBVIOUS
    <3>1. z > x  BY DEF Execution
    <3> QED  BY <1>1, <1>3, <3>1 DEF Latest
  <2>3. x > z => exec[x].status = "none"  BY <1>2
  <2> QED  BY <1>1, <1>3, <2>1, <2>2, <2>3 DEF Latest
<1> QED  BY <1>1, <1>2, <1>3 DEF Latest

\* While an execution runs there is nothing to settle: its end comes.
LEMMA NothingToSettle ==
    ASSUME InTurn', NEW z \in Execution, exec'[z].status = "RUNNING"
    PROVE  SettleInv'
<1>1. ~Over(z)' /\ exec'[z].status # "none"  BY DEF Over
<1>2. ASSUME NEW x \in Execution, Latest(x)', Over(x)' PROVE FALSE
  <2>1. x = z \/ x < z \/ z < x  BY DEF Execution
  <2>2. ASSUME x < z PROVE FALSE
    <3>1. z > x  BY <2>2 DEF Execution
    <3> QED  BY <1>1, <1>2, <3>1 DEF Latest
  <2>3. z < x => Over(z)'  BY <1>2 DEF InTurn, Latest
  <2> QED  BY <1>1, <1>2, <2>1, <2>2, <2>3
<1> QED  BY <1>2 DEF SettleInv

\* A step that starts and ends no execution keeps them in turn.
LEMMA StillInTurn ==
    ASSUME InTurn, \A x \in Execution : exec'[x].status = exec[x].status,
           \A x \in Execution : lis[<<x, "end">>].pc # "none" => lis'[<<x, "end">>].pc # "none",
           \/ item'.phase = item.phase
           \/ \E x \in Execution : Latest(x),
           \A c \in Client : client'[c].pc = "write" => client'[c].kind # "refresh",
           \A w \in Worker : worker'[w].pc # "idle" => worker'[w].stack \in Stack
    PROVE  InTurn' /\ \A x \in Execution : (Latest(x)' <=> Latest(x)) /\ (Over(x)' <=> Over(x))
<1>1. \A x \in Execution : (Latest(x)' <=> Latest(x)) /\ (Over(x)' <=> Over(x))
  BY DEF Latest, Over
<1>2. \A x, y \in Execution : x < y /\ exec'[y].status # "none" => Over(x)'
  BY <1>1 DEF InTurn
<1>3. \A x \in Execution : Over(x)' => lis'[<<x, "end">>].pc # "none"
  BY <1>1 DEF InTurn
<1>4. item'.phase # "none" => \E x \in Execution : Latest(x)'
  BY <1>1 DEF InTurn
<1> QED  BY <1>1, <1>2, <1>3, <1>4 DEF InTurn

\* Only the requests change.
LEMMA SettleQuietly ==
    ASSUME SettleInv, UNCHANGED <<item, exec, lis, cfn, msgs, worker>>,
           \A c \in Client : client'[c].pc = "write" => client'[c].kind # "refresh"
    PROVE  SettleInv'
<1>1. InTurn' /\ \A x \in Execution : (Latest(x)' <=> Latest(x)) /\ (Over(x)' <=> Over(x))
  BY StillInTurn DEF SettleInv, InTurn
<1>2. Pending' = Pending  BY DEF Pending, Holds
<1>3. Tracked => Tracked'
  <2>1. OneChange => OneChange'  BY DEF OneChange, Holds, Agrees
  <2>2. \A w \in Worker : Recording(w) => Recording(w)'
    BY <1>2 DEF Recording, Attempts
  <2> QED  BY <1>2, <2>1, <2>2 DEF Tracked, Agrees
<1>4. ByName' = ByName  BY DEF ByName
<1>5. \A x \in Execution : Aftermath(x) => Aftermath(x)'
  BY <1>3, <1>4 DEF Aftermath, Ending, StacksStill
<1> QED  BY <1>1, <1>5 DEF SettleInv

\* Requests: one that starts an execution, and one that writes while it runs.
LEMMA LaunchSettles ==
    ASSUME Shape, SettleInv, NEW c \in Client, NEW x \in Execution, NEW plan, NEW kind, NEW A,
           NEW i, Launch(c, x, plan, kind, A, i), kind # "refresh",
           \A y \in Execution : ~Open(y)
    PROVE  SettleInv'
<1>1. /\ exec[x].status = "none" /\ \A y \in Execution : y < x => exec[y].status # "none"
      /\ UNCHANGED <<item, worker>>
  BY DEF Launch, itemVars
<1>2. /\ exec'[x].status = "RUNNING"
      /\ \A y \in Execution : y # x => exec'[y] = exec[y]
  BY DEF Launch, Shape, Typed, ExecTyped
<1>3. \A y \in Execution : y < x => Over(y)
  <2>1. \A y \in Execution : exec[y].status \in {"none", "RUNNING", "SUCCEEDED", "FAILED"}
    BY DEF Shape, Typed, ExecTyped
  <2> QED  BY <1>1, <2>1 DEF Open, Running, Over
<1>4. \A y \in Execution : y > x => exec[y].status = "none"
  <2> SUFFICES ASSUME NEW y \in Execution, y > x, exec[y].status # "none" PROVE FALSE
    OBVIOUS
  <2>1. x < y  BY DEF Execution
  <2> QED  BY <1>1, <2>1 DEF SettleInv, InTurn, Over
<1>5. ASSUME NEW y \in Execution, NEW z \in Execution, y < z, exec'[z].status # "none"
      PROVE  Over(y)'
  <2>1. Over(y)
    <3>1. CASE z = x  BY <1>3, <1>5, <3>1
    <3>2. CASE z # x  BY <1>2, <1>5, <3>2 DEF SettleInv, InTurn
    <3> QED  BY <3>1, <3>2
  <2>2. y # x  BY <1>1, <2>1 DEF Over
  <2> QED  BY <1>2, <2>1, <2>2 DEF Over
<1>6. \A y \in Execution : Over(y)' => lis'[<<y, "end">>].pc # "none"
  <2>1. \A y \in Execution : <<y, "end">> \in Execution \X Event /\ <<y, "end">> # <<x, "start">>
    BY DEF Event
  <2>2. \A k \in Execution \X Event : k # <<x, "start">> => lis'[k] = lis[k]
    BY DEF Launch, Shape, Typed, ListenerTyped
  <2>3. \A y \in Execution : Over(y)' => Over(y)  BY <1>2 DEF Over
  <2> QED  BY <2>1, <2>2, <2>3 DEF SettleInv, InTurn
<1>7. Latest(x)'  BY <1>2, <1>4 DEF Latest, Execution
<1>8. \A d \in Client : client'[d].pc = "write" => client'[d].kind # "refresh"
  <2> DEFINE r == [pc |-> "write", kind |-> kind, apps |-> A,
                   item |-> [i EXCEPT !.exec = x, !.status = "RUNNING"]]
  <2>1. r.kind = kind  OBVIOUS
  <2>2. client' = [client EXCEPT ![c] = r]  BY Zenon DEF Launch
  <2> HIDE DEF r
  <2>3. client'[c] = r /\ \A d \in Client : d # c => client'[d] = client[d]
    BY <2>2, OneOfRequests
  <2> QED  BY <2>1, <2>3 DEF SettleInv, InTurn
<1>9. InTurn'
  <2>1. \A w \in Worker : worker'[w].pc # "idle" => worker'[w].stack \in Stack
    BY <1>1 DEF SettleInv, InTurn
  <2> QED  BY <1>5, <1>6, <1>7, <1>8, <2>1 DEF InTurn
<1> QED  BY <1>2, <1>9, NothingToSettle

LEMMA StartsSettle ==
    ASSUME Shape, OneInv, SettleInv, NEW c \in Client, NEW x \in Execution,
           \/ Create(c, x) \/ UpdateApp(c, x) \/ Update(c, x) \/ Upgrade(c, x)
           \/ Delete(c, x) \/ Retry(c, x)
    PROVE  SettleInv'
<1> DEFINE Starts(kind) == \E plan, A, i : Launch(c, x, plan, kind, A, i)
<1>1. \E kind \in {"create", "app", "update", "upgrade", "delete", "retry"} : Starts(kind)
  <2>1. CASE Create(c, x)
    <3>1. Starts("create")  BY <2>1, Zenon DEF Create
    <3> QED  BY <3>1
  <2>2. CASE UpdateApp(c, x)
    <3>1. Starts("app")  BY <2>2, Zenon DEF UpdateApp
    <3> QED  BY <3>1
  <2>3. CASE Update(c, x)
    <3>1. Starts("update")  BY <2>3, Zenon DEF Update
    <3> QED  BY <3>1
  <2>4. CASE Upgrade(c, x)
    <3>1. Starts("upgrade")  BY <2>4, Zenon DEF Upgrade
    <3> QED  BY <3>1
  <2>5. CASE Delete(c, x)
    <3>1. Starts("delete")  BY <2>5, Zenon DEF Delete
    <3> QED  BY <3>1
  <2>6. CASE Retry(c, x)
    <3>1. Starts("retry")  BY <2>6, Zenon DEF Retry
    <3> QED  BY <3>1
  <2> QED  BY <2>1, <2>2, <2>3, <2>4, <2>5, <2>6
<1>2. \A y \in Execution : ~Open(y)
  <2>1. CASE Create(c, x)
    <3>1. x = 1 /\ exec[1].status = "none"  BY <2>1, Zenon DEF Create, Launch
    <3>2. \A y \in Execution : exec[y].status = "none"  BY <3>1 DEF OneInv, Current
    <3>3. \A y \in Execution : lis[<<y, "end">>].pc = "none"
      <4>1. Known = {0}  BY <3>2 DEF Known
      <4>2. \A y \in Execution : y \notin {0} /\ <<y, "end">> \in Execution \X Event
        BY DEF Execution, Event
      <4> QED  BY <4>1, <4>2 DEF Shape, Typed, EventsKnown
    <3> QED  BY <3>2, <3>3 DEF Open, Running
  <2>2. CASE ~Create(c, x)
    <3>1. client[c].pc = "checked"
      BY <2>2 DEF UpdateApp, Update, Upgrade, Delete, Retry, Checked
    <3> QED  BY <3>1 DEF OneInv
  <2> QED  BY <2>1, <2>2
<1> QED  BY <1>1, <1>2, LaunchSettles

LEMMA RequestSettles ==
    ASSUME Shape, OneInv, GoneInv, SettleInv, Calm, "refresh" \notin Kinds,
           NEW c \in Client, Request(c), ~abrupt'
    PROVE  SettleInv'
<1>1. \A d \in Client : client[d].pc = "write" => client[d].kind # "refresh"
  BY DEF SettleInv, InTurn
<1>2. ASSUME NEW r, client' = [client EXCEPT ![c] = r], r.pc # "write"
      PROVE  \A d \in Client : client'[d].pc = "write" => client'[d].kind # "refresh"
  BY <1>1, <1>2, OneOfRequests
<1>3. CASE (\E kind \in RequestKinds : Read(c, kind)) \/ Remove(c)
  <2>4. PICK kind \in Reads : Begin(c, kind) /\ kind # "refresh"  BY <1>3, CalmReads
  <2>1. UNCHANGED <<item, exec, lis, cfn, msgs, worker>>
    BY <2>4 DEF Begin, itemVars, stackVars
  <2>2. PICK A : client' = [client EXCEPT ![c] =
                    [pc |-> "checked", kind |-> kind, apps |-> A, item |-> Kept(kind)]]
    BY <2>4, Zenon DEF Begin
  <2> DEFINE r == [pc |-> "checked", kind |-> kind, apps |-> A, item |-> Kept(kind)]
  <2>3. r.pc = "checked" /\ client' = [client EXCEPT ![c] = r]  BY <2>2
  <2> HIDE DEF r
  <2> QED  BY <1>2, <2>1, <2>3, SettleQuietly
<1>4. CASE LoadForm(c) \/ SubmitForm(c) \/ Observe(c)
  BY <1>4 DEF LoadForm, SubmitForm, Observe, Calm, OneInv, Orderly
<1>5. CASE \E x \in Execution : \/ Create(c, x) \/ UpdateApp(c, x) \/ Update(c, x)
                                \/ Upgrade(c, x) \/ Delete(c, x) \/ Retry(c, x)
  BY <1>5, StartsSettle
<1>6. CASE Write(c) \/ Add(c)
  <2>1. client[c].pc = "write" /\ UNCHANGED <<exec, lis, cfn, msgs, worker>>
    BY <1>6 DEF Write, Add, stackVars
  <2>2. PICK z \in Execution : Running(z)  BY <1>1, <2>1 DEF GoneInv, Writers
  <2>3. \E r : client' = [client EXCEPT ![c] = r] /\ r.pc # "write"
    <3> DEFINE r == [pc |-> "register", kind |-> "app", apps |-> client[c].apps, item |-> Blank]
    <3>1. r.pc = "register"  OBVIOUS
    <3>2. client' = [client EXCEPT ![c] = Idle] \/ client' = [client EXCEPT ![c] = r]
      BY <1>6, Zenon DEF Write, Add
    <3> HIDE DEF r
    <3> QED  BY <3>1, <3>2, IdleFields
  <2>4. \A d \in Client : client'[d].pc = "write" => client'[d].kind # "refresh"
    BY <1>2, <2>3
  <2>5. Latest(z)  BY <2>2, RunsLast DEF SettleInv
  <2>6. InTurn'  BY <2>1, <2>4, <2>5, StillInTurn DEF SettleInv, InTurn
  <2> QED  BY <2>1, <2>2, <2>6, NothingToSettle DEF Running
<1>7. CASE Refused(c)
  BY <1>7 DEF Refused, SameVersion, OneInv, Current
<1>8. CASE Register(c)
  <2>1. /\ client' = [client EXCEPT ![c] = Idle]
        /\ UNCHANGED <<item, exec, lis, cfn, msgs, worker>>
    BY <1>8 DEF Register, itemVars, stackVars
  <2> QED  BY <1>2, <2>1, IdleFields, SettleQuietly
<1>9. CASE Die(c)  BY <1>9 DEF Die, Calm
<1> QED  BY <1>3, <1>4, <1>5, <1>6, <1>7, <1>8, <1>9 DEF Request

\* An execution ends when all changes of stacks so far are recorded.
LEMMA EndSettles ==
    ASSUME Shape, SettleInv, Prompt, UNCHANGED <<item, client, msgs, worker>>,
           NEW x \in Execution, Running(x), KeptUp(Stack),
           NEW status \in {"SUCCEEDED", "FAILED"}, Ends(x, status)
    PROVE  SettleInv'
<1>1. /\ exec'[x].status = status
      /\ \A y \in Execution : y # x => exec'[y] = exec[y]
  BY DEF Ends, Shape, Typed, ExecTyped
<1>2. /\ \A k \in Execution \X Event : k # <<x, "end">> => lis'[k] = lis[k]
      /\ lis'[<<x, "end">>].pc = "queued"
  <2>1. \A k \in Execution \X Event : k # <<x, "end">> => lis'[k] = lis[k]
    BY DEF Ends, Shape, Typed, ListenerTyped
  <2>2. <<x, "end">> \in Execution \X Event  BY DEF Event
  <2>3. lis'[<<x, "end">>].pc = "queued"
    <3>1. lis' = [lis EXCEPT ![<<x, "end">>].pc = "queued"]  BY DEF Ends
    <3>2. lis \in [Execution \X Event -> Hearings(Time \cup {Chosen({})})]
      BY DEF Shape, Typed, ListenerTyped
    <3>3. lis'[<<x, "end">>] = [lis[<<x, "end">>] EXCEPT !.pc = "queued"]
      BY <2>2, <3>1, <3>2, Zenon
    <3>4. lis[<<x, "end">>] \in Hearings(Time \cup {Chosen({})})  BY <2>2, <3>2
    <3> QED  BY <3>3, <3>4, SMT DEF Hearings
  <2> QED  BY <2>1, <2>3
<1>3. /\ \A k \in Execution \X Event : lis[k].pc \in {"none", "done"}
      /\ \A s \in Stack : msgs[s] = 0
      /\ \A w \in Worker : worker[w].pc = "idle"
  BY DEF KeptUp, SettleInv, InTurn
<1>4. \A y \in Execution : exec'[y].status = "none" <=> exec[y].status = "none"
  BY <1>1 DEF Running
<1>5. \A y \in Execution : Latest(y)' <=> Latest(y)  BY <1>4 DEF Latest
<1>6. \A y \in Execution : Over(y) => Over(y)'  BY <1>1 DEF Over, Running
<1>7. \A y \in Execution : <<y, "end">> \in Execution \X Event /\ (y # x => <<y, "end">> # <<x, "end">>)
  BY DEF Event
<1>8. InTurn'
  <2>1. \A y, z \in Execution : y < z /\ exec'[z].status # "none" => Over(y)'
    BY <1>4, <1>6 DEF SettleInv, InTurn
  <2>2. \A y \in Execution : Over(y)' => lis'[<<y, "end">>].pc # "none"
    <3>1. ASSUME NEW y \in Execution, y # x, Over(y)' PROVE lis'[<<y, "end">>].pc # "none"
      BY <1>1, <1>2, <1>7, <3>1 DEF SettleInv, InTurn, Over
    <3> QED  BY <1>2, <3>1
  <2>3. item'.phase # "none" => \E y \in Execution : Latest(y)'
    BY <1>5 DEF SettleInv, InTurn
  <2> QED  BY <2>1, <2>2, <2>3 DEF SettleInv, InTurn
<1>9. \A y \in Execution : Latest(y)' => y = x
  <2>1. Latest(x) /\ \A y \in Execution : Latest(y) => ~Over(y)  BY RunsLast DEF SettleInv
  <2> SUFFICES ASSUME NEW y \in Execution, Latest(y), y # x PROVE FALSE  BY <1>5
  <2>2. y < x \/ y > x  BY DEF Execution
  <2>3. y < x => Over(y)  BY <2>1 DEF SettleInv, InTurn, Latest
  <2> QED  BY <2>1, <2>2, <2>3 DEF Latest
<1>10. Aftermath(x)'
  <2>1. StacksStill'  BY <1>3 DEF StacksStill
  <2>2. Ending(x, lis[<<x, "end">>])'  BY <1>2, <2>1 DEF Ending
  <2>3. \A k \in Execution \X Event : k # <<x, "end">> => lis'[k].pc \in {"none", "done"}
    BY <1>2, <1>3
  <2> QED  BY <1>2, <2>2, <2>3 DEF Aftermath
<1> QED  BY <1>8, <1>9, <1>10 DEF SettleInv

\* A stack that was left at work comes to its end.
LEMMA StackEndSettles ==
    ASSUME Shape, SettleInv, Prompt, NEW s \in Stack, KeptUp({s}),
           cfn[s] \in InProgress, NEW status, status \notin InProgress, StackEvent(s, status),
           UNCHANGED <<item, client, exec, lis, worker>>
    PROVE  SettleInv'
<1>1. InTurn' /\ \A x \in Execution : (Latest(x)' <=> Latest(x)) /\ (Over(x)' <=> Over(x))
  BY StillInTurn DEF SettleInv, InTurn
<1>2. SUFFICES ASSUME NEW x \in Execution, Latest(x), Over(x) PROVE Aftermath(x)'
  BY <1>1 DEF SettleInv
<1>3. Aftermath(x) /\ <<x, "end">> \in Execution \X Event  BY <1>2 DEF SettleInv, Event
<1>4. lis[<<x, "end">>].pc = "done"
  <2>1. lis[<<x, "end">>].pc \in {"none", "done"}  BY <1>3 DEF KeptUp
  <2>2. lis[<<x, "end">>].pc # "none"  BY <1>2 DEF SettleInv, InTurn
  <2> QED  BY <2>1, <2>2
<1>5. SUFFICES ASSUME item.phase = "live" PROVE Tracked'
  BY <1>3, <1>4 DEF Aftermath, Ending
<1>6. Tracked  BY <1>3, <1>4, <1>5 DEF Aftermath
<1>7. /\ cfn'[s] = status /\ \A t \in Stack : t # s => cfn'[t] = cfn[t]
      /\ msgs[s] = 0 /\ msgs'[s] = 1 /\ \A t \in Stack : t # s => msgs'[t] = msgs[t]
  <2>1. msgs[s] = 0 /\ msgs' = [msgs EXCEPT ![s] = msgs[s] + 1]  BY DEF KeptUp, StackEvent
  <2>2. msgs \in [Stack -> Nat] /\ cfn \in [Stack -> CfnStatus]
    BY DEF Shape, Typed, StackTyped
  <2> QED  BY <2>1, <2>2 DEF StackEvent
<1>8. \A w \in Worker : ~Holds(w, s)  BY DEF KeptUp, Holds
<1>9. \A w \in Worker, t \in Stack : Holds(w, t)' <=> Holds(w, t)  BY DEF Holds
<1>10. Pending' = Pending
  <2>1. \A t \in Stack : t # s =>
           ((cfn'[t] \in InProgress \/ msgs'[t] # 0 \/ \E w \in Worker : Holds(w, t)')
              <=> (cfn[t] \in InProgress \/ msgs[t] # 0 \/ \E w \in Worker : Holds(w, t)))
    BY <1>7, <1>9
  <2>2. s \in Pending /\ s \in Pending'  BY <1>7 DEF Pending
  <2> QED  BY <2>1, <2>2 DEF Pending
<1>11. \A d, t : t \in Stack /\ t # s => (Agrees(d, t)' <=> Agrees(d, t))
  BY <1>7 DEF Agrees
<1>12. OneChange'
  <2>1. \A t \in Stack : msgs'[t] # 0 => msgs'[t] = 1 /\ cfn'[t] \notin InProgress
    BY <1>6, <1>7 DEF Tracked, OneChange
  <2>2. ASSUME NEW w \in Worker, NEW t \in Stack, Holds(w, t)
        PROVE  /\ msgs'[t] = 0 /\ cfn'[t] \notin InProgress
               /\ Agrees(worker[w].seen, t)'
               /\ \A v \in Worker : Holds(v, t) => v = w
    <3>1. t # s  BY <1>8, <2>2
    <3>2. /\ msgs[t] = 0 /\ cfn[t] \notin InProgress /\ Agrees(worker[w].seen, t)
          /\ \A v \in Worker : Holds(v, t) => v = w
      BY <1>6, <2>2 DEF Tracked, OneChange
    <3>3. worker'[w].seen = worker[w].seen  OBVIOUS
    <3>4. Agrees(worker[w].seen, t)'  BY <1>7, <3>1, <3>2, <3>3 DEF Agrees
    <3> QED  BY <1>7, <3>1, <3>2, <3>4
  <2> QED  BY <1>9, <2>1, <2>2 DEF OneChange
<1>13. \A t \in Stack \ Pending : Agrees(item.stacks[t], t)'
  <2> SUFFICES ASSUME NEW t \in Stack \ Pending PROVE Agrees(item.stacks[t], t)'
    OBVIOUS
  <2>1. t # s  BY <1>7, <1>10 DEF Pending
  <2>2. Agrees(item.stacks[t], t)  BY <1>6 DEF Tracked
  <2> QED  BY <1>7, <2>1, <2>2 DEF Agrees
<1>14. \A w \in Worker : Recording(w) => Recording(w)'
  BY <1>10 DEF Recording, Attempts
<1> QED  BY <1>6, <1>10, <1>12, <1>13, <1>14 DEF Tracked

LEMMA CloudSettles ==
    ASSUME Shape, SettleInv, Calm,
           \/ \E x \in Execution, s \in Stack : Act(x, s)
           \/ \E x \in Execution : ExecutionSucceeds(x) \/ ExecutionBreaks(x)
           \/ \E s \in Stack : StackDone(s) \/ StackFails(s)
    PROVE  SettleInv'
<1>1. ASSUME NEW x \in Execution, NEW s \in Stack, Act(x, s) PROVE SettleInv'
  <2>1. CASE ActionFails(x, s)
    <3>1. /\ Running(x) /\ KeptUp(Stack) /\ Ends(x, "FAILED")
          /\ UNCHANGED <<item, client, msgs, worker>>
      BY <2>1 DEF ActionFails, Due, itemVars, stackVars
    <3> QED  BY <3>1, EndSettles DEF Calm
  <2>2. CASE CreateStack(x, s) \/ UpdateStack(x, s) \/ DeleteStack(x, s) \/ DescribeStack(x, s)
    <3>1. /\ Running(x) /\ UNCHANGED <<item, client, lis, worker>> /\ \E a : Goes(x, s, a)
      BY <2>2 DEF CreateStack, UpdateStack, DeleteStack, DescribeStack, Due, itemVars
    <3>2. \A y \in Execution : exec'[y].status = exec[y].status
      <4>1. PICK a : exec' = [exec EXCEPT ![x].plan[s] = a]  BY <3>1 DEF Goes
      <4> QED  BY <4>1 DEF Shape, Typed, ExecTyped
    <3>3. InTurn'  BY <3>1, <3>2, StillInTurn DEF SettleInv, InTurn
    <3> QED  BY <3>1, <3>2, <3>3, NothingToSettle DEF Running
  <2> QED  BY <1>1, <2>1, <2>2 DEF Act
<1>2. ASSUME NEW x \in Execution, ExecutionSucceeds(x) PROVE SettleInv'
  <2>1. /\ Running(x) /\ KeptUp(Stack) /\ Ends(x, "SUCCEEDED")
        /\ UNCHANGED <<item, client, msgs, worker>>
    BY <1>2 DEF ExecutionSucceeds, itemVars, stackVars
  <2> QED  BY <2>1, EndSettles DEF Calm
<1>3. ASSUME NEW x \in Execution, ExecutionBreaks(x) PROVE SettleInv'
  <2>1. /\ Running(x) /\ KeptUp(Stack) /\ Ends(x, "FAILED")
        /\ UNCHANGED <<item, client, msgs, worker>>
    BY <1>3 DEF ExecutionBreaks, itemVars, stackVars
  <2> QED  BY <2>1, EndSettles DEF Calm
<1>4. ASSUME NEW s \in Stack, StackDone(s) \/ StackFails(s) PROVE SettleInv'
  <2>1. KeptUp({s}) /\ UNCHANGED <<item, client, exec, lis, worker>>
    BY <1>4 DEF StackDone, StackFails, itemVars
  <2>2. /\ cfn[s] \in InProgress
        /\ \E status : status \notin InProgress /\ StackEvent(s, status)
    BY <1>4 DEF StackDone, StackFails, InProgress
  <2> QED  BY <2>1, <2>2, StackEndSettles DEF Calm
<1> QED  BY <1>1, <1>2, <1>3, <1>4

\* What one invocation of the stack listener does to its own record.
LEMMA WorkerStep ==
    ASSUME Shape, NEW w \in Worker, NEW r, worker' = [worker EXCEPT ![w] = r]
    PROVE  worker'[w] = r /\ \A v \in Worker : v # w => worker'[v] = worker[v]
BY DEF Shape, Typed, WorkerTyped

LEMMA DescribedWorker ==
    ASSUME Shape, NEW w \in Worker, NEW s \in Stack, Describe(w, s)
    PROVE  /\ worker'[w].pc = "described" /\ worker'[w].stack = s
           /\ worker'[w].seen = IF cfn[s] = "none" THEN "deleted" ELSE cfn[s]
           /\ \A v \in Worker : v # w => worker'[v] = worker[v]
<1> DEFINE T == Time \cup {Chosen({})}
           S == Stack \cup {Chosen(Stack)}
           seen == IF cfn[s] = "none" THEN "deleted" ELSE cfn[s]
           r1 == [worker[w] EXCEPT !.pc = "described"]
           r2 == [r1 EXCEPT !.stack = s]
           r == [r2 EXCEPT !.seen = seen]
<1>1. worker \in [Worker -> Workings(T, S)]  BY DEF Shape, Typed, WorkerTyped, Workings
<1>2. worker[w] \in Workings(T, S)  BY <1>1
<1>3. worker' = [worker EXCEPT ![w] = r]  BY <1>1, Zenon DEF Describe
<1>4. seen = IF cfn[s] = "none" THEN "deleted" ELSE cfn[s]  OBVIOUS
<1>5. s \in S  OBVIOUS
<1> HIDE DEF seen, S, T
<1>6. r1 \in Workings(T, S) /\ r1.pc = "described"
  <2>1. r1 \in Workings(T, S)  BY <1>2, WorkingFields
  <2> QED  BY <1>2, <2>1, SMT DEF Workings
<1> HIDE DEF r1
<1>7. r2 \in Workings(T, S) /\ r2.pc = "described" /\ r2.stack = s
  <2>1. r2 \in Workings(T, S)  BY <1>5, <1>6, WorkingFields
  <2> QED  BY <1>6, <2>1, SMT DEF Workings
<1> HIDE DEF r2
<1>8. r.pc = "described" /\ r.stack = s /\ r.seen = seen  BY <1>7, SMT DEF Workings
<1> HIDE DEF r
<1> QED  BY <1>3, <1>4, <1>8, WorkerStep

LEMMA FoundWorker ==
    ASSUME Shape, NEW w \in Worker, NEW tries \in Nat, Found(w, tries)
    PROVE  /\ worker'[w].pc = "write" /\ worker'[w].stack = worker[w].stack
           /\ worker'[w].seen = worker[w].seen /\ worker'[w].at = image.at
           /\ worker'[w].tries = tries
           /\ worker'[w].stacks = Merged(image.stacks, worker[w].stack, worker[w].seen)
           /\ \A v \in Worker : v # w => worker'[v] = worker[v]
<1> DEFINE T == Time \cup {Chosen({})}
           S == Stack \cup {Chosen(Stack)}
           m == Merged(image.stacks, worker[w].stack, worker[w].seen)
           r1 == [worker[w] EXCEPT !.pc = "write"]
           r2 == [r1 EXCEPT !.at = image.at]
           r3 == [r2 EXCEPT !.tries = tries]
           r == [r3 EXCEPT !.stacks = m]
           Same(q) == /\ q = [pc |-> q.pc, stack |-> q.stack, seen |-> q.seen, at |-> q.at,
                              tries |-> q.tries, stacks |-> q.stacks]
                      /\ q.stack = worker[w].stack /\ q.seen = worker[w].seen
<1>1. worker \in [Worker -> Workings(T, S)]  BY DEF Shape, Typed, WorkerTyped, Workings
<1>2. worker[w] \in Workings(T, S)  BY <1>1
<1>3. worker' = [worker EXCEPT ![w] = r]  BY <1>1, Zenon DEF Found
<1>4. m = Merged(image.stacks, worker[w].stack, worker[w].seen)  OBVIOUS
<1>5. Same(worker[w])  BY <1>2, SMT DEF Workings
<1> HIDE DEF m, S, T
<1>6. Same(r1) /\ r1.pc = "write"  BY <1>5, SMT
<1> HIDE DEF r1
<1>7. Same(r2) /\ r2.pc = "write" /\ r2.at = image.at  BY <1>6, SMT
<1> HIDE DEF r2
<1>8. Same(r3) /\ r3.pc = "write" /\ r3.at = image.at /\ r3.tries = tries  BY <1>7, SMT
<1> HIDE DEF r3
<1>9. /\ Same(r) /\ r.pc = "write" /\ r.at = image.at /\ r.tries = tries /\ r.stacks = m
  BY <1>8, SMT
<1> HIDE DEF r
<1> QED  BY <1>3, <1>4, <1>9, WorkerStep

LEMMA FreedWorker ==
    ASSUME Shape, NEW w \in Worker, worker' = [worker EXCEPT ![w] = Free]
    PROVE  worker'[w].pc = "idle" /\ \A v \in Worker : v # w => worker'[v] = worker[v]
<1>1. Free.pc = "idle"  BY DEF Free
<1> QED  BY <1>1, WorkerStep

\* A stamped write is new to everybody.
LEMMA StampedAnew ==
    ASSUME NEW T, NEW X, NEW i \in Items(T, X), Stamped(i), Time \ Held # {}
    PROVE  item'.at \in Time \ Held /\ item'.stacks = i.stacks
<1>1. Store([i EXCEPT !.at = Chosen(Time \ Held)])  BY Zenon DEF Stamped, Chosen
<1>2. item' = [i EXCEPT !.at = Chosen(Time \ Held)]  BY <1>1 DEF Store
<1>3. item'.at = Chosen(Time \ Held) /\ item'.stacks = i.stacks  BY <1>2, SMT DEF Items
<1>4. Chosen(Time \ Held) \in Time \ Held  BY DEF Chosen
<1> QED  BY <1>3, <1>4

LEMMA PendingSize ==
    ASSUME IsFiniteSet(Stack)
    PROVE  /\ Cardinality(Stack \ Pending) \in Nat /\ Cardinality(Stack) \in Nat
           /\ \A s \in Pending : Cardinality(Stack \ Pending) <= Cardinality(Stack) - 1
<1>1. IsFiniteSet(Stack \ Pending)  BY FS_Subset
<1>2. Cardinality(Stack \ Pending) \in Nat /\ Cardinality(Stack) \in Nat
  BY <1>1, FS_CardinalityType
<1>3. ASSUME NEW s \in Pending
      PROVE  Cardinality(Stack \ Pending) <= Cardinality(Stack) - 1
  <2>1. s \in Stack  BY DEF Pending
  <2>2. IsFiniteSet(Stack \ {s}) /\ Cardinality(Stack \ {s}) = Cardinality(Stack) - 1
    BY <2>1, FS_RemoveElement
  <2>3. Stack \ Pending \subseteq Stack \ {s}  OBVIOUS
  <2> QED  BY <2>2, <2>3, FS_Subset
<1> QED  BY <1>2, <1>3

\* How far the listener of stacks can be relied on: no refresh writes back an
\* older record, and no stack's record runs out of attempts.
Ample ==
    /\ "refresh" \notin Kinds
    /\ IsFiniteSet(Stack) /\ IsFiniteSet(Client) /\ IsFiniteSet(Worker) /\ ClockRuns
    /\ 1 <= MaxRetry
    /\ OneByOne \/ Cardinality(Stack) <= MaxRetry + 1

\* One invocation goes on with the stack it holds.
LEMMA StillTracked ==
    ASSUME Tracked, UNCHANGED <<item, cfn, msgs>>, NEW w \in Worker,
           worker[w].pc # "idle", worker'[w].pc # "idle",
           worker'[w].stack = worker[w].stack, worker'[w].seen = worker[w].seen,
           \A v \in Worker : v # w => worker'[v] = worker[v],
           Pending' = Pending => (worker'[w].pc = "write" => Recording(w)')
    PROVE  Tracked'
<1>1. \A v \in Worker : /\ worker'[v].seen = worker[v].seen
                        /\ \A t \in Stack : Holds(v, t)' <=> Holds(v, t)
  <2> SUFFICES ASSUME NEW v \in Worker
               PROVE  /\ worker'[v].seen = worker[v].seen
                      /\ \A t \in Stack : Holds(v, t)' <=> Holds(v, t)
    OBVIOUS
  <2>1. CASE v = w  BY <2>1 DEF Holds
  <2>2. CASE v # w  BY <2>2 DEF Holds
  <2> QED  BY <2>1, <2>2
<1>2. Pending' = Pending  BY <1>1 DEF Pending
<1>3. OneChange'
  <2>1. \A d, t : Agrees(d, t)' <=> Agrees(d, t)  BY DEF Agrees
  <2>2. \A t \in Stack : msgs'[t] # 0 => msgs'[t] = 1 /\ cfn'[t] \notin InProgress
    BY DEF Tracked, OneChange
  <2>3. ASSUME NEW v \in Worker, NEW t \in Stack, Holds(v, t)
        PROVE  /\ msgs'[t] = 0 /\ cfn'[t] \notin InProgress
               /\ Agrees(worker[v].seen, t)'
               /\ \A u \in Worker : Holds(u, t) => u = v
    <3>1. /\ msgs[t] = 0 /\ cfn[t] \notin InProgress /\ Agrees(worker[v].seen, t)
          /\ \A u \in Worker : Holds(u, t) => u = v
      BY <2>3 DEF Tracked, OneChange
    <3>2. Agrees(worker[v].seen, t)'
      <4>1. worker'[v].seen = worker[v].seen  BY <1>1
      <4> QED  BY <3>1, <4>1 DEF Agrees
    <3> QED  BY <3>1, <3>2
  <2> QED  BY <1>1, <2>2, <2>3 DEF OneChange
<1>4. \A v \in Worker : worker'[v].pc = "write" => Recording(v)'
  <2> SUFFICES ASSUME NEW v \in Worker, v # w, worker'[v].pc = "write" PROVE Recording(v)'
    BY <1>2
  <2>1. Recording(v) /\ worker'[v] = worker[v]  BY DEF Tracked
  <2> QED  BY <1>2, <2>1 DEF Recording, Attempts
<1>5. \A t \in Stack \ Pending' : Agrees(item.stacks[t], t)'
  BY <1>2 DEF Tracked, Agrees
<1> QED  BY <1>3, <1>4, <1>5 DEF Tracked

LEMMA DescribeTracked ==
    ASSUME Shape, Tracked, NEW w \in Worker, NEW s \in Stack, Describe(w, s)
    PROVE  Tracked'
<1>1. /\ worker'[w].pc = "described" /\ worker'[w].stack = s
      /\ worker'[w].seen = IF cfn[s] = "none" THEN "deleted" ELSE cfn[s]
      /\ \A v \in Worker : v # w => worker'[v] = worker[v]
  BY DescribedWorker
<1>2. worker[w].pc = "idle" /\ msgs[s] # 0 /\ UNCHANGED <<item, cfn>>
  BY DescribeTakes DEF Shape, Typed, StackTyped
<1>3. msgs[s] = 1 /\ cfn[s] \notin InProgress  BY <1>2 DEF Tracked, OneChange
<1>4. msgs'[s] = 0 /\ \A t \in Stack : t # s => msgs'[t] = msgs[t]
  <2>1. msgs' = [msgs EXCEPT ![s] = msgs[s] - 1]  BY DescribeTakes
  <2> QED  BY <1>3, <2>1 DEF Shape, Typed, StackTyped
<1>5. \A v \in Worker, t \in Stack :
         Holds(v, t)' <=> IF v = w THEN t = s ELSE Holds(v, t)
  BY <1>1 DEF Holds
<1>6. \A v \in Worker : ~Holds(v, s)  BY <1>2 DEF Tracked, OneChange
<1>7. \A t \in Stack : ~Holds(w, t)  BY <1>2 DEF Holds
<1>8. Pending' = Pending
  <2>1. s \in Pending /\ s \in Pending'  BY <1>2, <1>5 DEF Pending
  <2>2. ASSUME NEW t \in Stack, t # s PROVE t \in Pending' <=> t \in Pending
    <3>1. (\E v \in Worker : Holds(v, t)') <=> \E v \in Worker : Holds(v, t)
      BY <1>5, <1>7, <2>2
    <3>2. msgs'[t] = msgs[t] /\ cfn'[t] = cfn[t]  BY <1>2, <1>4, <2>2
    <3> QED  BY <3>1, <3>2 DEF Pending
  <2>3. Pending \subseteq Stack /\ Pending' \subseteq Stack  BY DEF Pending
  <2> QED  BY <2>1, <2>2, <2>3
<1>9. OneChange'
  <2>1. \A t \in Stack : msgs'[t] # 0 => msgs'[t] = 1 /\ cfn'[t] \notin InProgress
    BY <1>2, <1>4 DEF Tracked, OneChange
  <2>2. ASSUME NEW v \in Worker, NEW t \in Stack, Holds(v, t)'
        PROVE  /\ msgs'[t] = 0 /\ cfn'[t] \notin InProgress
               /\ Agrees(worker[v].seen, t)'
               /\ \A u \in Worker : Holds(u, t)' => u = v
    <3>1. CASE v = w
      <4>1. t = s  BY <1>5, <2>2, <3>1
      <4>2. Agrees(worker[v].seen, t)'  BY <1>1, <1>2, <3>1, <4>1 DEF Agrees
      <4>3. \A u \in Worker : Holds(u, t)' => u = v  BY <1>5, <1>6, <3>1, <4>1
      <4> QED  BY <1>2, <1>3, <1>4, <4>1, <4>2, <4>3
    <3>2. CASE v # w
      <4>1. Holds(v, t)  BY <1>5, <2>2, <3>2
      <4>2. t # s  BY <1>6, <4>1
      <4>3. /\ msgs[t] = 0 /\ cfn[t] \notin InProgress /\ Agrees(worker[v].seen, t)
            /\ \A u \in Worker : Holds(u, t) => u = v
        BY <4>1 DEF Tracked, OneChange
      <4>4. Agrees(worker[v].seen, t)'
        <5>1. worker'[v].seen = worker[v].seen  BY <1>1, <3>2
        <5> QED  BY <1>2, <4>3, <5>1 DEF Agrees
      <4>5. \A u \in Worker : Holds(u, t)' => u = v  BY <1>5, <4>2, <4>3
      <4> QED  BY <1>2, <1>4, <4>2, <4>3, <4>4, <4>5
    <3> QED  BY <3>1, <3>2
  <2> QED  BY <2>1, <2>2 DEF OneChange
<1>10. ASSUME NEW v \in Worker, worker'[v].pc = "write" PROVE Recording(v)'
  <2>1. v # w /\ worker'[v] = worker[v]  BY <1>1, <1>10
  <2>2. Recording(v)  BY <1>10, <2>1 DEF Tracked
  <2> QED  BY <1>2, <1>8, <2>1, <2>2 DEF Recording, Attempts
<1>11. \A t \in Stack \ Pending' : Agrees(item.stacks[t], t)'
  BY <1>2, <1>8 DEF Tracked, Agrees
<1> QED  BY <1>9, <1>10, <1>11 DEF Tracked

LEMMA MatchTracked ==
    ASSUME Shape, OneInv, Ample, Tracked, item.phase = "live", NEW w \in Worker, Match(w)
    PROVE  Tracked'
<1>1. worker[w].pc = "described" /\ Found(w, 0) /\ UNCHANGED <<item, cfn, msgs>>
  BY DEF Match, OneInv, itemVars
<1>2. /\ worker'[w].pc = "write" /\ worker'[w].stack = worker[w].stack
      /\ worker'[w].seen = worker[w].seen /\ worker'[w].at = item.at
      /\ worker'[w].tries = 0
      /\ worker'[w].stacks = Merged(item.stacks, worker[w].stack, worker[w].seen)
      /\ \A v \in Worker : v # w => worker'[v] = worker[v]
  BY <1>1, FoundWorker DEF OneInv
<1>3. ASSUME Pending' = Pending PROVE Recording(w)'
  <2>1. Cardinality(Stack \ Pending) \in Nat  BY PendingSize DEF Ample
  <2>2. Attempts(w)' = 0  BY <1>1, <1>2 DEF Attempts
  <2>3. Attempts(w)' <= IF OneByOne THEN 0 ELSE Cardinality(Stack \ Pending')
    BY <1>3, <2>1, <2>2
  <2> QED  BY <1>1, <1>2, <2>3 DEF Recording, Merged
<1> QED  BY <1>1, <1>2, <1>3, StillTracked

\* The condition fails by the record of another stack, which makes attempts
\* enough: as many as there are other stacks.
LEMMA AgainTracked ==
    ASSUME Shape, OneInv, InTurn, Ample, Tracked, item.phase = "live",
           NEW w \in Worker, RecordStackAgain(w)
    PROVE  Tracked'
<1> DEFINE n == worker[w].tries
<1>1. worker[w].pc = "write" /\ item.at # worker[w].at /\ UNCHANGED <<item, cfn, msgs>>
  BY DEF RecordStackAgain, itemVars, stackVars
<1>2. n \in Nat  BY PipelineAssumption DEF Shape, Typed, WorkerTyped
<1>3. Recording(w) /\ Attempts(w) = n + 1  BY <1>1 DEF Tracked, Attempts
<1>4. ~OneByOne /\ n + 1 <= Cardinality(Stack \ Pending)
  <2>1. n + 1 <= IF OneByOne THEN 0 ELSE Cardinality(Stack \ Pending)
    BY <1>3 DEF Recording
  <2> QED  BY <1>2, <2>1
<1>5. n < MaxRetry
  <2>1. worker[w].stack \in Pending
    BY <1>1 DEF InTurn, Pending, Holds
  <2>2. Cardinality(Stack \ Pending) <= Cardinality(Stack) - 1
    BY <2>1, PendingSize DEF Ample
  <2>3. Cardinality(Stack) <= MaxRetry + 1  BY <1>4 DEF Ample
  <2>4. Cardinality(Stack \ Pending) \in Nat /\ Cardinality(Stack) \in Nat
    BY PendingSize DEF Ample
  <2> QED  BY <1>2, <1>4, <2>2, <2>3, <2>4, PipelineAssumption
<1>6. Found(w, n + 1)  BY <1>5 DEF RecordStackAgain, OneInv
<1>7. /\ worker'[w].pc = "write" /\ worker'[w].stack = worker[w].stack
      /\ worker'[w].seen = worker[w].seen /\ worker'[w].at = item.at
      /\ worker'[w].tries = n + 1
      /\ worker'[w].stacks = Merged(item.stacks, worker[w].stack, worker[w].seen)
      /\ \A v \in Worker : v # w => worker'[v] = worker[v]
  BY <1>2, <1>6, FoundWorker DEF OneInv
<1>8. ASSUME Pending' = Pending PROVE Recording(w)'
  <2>1. Attempts(w)' = n + 1  BY <1>1, <1>2, <1>7 DEF Attempts
  <2>2. Attempts(w)' <= IF OneByOne THEN 0 ELSE Cardinality(Stack \ Pending')
    BY <1>4, <1>8, <2>1
  <2> QED  BY <1>1, <1>7, <2>2 DEF Recording, Merged
<1> QED  BY <1>1, <1>7, <1>8, StillTracked

\* A stack's end is recorded: one stack less is pending, and one attempt more
\* of the others will fail.
LEMMA RecordTracked ==
    ASSUME Shape, InTurn, Ample, Tracked, NEW w \in Worker, RecordStack(w)
    PROVE  Tracked'
<1> DEFINE T == Time \cup {Chosen({})}
           s == worker[w].stack
           i == [item EXCEPT !.stacks = worker[w].stacks]
<1>1. /\ worker[w].pc = "write" /\ worker[w].at = item.at /\ UNCHANGED <<cfn, msgs>>
      /\ worker' = [worker EXCEPT ![w] = Free] /\ Stamped(i)
  BY DEF RecordStack, stackVars
<1>2. worker'[w].pc = "idle" /\ \A v \in Worker : v # w => worker'[v] = worker[v]
  BY <1>1, FreedWorker
<1>3. s \in Stack /\ Holds(w, s)  BY <1>1 DEF InTurn, Holds
<1>4. /\ msgs[s] = 0 /\ cfn[s] \notin InProgress /\ Agrees(worker[w].seen, s)
      /\ \A v \in Worker : Holds(v, s) => v = w
  BY <1>3, Zenon DEF Tracked, OneChange
<1>5. worker[w].stacks = Merged(item.stacks, s, worker[w].seen)
  BY <1>1 DEF Tracked, Recording
<1>6. item'.at \in Time \ Held /\ item'.stacks = worker[w].stacks
  <2>1. item \in Items(T, Known)  BY DEF Shape, Typed
  <2>2. worker[w].stacks \in [Stack -> Recorded]  BY DEF Shape, Typed, WorkerTyped
  <2>3. i \in Items(T, Known)  BY <2>1, <2>2, ItemFields
  <2>4. i.stacks = worker[w].stacks  BY <2>1, SMT DEF Items
  <2>5. Time \ Held # {}  BY SomeTimeLeft DEF Ample
  <2> HIDE DEF i, T
  <2> QED  BY <1>1, <2>3, <2>4, <2>5, StampedAnew
<1> HIDE DEF s, i
<1>7. \A v \in Worker : worker[v].at # item'.at
  <2>1. \A v \in Worker : worker[v].at \in Held  BY Zenon DEF Held
  <2> QED  BY <1>6, <2>1
<1>8. \A v \in Worker, t \in Stack : Holds(v, t)' <=> v # w /\ Holds(v, t)
  BY <1>2 DEF Holds
<1>9. Pending' = Pending \ {s}
  <2>1. s \notin Pending'  BY <1>1, <1>4, <1>8 DEF Pending
  <2>2. ASSUME NEW t \in Stack, t # s PROVE t \in Pending' <=> t \in Pending
    <3>1. ~Holds(w, t)  BY <2>2 DEF Holds, s
    <3>2. (\E v \in Worker : Holds(v, t)') <=> \E v \in Worker : Holds(v, t)
      BY <1>8, <3>1
    <3> QED  BY <1>1, <3>2 DEF Pending
  <2>3. Pending \subseteq Stack /\ Pending' \subseteq Stack  BY DEF Pending
  <2> QED  BY <2>1, <2>2, <2>3
<1>10. s \in Pending  BY <1>3 DEF Pending
<1>11. Cardinality(Stack \ Pending') = Cardinality(Stack \ Pending) + 1
  <2>1. Stack \ Pending' = (Stack \ Pending) \cup {s}  BY <1>3, <1>9
  <2>2. IsFiniteSet(Stack \ Pending)  BY FS_Subset DEF Ample
  <2> QED  BY <1>10, <2>1, <2>2, FS_AddElement
<1>12. OneChange'
  <2>1. \A t \in Stack : msgs'[t] # 0 => msgs'[t] = 1 /\ cfn'[t] \notin InProgress
    BY <1>1 DEF Tracked, OneChange
  <2>2. ASSUME NEW v \in Worker, NEW t \in Stack, v # w, Holds(v, t)
        PROVE  /\ msgs'[t] = 0 /\ cfn'[t] \notin InProgress
               /\ Agrees(worker[v].seen, t)'
               /\ \A u \in Worker : Holds(u, t) => u = v
    <3>1. /\ msgs[t] = 0 /\ cfn[t] \notin InProgress /\ Agrees(worker[v].seen, t)
          /\ \A u \in Worker : Holds(u, t) => u = v
      BY <2>2 DEF Tracked, OneChange
    <3>2. Agrees(worker[v].seen, t)'
      <4>1. worker'[v].seen = worker[v].seen  BY <1>2, <2>2
      <4> QED  BY <1>1, <3>1, <4>1 DEF Agrees
    <3> QED  BY <1>1, <3>1, <3>2
  <2> QED  BY <1>8, <2>1, <2>2 DEF OneChange
<1>13. ASSUME NEW t \in Stack \ Pending' PROVE Agrees(item.stacks[t], t)'
  <2>1. item'.stacks[t] = IF t = s THEN worker[w].seen
                          ELSE IF item.stacks[t] = "unlisted" THEN "absent"
                          ELSE item.stacks[t]
    BY <1>5, <1>6 DEF Merged
  <2>2. CASE t = s
    <3>1. item'.stacks[t] = worker[w].seen  BY <2>1, <2>2
    <3> QED  BY <1>1, <1>4, <2>2, <3>1 DEF Agrees
  <2>3. CASE t # s
    <3>1. t \in Stack \ Pending  BY <1>9, <2>3
    <3>2. Agrees(item.stacks[t], t)  BY <3>1 DEF Tracked
    <3>3. cfn[t] # "unlisted"  BY DEF Shape, Typed, StackTyped, CfnStatus, InProgress, Broken, Settled
    <3>4. item.stacks[t] # "unlisted"  BY <3>2, <3>3 DEF Agrees
    <3>5. item'.stacks[t] = item.stacks[t]  BY <2>1, <2>3, <3>4
    <3> QED  BY <1>1, <3>2, <3>5 DEF Agrees
  <2> QED  BY <2>2, <2>3
<1>14. ASSUME NEW v \in Worker, worker'[v].pc = "write" PROVE Recording(v)'
  <2>1. v # w /\ worker'[v] = worker[v]  BY <1>2, <1>14
  <2>2. Recording(v)  BY <1>14, <2>1 DEF Tracked
  <2>3. worker[v].tries \in Nat
    BY PipelineAssumption DEF Shape, Typed, WorkerTyped
  <2>4. ~OneByOne  BY <2>1 DEF OneByOne
  <2>5. worker[v].tries <= Cardinality(Stack \ Pending)
    <3>1. Attempts(v) <= Cardinality(Stack \ Pending)  BY <2>2, <2>4 DEF Recording
    <3>2. Cardinality(Stack \ Pending) \in Nat  BY PendingSize DEF Ample
    <3> QED  BY <2>3, <3>1, <3>2 DEF Attempts
  <2>6. worker'[v].at # item'.at  BY <1>7, <2>1
  <2>7. Attempts(v)' = worker[v].tries + 1  BY <2>1, <2>6 DEF Attempts
  <2>8. Cardinality(Stack \ Pending) \in Nat  BY PendingSize DEF Ample
  <2>9. Attempts(v)' <= IF OneByOne THEN 0 ELSE Cardinality(Stack \ Pending')
    BY <1>11, <2>3, <2>4, <2>5, <2>7, <2>8
  <2> QED  BY <2>6, <2>9 DEF Recording
<1> QED  BY <1>12, <1>13, <1>14 DEF Tracked

LEMMA StackListenerSettles ==
    ASSUME Shape, OneInv, SettleInv, Calm, Ample, NEW w \in Worker, StackListener(w)
    PROVE  SettleInv'
<1> DEFINE T == Time \cup {Chosen({})}
<1>1. UNCHANGED <<client, lis, exec, cfn>>
  BY DEF StackListener, Describe, Match, RecordStack, RecordStackAgain, stackVars
<1>2. item'.phase = item.phase /\ item'.exec = item.exec /\ item'.status = item.status
  <2>1. CASE RecordStack(w)
    <3> DEFINE i == [item EXCEPT !.stacks = worker[w].stacks]
    <3>1. item \in Items(T, Known)  BY DEF Shape, Typed
    <3>2. worker[w].stacks \in [Stack -> Recorded]  BY DEF Shape, Typed, WorkerTyped
    <3>3. i \in Items(T, Known)  BY <3>1, <3>2, ItemFields
    <3>4. i.phase = item.phase /\ i.exec = item.exec /\ i.status = item.status
      BY <3>1, SMT DEF Items
    <3>5. Stamped(i)  BY <2>1 DEF RecordStack
    <3> HIDE DEF i, T
    <3> QED  BY <3>3, <3>4, <3>5, StampKeeps DEF Calm
  <2>2. CASE ~RecordStack(w)
    BY <2>2 DEF StackListener, Describe, Match, RecordStackAgain, itemVars
  <2> QED  BY <2>1, <2>2
<1>3. \A v \in Worker : worker'[v].pc # "idle" => worker'[v].stack \in Stack
  <2>1. ASSUME worker'[w].pc # "idle" => worker'[w].stack \in Stack,
               \A v \in Worker : v # w => worker'[v] = worker[v]
        PROVE  \A v \in Worker : worker'[v].pc # "idle" => worker'[v].stack \in Stack
    BY <2>1 DEF SettleInv, InTurn
  <2>2. ASSUME NEW s \in Stack, Describe(w, s)
        PROVE  \A v \in Worker : worker'[v].pc # "idle" => worker'[v].stack \in Stack
    BY <2>1, <2>2, DescribedWorker
  <2>3. CASE worker' = [worker EXCEPT ![w] = Free]  BY <2>1, <2>3, FreedWorker
  <2>4. ASSUME NEW tries \in Nat, Found(w, tries), worker[w].pc # "idle"
        PROVE  \A v \in Worker : worker'[v].pc # "idle" => worker'[v].stack \in Stack
    BY <2>1, <2>4, FoundWorker DEF SettleInv, InTurn
  <2>5. worker[w].tries \in Nat /\ worker[w].tries + 1 \in Nat
    BY PipelineAssumption DEF Shape, Typed, WorkerTyped
  <2>6. CASE Match(w)  BY <2>3, <2>4, <2>6 DEF Match
  <2>7. CASE RecordStack(w)  BY <2>3, <2>7 DEF RecordStack
  <2>8. CASE RecordStackAgain(w)  BY <2>3, <2>4, <2>5, <2>8 DEF RecordStackAgain
  <2> QED  BY <2>2, <2>6, <2>7, <2>8 DEF StackListener
<1>4. /\ InTurn'
      /\ \A x \in Execution : (Latest(x)' <=> Latest(x)) /\ (Over(x)' <=> Over(x))
  <2>1. \A c \in Client : client'[c].pc = "write" => client'[c].kind # "refresh"
    BY <1>1 DEF SettleInv, InTurn
  <2>2. /\ \A x \in Execution : exec'[x].status = exec[x].status
        /\ \A x \in Execution : lis[<<x, "end">>].pc # "none" => lis'[<<x, "end">>].pc # "none"
    BY <1>1
  <2> QED  BY <1>2, <1>3, <2>1, <2>2, StillInTurn DEF SettleInv
<1>5. SUFFICES ASSUME NEW x \in Execution, Latest(x), Over(x) PROVE Aftermath(x)'
  BY <1>4 DEF SettleInv
<1>6. Aftermath(x)  BY <1>5 DEF SettleInv
<1>7. ~StacksStill
  <2>1. \A s \in Stack : Describe(w, s) => msgs[s] # 0
    BY DescribeTakes DEF Shape, Typed, StackTyped
  <2>2. Match(w) \/ RecordStack(w) \/ RecordStackAgain(w) => worker[w].pc # "idle"
    BY DEF Match, RecordStack, RecordStackAgain
  <2> QED  BY <2>1, <2>2 DEF StackListener, StacksStill
<1>8. lis[<<x, "end">>].pc = "done"
  <2>1. lis[<<x, "end">>].pc \in Hearing
    <3>1. <<x, "end">> \in Execution \X Event  BY DEF Event
    <3> QED  BY <3>1 DEF Shape, Typed, ListenerTyped, Hearings
  <2>2. lis[<<x, "end">>].pc # "none"  BY <1>5 DEF SettleInv, InTurn
  <2>3. lis[<<x, "end">>].pc \notin {"queued", "status", "fetch", "stacks", "delete"}
    BY <1>6, <1>7 DEF Aftermath, Ending
  <2> QED  BY <2>1, <2>2, <2>3 DEF Hearing
<1>9. SUFFICES ASSUME item.phase = "live"
               PROVE  item.exec = x /\ item.status = exec[x].status /\ Tracked'
  BY <1>1, <1>2, <1>6, <1>8 DEF Aftermath, Ending
<1>10. item.exec = x /\ item.status = exec[x].status /\ Tracked
  BY <1>6, <1>8, <1>9 DEF Aftermath
<1>11. Tracked'
  BY <1>9, <1>10, DescribeTracked, MatchTracked, RecordTracked, AgainTracked
     DEF StackListener, SettleInv
<1> QED  BY <1>10, <1>11

\* The listener of executions handles event k a step further.
LEMMA ListenerSettles ==
    ASSUME Shape, SettleInv, UNCHANGED <<client, exec, cfn, msgs, worker>>,
           NEW k \in Execution \X Event, lis[k].pc \notin {"none", "done"},
           NEW r, lis' = [lis EXCEPT ![k] = r], r.pc # "none",
           item'.phase = item.phase \/ item.phase # "none",
           \A x \in Execution : k = <<x, "end">> /\ Ending(x, lis[k]) /\ StacksStill =>
              /\ r.pc = "status" => r.at = item'.at
              /\ r.pc \in {"fetch", "stacks"} => item'.exec = x /\ item'.status = exec[x].status
              /\ r.pc = "fetch" => r.tries = 0
              /\ r.pc = "stacks" => r.stacks = ByName /\ (r.tries = 0 \/ r.at = item'.at)
              /\ r.pc = "done" /\ item'.phase = "live" =>
                    /\ item'.exec = x /\ item'.status = exec[x].status
                    /\ \A s \in Stack : Agrees(item'.stacks[s], s)
    PROVE  SettleInv'
<1>1. lis'[k] = r /\ \A h \in Execution \X Event : h # k => lis'[h] = lis[h]
  BY DEF Shape, Typed, ListenerTyped
<1>2. \A x \in Execution : <<x, "end">> \in Execution \X Event  BY DEF Event
<1>3. /\ InTurn'
      /\ \A x \in Execution : (Latest(x)' <=> Latest(x)) /\ (Over(x)' <=> Over(x))
  <2>1. \A x \in Execution : lis[<<x, "end">>].pc # "none" => lis'[<<x, "end">>].pc # "none"
    BY <1>1, <1>2
  <2>2. item'.phase = item.phase \/ \E x \in Execution : Latest(x)
    BY DEF SettleInv, InTurn
  <2> QED  BY <2>1, <2>2, StillInTurn DEF SettleInv, InTurn
<1>4. SUFFICES ASSUME NEW x \in Execution, Latest(x), Over(x) PROVE Aftermath(x)'
  BY <1>3 DEF SettleInv
<1>5. Aftermath(x)  BY <1>4 DEF SettleInv
<1>6. k = <<x, "end">>  BY <1>5 DEF Aftermath
<1>7. Ending(x, lis[k])  BY <1>5, <1>6 DEF Aftermath
<1>8. StacksStill
  <2>1. lis[k].pc \in {"queued", "status", "fetch", "stacks", "delete"}
    <3>1. lis[k].pc \in Hearing  BY DEF Shape, Typed, ListenerTyped, Hearings
    <3> QED  BY <3>1 DEF Hearing
  <2> QED  BY <1>7, <2>1 DEF Ending
<1>9. StacksStill'  BY <1>8 DEF StacksStill
<1>10. ByName' = ByName  BY DEF ByName
<1>11. /\ r.pc = "status" => r.at = item'.at
       /\ r.pc \in {"fetch", "stacks"} => item'.exec = x /\ item'.status = exec[x].status
       /\ r.pc = "fetch" => r.tries = 0
       /\ r.pc = "stacks" => r.stacks = ByName /\ (r.tries = 0 \/ r.at = item'.at)
       /\ r.pc = "done" /\ item'.phase = "live" =>
             /\ item'.exec = x /\ item'.status = exec[x].status
             /\ \A s \in Stack : Agrees(item'.stacks[s], s)
  BY <1>6, <1>7, <1>8
<1>12. Ending(x, lis[<<x, "end">>])'  BY <1>1, <1>6, <1>9, <1>10, <1>11 DEF Ending
<1>13. (\A s \in Stack : Agrees(item'.stacks[s], s)) => Tracked'
  <2> SUFFICES ASSUME \A s \in Stack : Agrees(item'.stacks[s], s) PROVE Tracked'
    OBVIOUS
  <2>1. OneChange'  BY <1>9 DEF OneChange, StacksStill, Holds
  <2>2. \A w \in Worker : worker'[w].pc # "write"  BY <1>9 DEF StacksStill
  <2>3. \A s \in Stack : Agrees(item.stacks[s], s)'  BY DEF Agrees
  <2> QED  BY <2>1, <2>2, <2>3 DEF Tracked
<1>14. \A h \in Execution \X Event : h # <<x, "end">> => lis'[h].pc \in {"none", "done"}
  BY <1>1, <1>5, <1>6 DEF Aftermath
<1>15. lis'[<<x, "end">>].pc = "done" /\ item'.phase = "live" =>
          item'.exec = x /\ item'.status = exec'[x].status /\ Tracked'
  BY <1>1, <1>6, <1>11, <1>13
<1> QED  BY <1>12, <1>14, <1>15 DEF Aftermath

LEMMA StateListenerSettles ==
    ASSUME Shape, OneInv, SettleInv, Calm, Ample, NEW k \in Execution \X Event, StateListener(k)
    PROVE  SettleInv'
<1> DEFINE T == Time \cup {Chosen({})}
           e == lis[k]
<1>1. UNCHANGED <<client, exec, cfn, msgs, worker>>
  BY DEF StateListener, Receive, Drop, RecordStatus, RecordStatusAgain, Fetch,
     RecordStacks, RecordStacksAgain, DeleteProject, stackVars
<1>2. e \in Hearings(T) /\ lis \in [Execution \X Event -> Hearings(T)]
  BY DEF Shape, Typed, ListenerTyped
<1>3. item \in Items(T, Known) /\ image = item  BY DEF Shape, Typed, OneInv
<1>4. k[1] \in Execution /\ \A x : k = <<x, "end">> => k[1] = x /\ k[2] = "end"  BY DEF Event
<1>5. Done.pc = "done" /\ \A pc \in Hearing : [Silent EXCEPT !.pc = pc].pc = pc
  BY DEF Done, Silent
<1>6. [e EXCEPT !.pc = "fetch", !.tries = 0].pc = "fetch" /\ [e EXCEPT !.pc = "fetch", !.tries = 0].tries = 0
  <2> HIDE DEF e
  <2> QED  BY <1>2, SMT DEF Hearings
<1>7. e.pc \notin {"none", "queued", "done"} => item.phase # "none"
  BY DEF OneInv, EventsInOrder
<1>8. CASE Receive(k)
  <2> DEFINE r1 == [Silent EXCEPT !.pc = "status", !.at = image.at, !.action = image.action]
             r2 == [Silent EXCEPT !.pc = "done"]
             r == IF image.phase = "live" THEN r1 ELSE r2
  <2>1. e.pc = "queued" /\ UNCHANGED <<item, image>> /\ lis' = [lis EXCEPT ![k] = r]
    BY <1>8, Zenon DEF Receive, Hears, itemVars
  <2>2. r1.pc = "status" /\ r1.at = item.at /\ r2.pc = "done"  BY <1>3 DEF Silent
  <2> HIDE DEF r1, r2
  <2>3. (r.pc = "status" /\ r.at = item.at) \/ (r.pc = "done" /\ item.phase # "live")
    BY <1>3, <2>2
  <2> HIDE DEF r
  <2> QED  BY <1>1, <2>1, <2>3, ListenerSettles
<1>9. CASE RecordStatus(k)
  <2> DEFINE i1 == [item EXCEPT !.exec = k[1]]
             i == [i1 EXCEPT !.status = EventStatus(k)]
  <2>1. e.pc = "status" /\ lis' = [lis EXCEPT ![k] = AfterStatus(k)] /\ Stamped(i)
    BY <1>9, Zenon DEF RecordStatus, Hears
  <2>2. k[1] \in Known  BY <2>1, Zenon DEF Shape, Typed, EventsKnown
  <2>3. EventStatus(k) \in {"RUNNING", "SUCCEEDED", "FAILED"}
    <3>1. k[1] # 0  BY <1>4 DEF Execution
    <3> QED  BY <2>2, <3>1, SeenTyped DEF EventStatus, Shape, Typed
  <2>4. i1 \in Items(T, Known) /\ i1.exec = k[1] /\ i1.phase = item.phase
    <3>1. i1 \in Items(T, Known)  BY <1>3, <2>2, ItemFields
    <3>2. i1.exec = k[1] /\ i1.phase = item.phase  BY <1>3, SMT DEF Items
    <3> QED  BY <3>1, <3>2
  <2> HIDE DEF i1
  <2>5. i \in Items(T, Known)  BY <2>3, <2>4, ItemFields
  <2>6. i.exec = k[1] /\ i.phase = item.phase /\ i.status = EventStatus(k)
    BY <2>4, SMT DEF Items
  <2> HIDE DEF i, T
  <2>7. item'.exec = k[1] /\ item'.phase = item.phase /\ item'.status = EventStatus(k)
    BY <2>1, <2>5, <2>6, StampKeeps DEF Calm
  <2> DEFINE r == AfterStatus(k)
  <2>8. r.pc \in {"fetch", "done"} /\ (k[2] = "end" => r.pc = "fetch" /\ r.tries = 0)
    BY <1>5, <1>6 DEF AfterStatus
  <2>9. k[2] = "end" => EventStatus(k) = exec[k[1]].status  BY DEF EventStatus
  <2> HIDE DEF r
  <2>10. e.pc \notin {"none", "done"} /\ r.pc # "none" /\ lis' = [lis EXCEPT ![k] = r]
    BY <2>1, <2>8 DEF r
  <2>11. ASSUME NEW x \in Execution, k = <<x, "end">>
         PROVE  /\ r.pc = "fetch" /\ r.tries = 0
                /\ item'.exec = x /\ item'.status = exec[x].status
    BY <1>4, <2>7, <2>8, <2>9, <2>11
  <2> QED  BY <1>1, <2>7, <2>10, <2>11, ListenerSettles
<1>10. CASE RecordStatusAgain(k)
  <2> DEFINE r1 == [e EXCEPT !.at = image.at, !.tries = e.tries + 1]
             r == IF image.phase # "live" THEN Done
                  ELSE IF e.tries < MaxRetry THEN r1 ELSE AfterStatus(k)
  <2>1. e.pc = "status" /\ UNCHANGED item /\ lis' = [lis EXCEPT ![k] = r] /\ item.at # e.at
    BY <1>10, Zenon DEF RecordStatusAgain, Hears, itemVars
  <2>2. r1.pc = "status"
    <3> HIDE DEF e
    <3> QED  BY <1>2, <2>1, SMT DEF Hearings
  <2>3. AfterStatus(k).pc \in {"fetch", "done"}  BY <1>5, <1>6 DEF AfterStatus
  <2> HIDE DEF r1
  <2>4. r.pc # "none"  BY <1>5, <2>2, <2>3
  <2> HIDE DEF r
  <2>5. \A x \in Execution : ~Ending(x, e)  BY <2>1 DEF Ending
  <2> QED  BY <1>1, <2>1, <2>4, <2>5, ListenerSettles
<1>11. CASE Fetch(k)
  <2> DEFINE r1 == [e EXCEPT !.pc = "stacks"]
             r == [r1 EXCEPT !.stacks = ByName]
  <2>1. e.pc = "fetch" /\ UNCHANGED item /\ lis' = [lis EXCEPT ![k] = r]
    <3>1. lis' = [lis EXCEPT ![k] = r]  BY <1>2, <1>11, Zenon DEF Fetch
    <3> QED  BY <1>11, <3>1 DEF Fetch, Hears, itemVars
  <2>2. r1 \in Hearings(T) /\ r1.pc = "stacks" /\ r1.tries = e.tries
    <3> HIDE DEF e
    <3>1. r1 \in Hearings(T)  BY <1>2, HearingFields DEF Hearing
    <3>2. r1.pc = "stacks" /\ r1.tries = e.tries  BY <1>2, SMT DEF Hearings
    <3> QED  BY <3>1, <3>2
  <2> HIDE DEF r1
  <2>3. r.pc = "stacks" /\ r.tries = e.tries /\ r.stacks = ByName  BY <2>2, SMT DEF Hearings
  <2> HIDE DEF r
  <2>4. ASSUME NEW x \in Execution, Ending(x, e)
        PROVE  item.exec = x /\ item.status = exec[x].status /\ r.tries = 0
    BY <2>1, <2>3, <2>4 DEF Ending
  <2> QED  BY <1>1, <2>1, <2>3, <2>4, ListenerSettles
<1>12. CASE RecordStacks(k)
  <2> DEFINE i == [item EXCEPT !.stacks = e.stacks]
  <2>1. e.stacks \in [Stack -> Recorded]  BY <1>2 DEF Hearings
  <2>2. i \in Items(T, Known)
    <3> HIDE DEF e
    <3> QED  BY <1>3, <2>1, ItemFields
  <2>3. i.phase = item.phase /\ i.exec = item.exec /\ i.status = item.status /\ i.stacks = e.stacks
    <3> HIDE DEF e
    <3> QED  BY <1>3, SMT DEF Items
  <2>4. e.pc = "stacks" /\ Stamped(i) /\ lis' = [lis EXCEPT ![k] = AfterStacks(k)]
    BY <1>12 DEF RecordStacks, Hears
  <2>5. Time \ Held # {}  BY SomeTimeLeft DEF Ample
  <2> HIDE DEF i, T
  <2>6. /\ item'.phase = item.phase /\ item'.exec = item.exec /\ item'.status = item.status
        /\ item'.stacks = e.stacks
    BY <2>2, <2>3, <2>4, <2>5, StampKeeps, StampedAnew DEF Calm
  <2> DEFINE r == AfterStacks(k)
  <2>7. r.pc \in {"done", "delete"}  BY <1>5 DEF AfterStacks, Hearing
  <2> HIDE DEF r
  <2>8. lis' = [lis EXCEPT ![k] = r]  BY <2>4 DEF r
  <2>9. ASSUME NEW x \in Execution, Ending(x, e)
        PROVE  /\ item'.exec = x /\ item'.status = exec[x].status
               /\ \A s \in Stack : Agrees(item'.stacks[s], s)
    <3>1. item.exec = x /\ item.status = exec[x].status /\ e.stacks = ByName
      BY <2>4, <2>9 DEF Ending
    <3>2. \A s \in Stack : Agrees(ByName[s], s)  BY DEF ByName, Agrees
    <3> QED  BY <2>6, <3>1, <3>2
  <2> QED  BY <1>1, <2>4, <2>6, <2>7, <2>8, <2>9, ListenerSettles
<1>13. CASE RecordStacksAgain(k)
  <2> DEFINE r1 == [e EXCEPT !.at = image.at, !.tries = e.tries + 1, !.stacks = ByName]
             r == IF image.phase # "live" THEN Done
                  ELSE IF e.tries < MaxRetry THEN r1 ELSE AfterStacks(k)
  <2>1. e.pc = "stacks" /\ UNCHANGED item /\ lis' = [lis EXCEPT ![k] = r] /\ item.at # e.at
    BY <1>13, Zenon DEF RecordStacksAgain, Hears, itemVars
  <2>2. r1.pc = "stacks" /\ r1.at = item.at /\ r1.stacks = ByName
    <3> HIDE DEF e
    <3> QED  BY <1>2, <1>3, <2>1, SMT DEF Hearings
  <2>3. AfterStacks(k).pc \in {"done", "delete"}  BY <1>5 DEF AfterStacks, Hearing
  <2> HIDE DEF r1
  <2>4. r.pc # "none"  BY <1>5, <2>2, <2>3
  <2>5. ASSUME NEW x \in Execution, Ending(x, e)
        PROVE  /\ item.exec = x /\ item.status = exec[x].status
               /\ \/ r.pc = "stacks" /\ r.at = item.at /\ r.stacks = ByName
                  \/ r.pc = "done" /\ item.phase # "live"
    <3>1. item.exec = x /\ item.status = exec[x].status /\ e.tries = 0
      BY <2>1, <2>5 DEF Ending
    <3>2. e.tries < MaxRetry  BY <3>1, PipelineAssumption DEF Ample
    <3> QED  BY <1>3, <1>5, <2>2, <3>1, <3>2
  <2> HIDE DEF r
  <2> QED  BY <1>1, <2>1, <2>4, <2>5, ListenerSettles
<1>14. CASE DeleteProject(k)
  <2>1. e.pc = "delete" /\ item' = [item EXCEPT !.phase = "deleted"] /\ lis' = [lis EXCEPT ![k] = Done]
    BY <1>14 DEF DeleteProject, Hears, Store
  <2>2. item'.phase = "deleted"  BY <1>3, <2>1, SMT DEF Items
  <2> QED  BY <1>1, <1>5, <1>7, <2>1, <2>2, ListenerSettles
<1>15. CASE Drop(k)
  <2>1. e.pc = "queued" /\ UNCHANGED item /\ lis' = [lis EXCEPT ![k] = Done] /\ item.phase # "live"
    BY <1>3, <1>15 DEF Drop, Hears, itemVars
  <2> QED  BY <1>1, <1>5, <2>1, ListenerSettles
<1> QED
  BY <1>8, <1>9, <1>10, <1>11, <1>12, <1>13, <1>14, <1>15 DEF StateListener

LEMMA SettleNext ==
    ASSUME Shape, OneInv, GoneInv, SettleInv, Calm, Ample, [Next]_vars, ~abrupt'
    PROVE  SettleInv'
<1>1. CASE UNCHANGED vars
  BY <1>1, SettleQuietly DEF vars, itemVars, stackVars, SettleInv, InTurn
<1>2. CASE Propagate  BY <1>2 DEF Propagate, OneInv
<1>3. CASE \E c \in Client : Request(c)  BY <1>3, RequestSettles DEF Ample
<1>4. CASE \/ \E x \in Execution, s \in Stack : Act(x, s)
           \/ \E x \in Execution : ExecutionSucceeds(x) \/ ExecutionBreaks(x)
           \/ \E s \in Stack : StackDone(s) \/ StackFails(s)
  BY <1>4, CloudSettles
<1>5. CASE \E w \in Worker : StackListener(w)  BY <1>5, StackListenerSettles
<1>6. CASE \E k \in Execution \X Event : StateListener(k) \/ Redeliver(k)
  <2>1. \A k \in Execution \X Event : ~Redeliver(k)  BY DEF Redeliver, Calm
  <2> QED  BY <1>6, <2>1, StateListenerSettles, Zenon
<1> QED  BY <1>1, <1>2, <1>3, <1>4, <1>5, <1>6, Zenon DEF Next

LEMMA SettledFollows ==
    ASSUME Shape, SettleInv
    PROVE  SettledStatus
<1> SUFFICES ASSUME Quiet, item.phase = "live"
             PROVE  /\ item.exec > 0 => item.status = exec[item.exec].status
                    /\ \A x \in Execution : x > item.exec => exec[x].status = "none"
                    /\ \A s \in Stack : item.stacks[s] = cfn[s] \/ item.stacks[s] = ById(item.stacks)[s]
  BY DEF SettledStatus
<1>1. PICK x \in Execution : Latest(x)  BY DEF SettleInv, InTurn
<1>2. Over(x)
  <2>1. exec[x].status \in {"none", "RUNNING", "SUCCEEDED", "FAILED"}
    BY DEF Shape, Typed, ExecTyped
  <2> QED  BY <1>1, <2>1 DEF Quiet, Running, Latest, Over
<1>3. lis[<<x, "end">>].pc = "done"
  <2>1. <<x, "end">> \in Execution \X Event  BY DEF Event
  <2> QED  BY <1>2, <2>1 DEF Quiet, SettleInv, InTurn
<1>4. item.exec = x /\ item.status = exec[x].status /\ Tracked
  BY <1>1, <1>2, <1>3 DEF SettleInv, Aftermath
<1>5. Pending = {}  BY DEF Quiet, Pending, Holds
<1>6. ASSUME NEW s \in Stack
      PROVE  item.stacks[s] = cfn[s] \/ item.stacks[s] = ById(item.stacks)[s]
  <2>1. Agrees(item.stacks[s], s)  BY <1>4, <1>5 DEF Tracked
  <2> QED  BY <2>1 DEF Agrees, ById
<1> QED  BY <1>1, <1>4, <1>6 DEF Latest

\* Once everything is at rest the item tells the truth: the outcome of the last
\* execution, and of every stack what CloudFormation ended with, although the
\* listeners' writes race for one updateAt and each gives up after
\* MAX_RETRY_COUNT attempts.  It takes no more stacks than attempts, or stack
\* events handled one at a time: each attempt fails by the record of another
\* stack, and a stack that is recorded is not recorded again before the next
\* execution.  No deletion is abrupt: two executions may end in any order.
THEOREM StatusSettles ==
    ASSUME Calm, Ample
    PROVE  Spec => []SettledStatus
<1> DEFINE Inv == Shape /\ (~abrupt => OneInv /\ GoneInv /\ SettleInv)
<1>1. Init => Inv  BY ShapeHolds, OneInit, GoneInit, SettleInit
<1>2. Inv /\ [Next]_vars => Inv'  BY ShapeHolds, OneNext, GoneNext, SettleNext, StillInOrder
<1>3. Inv => SettledStatus  BY SettledFollows DEF SettledStatus
<1> QED  BY <1>1, <1>2, <1>3, PTL DEF Spec

-----------------------------------------------------------------------------
(* A pipeline that shows Active runs with the registered applications.     *)

\* An application that is being registered or removed counts from the start
\* of the execution that makes it known.
Registering(c) ==
    client[c].pc = "register" \/ (client[c].pc = "write" /\ client[c].kind = "app")

Listed(A) ==
    /\ \A c \in Client : Registering(c) => client[c].apps = A
    /\ (\A c \in Client : ~Registering(c)) => apps = A

Started == \E x \in Execution : exec[x].status # "none"

\* The stack is there, deployed with applications A if it lists them.
Deployed(s, A) == cfn[s] = "complete" /\ (s \in AppStack => live[s] = A)

\* How far an execution that is not a deletion has come with a stack.
Making(x, s) ==
    LET plan == exec[x].plan[s] IN
    \/ plan = "Create" /\ cfn[s] = "none"
    \/ plan = "Update" /\ cfn[s] = "complete"
    \/ /\ plan = "Wait" /\ cfn[s] \in {"creating", "updating", "complete"}
       /\ live[s] = exec[x].apps
    \/ /\ plan \in {"Create", "WaitByName", "Pass", "Done"}
       /\ Deployed(s, exec[x].apps)

\* What an execution deploys, and what stays of it, is what is listed.
Serving ==
    /\ \A x \in Execution : Running(x) =>
          (\A s \in Stack : Making(x, s)) /\ Listed(exec[x].apps)
    /\ Started /\ (\A x \in Execution : ~Running(x)) =>
          \E A \in SUBSET App : Listed(A) /\ \A s \in Stack : Deployed(s, A)
    /\ ~Started => \A s \in Stack : cfn[s] = "none"

\* So is what records say of the applications.
Listings ==
    /\ ~Writing /\ item.phase # "none" => Listed(item.apps)
    /\ \A c \in Client : client[c].pc = "write" => Listed(client[c].item.apps)
    /\ \A c \in Client : client[c].pc = "checked" => client[c].item.apps = item.apps

\* The pipeline is being deleted, and shows it or is about to.
Retiring ==
    \/ Gone
    \/ ~Writing /\ item.action = "Delete"
    \/ \E c \in Client : client[c].pc = "write" /\ client[c].item.action = "Delete"

Unbroken == \A s \in Stack : cfn[s] \notin Broken \cup {"rollback"}

ServeInv ==
    /\ IF item.phase = "none" THEN item.action = "Create" ELSE Started
    /\ mishaps = 0 =>
          /\ Unbroken
          /\ ~Retiring => Serving /\ Listings
          /\ Retiring /\ ~Gone => \E x \in Execution : Running(x)

LEMMA ServeInit == Init => ServeInv
<1> SUFFICES ASSUME Init PROVE ServeInv  OBVIOUS
<1>1. \A x \in Execution : <<x, "start">> \in Execution \X Event /\ <<x, "end">> \in Execution \X Event
  BY DEF Event
<1>2. \A k \in Execution \X Event : lis[k].pc = "none"  BY DEF Init, Silent
<1>3. \A c \in Client : client[c].pc = "idle"  BY DEF Init, Idle
<1>4. \A x \in Execution : exec[x].status = "none"  BY DEF Init
<1>5. item.phase = "none" /\ item.action = "Create"  BY DEF Init, Blank
<1>6. \A s \in Stack : cfn[s] = "none"  BY DEF Init
<1>7. ~Started /\ \A x \in Execution : ~Running(x)  BY <1>4 DEF Started, Running
<1>8. ~Gone  BY <1>1, <1>2, <1>5 DEF Gone, DeletedBy
<1>9. ~Retiring  BY <1>3, <1>5, <1>8 DEF Retiring
<1>10. Serving /\ Listings  BY <1>3, <1>5, <1>6, <1>7 DEF Serving, Listings
<1>11. Unbroken  BY <1>6 DEF Unbroken, Broken
<1> QED  BY <1>5, <1>9, <1>10, <1>11 DEF ServeInv

\* What is gone stays gone while the end of the deletion waits.
LEMMA StillGone ==
    ASSUME Gone, item.phase = "deleted" => item'.phase = "deleted",
           \A x \in Execution : DeletedBy(x) => item'.action = item.action,
           \A x \in Execution : exec[x].status = "SUCCEEDED" => exec'[x].status = "SUCCEEDED",
           \A x \in Execution : DeletedBy(x) => lis'[<<x, "end">>] = lis[<<x, "end">>]
    PROVE  Gone'
<1>1. ASSUME NEW x \in Execution, DeletedBy(x) PROVE DeletedBy(x)'
  BY <1>1 DEF DeletedBy
<1> QED  BY <1>1 DEF Gone

\* A step that changes no request, execution, stack or application.
LEMMA ServeElsewhere ==
    ASSUME ServeInv, UNCHANGED <<client, exec, cfn, live, apps, mishaps>>,
           item'.action = item.action, item'.apps = item.apps,
           item'.phase = "none" <=> item.phase = "none", Gone => Gone'
    PROVE  ServeInv'
<1>1. \A x \in Execution : Running(x)' <=> Running(x)  BY DEF Running
<1>2. Started' <=> Started  BY DEF Started
<1>3. \A A : Listed(A)' <=> Listed(A)  BY DEF Listed, Registering
<1>4. \A x \in Execution, s \in Stack : Making(x, s)' <=> Making(x, s)
  BY DEF Making, Deployed
<1>5. \A s \in Stack, A \in SUBSET App : Deployed(s, A)' <=> Deployed(s, A)  BY DEF Deployed
<1>6. Serving => Serving'
  <2>1. \A x \in Execution : exec'[x].apps = exec[x].apps  OBVIOUS
  <2>2. \A x \in Execution : Listed(exec[x].apps)' <=> Listed(exec[x].apps)
    BY DEF Listed, Registering
  <2> QED  BY <1>1, <1>2, <1>3, <1>4, <1>5, <2>1, <2>2 DEF Serving
<1>7. Listings => Listings'
  <2>1. Listed(item.apps)' <=> Listed(item.apps)  BY DEF Listed, Registering
  <2>2. \A c \in Client : Listed(client[c].item.apps)' <=> Listed(client[c].item.apps)
    BY DEF Listed, Registering
  <2> QED  BY <2>1, <2>2 DEF Listings, Writing
<1>8. Retiring => Retiring'  BY DEF Retiring, Writing
<1>9. Retiring' => Retiring \/ Gone'  BY DEF Retiring, Writing
<1>10. Unbroken' <=> Unbroken  BY DEF Unbroken
<1> QED  BY <1>1, <1>2, <1>6, <1>7, <1>8, <1>9, <1>10 DEF ServeInv

\* What a stamped write leaves of the applications.
LEMMA StampKeepsApps ==
    ASSUME NEW T, NEW X, NEW i \in Items(T, X), Stamped(i)
    PROVE  item'.apps = i.apps
<1>1. PICK t : Store([i EXCEPT !.at = t])  BY StampedIsStored, Zenon
<1>2. item' = [i EXCEPT !.at = t]  BY <1>1 DEF Store
<1> QED  BY <1>2, SMT DEF Items

LEMMA StackListenerServes ==
    ASSUME Shape, OneInv, ServeInv, Calm, NEW w \in Worker, StackListener(w)
    PROVE  ServeInv'
<1>1. UNCHANGED <<client, lis, exec, cfn, live, apps, mishaps>>
  BY DEF StackListener, Describe, Match, RecordStack, RecordStackAgain, stackVars
<1>2. item'.action = item.action /\ item'.phase = item.phase /\ item'.apps = item.apps
  <2>1. CASE RecordStack(w)
    <3> DEFINE T == Time \cup {Chosen({})}
               i == [item EXCEPT !.stacks = worker[w].stacks]
    <3>1. item \in Items(T, Known)  BY DEF Shape, Typed
    <3>2. worker[w].stacks \in [Stack -> Recorded]  BY DEF Shape, Typed, WorkerTyped
    <3>3. i \in Items(T, Known)  BY <3>1, <3>2, ItemFields
    <3>4. i.action = item.action /\ i.phase = item.phase /\ i.apps = item.apps
      BY <3>1, SMT DEF Items
    <3>5. Stamped(i)  BY <2>1 DEF RecordStack
    <3> HIDE DEF i, T
    <3> QED  BY <3>3, <3>4, <3>5, StampKeeps, StampKeepsApps DEF Calm
  <2>2. CASE ~RecordStack(w)
    BY <2>2 DEF StackListener, Describe, Match, RecordStackAgain, itemVars
  <2> QED  BY <2>1, <2>2
<1>3. Gone => Gone'  BY <1>1, <1>2 DEF Gone, DeletedBy
<1> QED  BY <1>1, <1>2, <1>3, ServeElsewhere

\* The listener of executions handles event k a step further, and goes on with
\* the end of a deletion.
LEMMA ListenerServes ==
    ASSUME Shape, ServeInv, UNCHANGED <<client, exec, cfn, live, apps, mishaps>>,
           item'.action = item.action, item'.apps = item.apps,
           item.phase = "deleted" => item'.phase = "deleted",
           item'.phase = "none" <=> item.phase = "none",
           NEW k \in Execution \X Event, NEW r, lis' = [lis EXCEPT ![k] = r],
           k[2] = "end" /\ DeletedBy(k[1]) =>
              \/ item'.phase = "deleted" \/ r.pc = "delete"
              \/ /\ r.pc \in {"status", "fetch", "stacks"} /\ r.action = "Delete"
                 /\ exec[k[1]].status = "SUCCEEDED"
    PROVE  ServeInv'
<1>1. \A x \in Execution : <<x, "end">> \in Execution \X Event  BY DEF Event
<1>2. lis'[k] = r /\ \A h \in Execution \X Event : h # k => lis'[h] = lis[h]
  BY DEF Shape, Typed, ListenerTyped
<1>3. ASSUME NEW x \in Execution, DeletedBy(x) PROVE Gone'
  <2>1. CASE k = <<x, "end">>
    <3>1. k[1] = x /\ k[2] = "end"  BY <2>1
    <3>2. item'.phase = "deleted" \/ DeletedBy(x)'
      BY <1>2, <1>3, <2>1, <3>1 DEF DeletedBy
    <3> QED  BY <3>2 DEF Gone
  <2>2. CASE k # <<x, "end">>
    <3>1. lis'[<<x, "end">>] = lis[<<x, "end">>]  BY <1>1, <1>2, <2>2
    <3>2. DeletedBy(x)'  BY <1>3, <3>1 DEF DeletedBy
    <3> QED  BY <3>2 DEF Gone
  <2> QED  BY <2>1, <2>2
<1>4. Gone => Gone'  BY <1>3 DEF Gone
<1> QED  BY <1>4, ServeElsewhere

LEMMA StateListenerServes ==
    ASSUME Shape, OneInv, ServeInv, Calm, NEW k \in Execution \X Event, StateListener(k)
    PROVE  ServeInv'
<1> DEFINE T == Time \cup {Chosen({})}
           x == k[1]
<1>1. UNCHANGED <<client, exec, cfn, live, apps, mishaps>>
  BY DEF StateListener, Receive, Drop, RecordStatus, RecordStatusAgain, Fetch,
     RecordStacks, RecordStacksAgain, DeleteProject, stackVars
<1>2. lis[k] \in Hearings(T) /\ lis \in [Execution \X Event -> Hearings(T)]
  BY DEF Shape, Typed, ListenerTyped
<1>3. item \in Items(T, Known)  BY DEF Shape, Typed
<1>4. x \in Execution /\ (k = <<x, "start">> \/ k = <<x, "end">>)  BY DEF Event
<1>5. item.phase = "deleted" \/ item.phase = "live" \/ item.phase = "none"
  BY <1>3, ItemTypes
<1>6. lis[k].pc \notin {"none", "queued", "done"} => item.phase # "none"
  BY DEF OneInv, EventsInOrder
<1>7. ASSUME k[2] = "end", DeletedBy(x)
      PROVE  /\ lis[k].pc \in {"queued", "status", "fetch", "stacks", "delete"}
             /\ lis[k].pc # "delete" => exec[x].status = "SUCCEEDED"
             /\ lis[k].pc = "queued" => item.action = "Delete"
             /\ lis[k].pc \in {"status", "fetch", "stacks"} => lis[k].action = "Delete"
  BY <1>4, <1>7 DEF DeletedBy
<1>8. ASSUME k[2] = "end" PROVE AfterStatus(k).pc = "fetch" /\ AfterStatus(k).action = lis[k].action
  <2> DEFINE r1 == [lis[k] EXCEPT !.pc = "fetch"]
  <2>1. r1.pc = "fetch" /\ r1.action = lis[k].action /\ r1 \in Hearings(T)
    <3>1. r1 \in Hearings(T)  BY <1>2, HearingFields DEF Hearing
    <3>2. r1.pc = "fetch" /\ r1.action = lis[k].action  BY <1>2, SMT DEF Hearings
    <3> QED  BY <3>1, <3>2
  <2> HIDE DEF r1
  <2>2. [r1 EXCEPT !.tries = 0].pc = "fetch" /\ [r1 EXCEPT !.tries = 0].action = lis[k].action
    BY <2>1, SMT DEF Hearings
  <2>3. [lis[k] EXCEPT !.pc = "fetch", !.tries = 0] = [r1 EXCEPT !.tries = 0]  BY Zenon DEF r1
  <2> QED  BY <1>8, <2>2, <2>3 DEF AfterStatus
<1>9. ASSUME k[2] = "end", exec[x].status = "SUCCEEDED", lis[k].action = "Delete"
      PROVE  AfterStacks(k).pc = "delete"
  BY <1>9 DEF AfterStacks, EventStatus, Silent
<1>0. ASSUME NEW r, lis' = [lis EXCEPT ![k] = r], item'.action = item.action,
             item'.apps = item.apps, item'.phase = item.phase,
             k[2] = "end" /\ DeletedBy(x) =>
                \/ item.phase = "deleted" \/ r.pc = "delete"
                \/ /\ r.pc \in {"status", "fetch", "stacks"} /\ r.action = "Delete"
                   /\ exec[x].status = "SUCCEEDED"
      PROVE  ServeInv'
  <2>1. k[2] = "end" /\ DeletedBy(k[1]) =>
           \/ item'.phase = "deleted" \/ r.pc = "delete"
           \/ /\ r.pc \in {"status", "fetch", "stacks"} /\ r.action = "Delete"
              /\ exec[k[1]].status = "SUCCEEDED"
    BY <1>0
  <2>2. item.phase = "deleted" => item'.phase = "deleted"  BY <1>0
  <2>3. item'.phase = "none" <=> item.phase = "none"  BY <1>0
  <2> QED  BY <1>1, <1>0, <2>1, <2>2, <2>3, ListenerServes, Zenon
<1>10. CASE Receive(k)
  <2> DEFINE r1 == [Silent EXCEPT !.pc = "status", !.at = image.at, !.action = image.action]
             r2 == [Silent EXCEPT !.pc = "done"]
             r == IF image.phase = "live" THEN r1 ELSE r2
  <2>1. r1.pc = "status" /\ r1.action = item.action  BY DEF Silent, OneInv
  <2>2. /\ lis[k].pc = "queued" /\ UNCHANGED itemVars /\ lis' = [lis EXCEPT ![k] = r]
        /\ image.phase # "none"
    BY <1>10, Zenon DEF Receive, Hears
  <2>3. item.phase = "live" => r = r1  BY DEF OneInv
  <2>4. item.phase = "live" \/ item.phase = "deleted"  BY <1>5, <2>2 DEF OneInv
  <2>5. item' = item  BY <2>2 DEF itemVars
  <2> HIDE DEF r, r1
  <2>6. k[2] = "end" /\ DeletedBy(x) =>
           \/ item.phase = "deleted"
           \/ r.pc = "status" /\ r.action = "Delete" /\ exec[x].status = "SUCCEEDED"
    BY <1>7, <2>1, <2>2, <2>3, <2>4
  <2> QED  BY <1>0, <2>2, <2>5, <2>6
<1>11. CASE RecordStatus(k)
  <2> DEFINE i1 == [item EXCEPT !.exec = x]
             i == [i1 EXCEPT !.status = EventStatus(k)]
  <2>1. lis[k].pc = "status" /\ lis' = [lis EXCEPT ![k] = AfterStatus(k)]
    BY <1>11 DEF RecordStatus, Hears
  <2>2. x \in Known  BY <2>1, Zenon DEF Shape, Typed, EventsKnown
  <2>3. EventStatus(k) \in {"RUNNING", "SUCCEEDED", "FAILED"}
    <3>1. x # 0  BY <1>4 DEF Execution
    <3> QED  BY <2>2, <3>1, SeenTyped DEF EventStatus, Shape, Typed
  <2>4. i1 \in Items(T, Known) /\ i1.action = item.action /\ i1.phase = item.phase
        /\ i1.apps = item.apps
    <3>1. i1 \in Items(T, Known)  BY <1>3, <2>2, ItemFields
    <3>2. i1.action = item.action /\ i1.phase = item.phase /\ i1.apps = item.apps
      BY <1>3, SMT DEF Items
    <3> QED  BY <3>1, <3>2
  <2> HIDE DEF i1
  <2>5. i \in Items(T, Known)  BY <2>3, <2>4, ItemFields
  <2>6. i.action = item.action /\ i.phase = item.phase /\ i.apps = item.apps
    BY <2>4, SMT DEF Items
  <2>7. Stamped(i)  BY <1>11, Zenon DEF RecordStatus, i1
  <2> HIDE DEF i, T
  <2>8. item'.action = item.action /\ item'.phase = item.phase /\ item'.apps = item.apps
    BY <2>5, <2>6, <2>7, StampKeeps, StampKeepsApps DEF Calm
  <2>9. k[2] = "end" /\ DeletedBy(x) =>
           /\ AfterStatus(k).pc = "fetch" /\ AfterStatus(k).action = "Delete"
           /\ exec[x].status = "SUCCEEDED"
    BY <1>7, <1>8, <2>1
  <2> QED  BY <1>0, <2>1, <2>8, <2>9
<1>12. CASE RecordStatusAgain(k)
  <2> DEFINE r1 == [lis[k] EXCEPT !.at = image.at, !.tries = lis[k].tries + 1]
             r == IF image.phase # "live" THEN Done
                  ELSE IF lis[k].tries < MaxRetry THEN r1 ELSE AfterStatus(k)
  <2>1. lis[k].pc = "status" /\ UNCHANGED itemVars /\ lis' = [lis EXCEPT ![k] = r]
    BY <1>12, Zenon DEF RecordStatusAgain, Hears
  <2>2. r1.pc = "status" /\ r1.action = lis[k].action
    BY <1>2, <2>1, SMT DEF Hearings
  <2>3. item.phase = "deleted" \/ r = r1 \/ r = AfterStatus(k)
    BY <1>5, <1>6, <2>1 DEF OneInv
  <2> HIDE DEF r, r1
  <2>4. k[2] = "end" /\ DeletedBy(x) =>
           \/ item.phase = "deleted"
           \/ /\ r.pc \in {"status", "fetch"} /\ r.action = "Delete"
              /\ exec[x].status = "SUCCEEDED"
    BY <1>7, <1>8, <2>1, <2>2, <2>3
  <2>5. item' = item  BY <2>1 DEF itemVars
  <2> QED  BY <1>0, <2>1, <2>4, <2>5
<1>13. CASE Fetch(k)
  <2> DEFINE r1 == [lis[k] EXCEPT !.pc = "stacks"]
             r == [r1 EXCEPT !.stacks = ByName]
  <2>1. lis[k].pc = "fetch" /\ UNCHANGED itemVars /\ lis' = [lis EXCEPT ![k] = r]
    <3>1. lis' = [lis EXCEPT ![k] = r]  BY <1>2, <1>13, Zenon DEF Fetch
    <3> QED  BY <1>13, <3>1 DEF Fetch, Hears
  <2>2. r1 \in Hearings(T) /\ r1.pc = "stacks" /\ r1.action = lis[k].action
    <3>1. r1 \in Hearings(T)  BY <1>2, HearingFields DEF Hearing
    <3>2. r1.pc = "stacks" /\ r1.action = lis[k].action  BY <1>2, SMT DEF Hearings
    <3> QED  BY <3>1, <3>2
  <2> HIDE DEF r1
  <2>3. r.pc = "stacks" /\ r.action = lis[k].action  BY <2>2, SMT DEF Hearings
  <2> HIDE DEF r
  <2>4. k[2] = "end" /\ DeletedBy(x) =>
           r.pc = "stacks" /\ r.action = "Delete" /\ exec[x].status = "SUCCEEDED"
    BY <1>7, <2>1, <2>3
  <2>5. item' = item  BY <2>1 DEF itemVars
  <2> QED  BY <1>0, <2>1, <2>4, <2>5
<1>14. CASE RecordStacks(k)
  <2> DEFINE i == [item EXCEPT !.stacks = lis[k].stacks]
  <2>1. lis[k].stacks \in [Stack -> Recorded]  BY <1>2 DEF Hearings
  <2>2. i \in Items(T, Known)  BY <1>3, <2>1, ItemFields
  <2>3. i.phase = item.phase /\ i.action = item.action /\ i.apps = item.apps
    BY <1>3, SMT DEF Items
  <2>4. lis[k].pc = "stacks" /\ Stamped(i) /\ lis' = [lis EXCEPT ![k] = AfterStacks(k)]
    BY <1>14 DEF RecordStacks, Hears
  <2> HIDE DEF i, T
  <2>5. item'.action = item.action /\ item'.phase = item.phase /\ item'.apps = item.apps
    BY <2>2, <2>3, <2>4, StampKeeps, StampKeepsApps DEF Calm
  <2>6. k[2] = "end" /\ DeletedBy(x) => AfterStacks(k).pc = "delete"
    BY <1>7, <1>9, <2>4
  <2> QED  BY <1>0, <2>4, <2>5, <2>6
<1>15. CASE RecordStacksAgain(k)
  <2> DEFINE r1 == [lis[k] EXCEPT !.at = image.at, !.tries = lis[k].tries + 1,
                                  !.stacks = ByName]
             r == IF image.phase # "live" THEN Done
                  ELSE IF lis[k].tries < MaxRetry THEN r1 ELSE AfterStacks(k)
  <2>1. lis[k].pc = "stacks" /\ UNCHANGED itemVars /\ lis' = [lis EXCEPT ![k] = r]
    BY <1>15, Zenon DEF RecordStacksAgain, Hears
  <2>2. r1.pc = "stacks" /\ r1.action = lis[k].action
    BY <1>2, <2>1, SMT DEF Hearings
  <2>3. item.phase = "deleted" \/ r = r1 \/ r = AfterStacks(k)
    BY <1>5, <1>6, <2>1 DEF OneInv
  <2> HIDE DEF r, r1
  <2>4. k[2] = "end" /\ DeletedBy(x) =>
           \/ item.phase = "deleted" \/ r.pc = "delete"
           \/ r.pc = "stacks" /\ r.action = "Delete" /\ exec[x].status = "SUCCEEDED"
    BY <1>7, <1>9, <2>1, <2>2, <2>3
  <2>5. item' = item  BY <2>1 DEF itemVars
  <2> QED  BY <1>0, <2>1, <2>4, <2>5
<1>16. CASE DeleteProject(k)
  <2>1. /\ lis[k].pc = "delete" /\ item' = [item EXCEPT !.phase = "deleted"]
        /\ lis' = [lis EXCEPT ![k] = Done]
    BY <1>16 DEF DeleteProject, Hears, Store
  <2>2. item'.phase = "deleted" /\ item'.action = item.action /\ item'.apps = item.apps
    BY <1>3, <2>1, SMT DEF Items
  <2> QED  BY <1>1, <1>6, <2>1, <2>2, ListenerServes
<1>17. CASE Drop(k)
  <2>1. /\ lis[k].pc = "queued" /\ item' = item /\ lis' = [lis EXCEPT ![k] = Done]
        /\ item.phase = "none"
    BY <1>17 DEF Drop, Hears, itemVars, OneInv
  <2>2. item.action # "Delete"  BY <2>1 DEF ServeInv
  <2>3. ~(k[2] = "end" /\ DeletedBy(x))  BY <1>7, <2>1, <2>2
  <2> QED  BY <1>0, <2>1, <2>3
<1> QED
  BY <1>10, <1>11, <1>12, <1>13, <1>14, <1>15, <1>16, <1>17 DEF StateListener

\* An execution that has made every stack leaves what it made; a deletion ends
\* with the pipeline gone.
LEMMA EndServes ==
    ASSUME Shape, OneInv, GoneInv, ServeInv, Prompt, NEW x \in Execution, Running(x),
           UNCHANGED <<item, client, apps, cfn, live, mishaps>>, KeptUp(Stack),
           NEW status \in {"SUCCEEDED", "FAILED"}, Ends(x, status),
           mishaps = 0 /\ ~Gone =>
              status = "SUCCEEDED" /\ \A s \in Stack : exec[x].plan[s] \in {"Pass", "Done"}
    PROVE  ServeInv'
<1>1. /\ \A k \in Execution \X Event : lis[k].pc \in {"none", "done"}
      /\ \A c \in Client : client[c].pc # "write"
  BY DEF KeptUp
<1>2. /\ exec'[x].status = status
      /\ \A y \in Execution : y # x => exec'[y] = exec[y]
  BY DEF Ends, Shape, Typed, ExecTyped
<1>3. \A y \in Execution : <<y, "end">> \in Execution \X Event  BY DEF Event
<1>4. lis'[<<x, "end">>].pc = "queued"
  BY ZenonT(60), <1>3 DEF Ends, Shape, Typed, ListenerTyped, Hearings
<1>5. \A y \in Execution : ~Running(y)'
  <2>1. \A y \in Execution : Running(y) => y = x  BY OneOpen DEF Open
  <2> QED  BY <1>2, <2>1 DEF Running
<1>6. Started /\ Started'  BY <1>2 DEF Started, Running
<1>7. \A y \in Execution : ~DeletedBy(y)  BY <1>1, <1>3 DEF DeletedBy
<1>8. Gone => Gone'  BY <1>7 DEF Gone
<1>9. SUFFICES ASSUME mishaps = 0, ~Gone PROVE ServeInv'
  <2>1. Unbroken => Unbroken'  BY DEF Unbroken
  <2> QED  BY <1>6, <1>8, <2>1 DEF ServeInv, Retiring
<1>10. Unbroken'  BY <1>9 DEF ServeInv, Unbroken
<1>11. status = "SUCCEEDED" /\ \A s \in Stack : exec[x].plan[s] \in {"Pass", "Done"}
  BY <1>9
<1>12. item.action = "Delete" => Gone'
  <2>1. item.action = "Delete" => DeletedBy(x)'  BY <1>2, <1>4, <1>11 DEF DeletedBy
  <2> QED  BY <2>1 DEF Gone
<1>13. Retiring => Gone'
  BY <1>1, <1>8, <1>12 DEF Retiring, Writing
<1>14. Retiring' => Gone'
  BY <1>1, <1>12 DEF Retiring, Writing
<1>15. ASSUME ~Retiring PROVE Serving' /\ Listings'
  <2>1. Serving /\ Listings  BY <1>9, <1>15 DEF ServeInv
  <2>2. \A A : Listed(A)' <=> Listed(A)  BY DEF Listed, Registering
  <2>3. \A s \in Stack : Deployed(s, exec[x].apps)
    BY <1>11, <2>1 DEF Serving, Making
  <2>4. Listed(exec[x].apps) /\ exec[x].apps \in SUBSET App
    BY <2>1 DEF Serving, Shape, Typed, ExecTyped
  <2>5. PICK A \in SUBSET App : Listed(A) /\ \A s \in Stack : Deployed(s, A)
    BY <2>3, <2>4
  <2>6. \A s \in Stack : Deployed(s, A)'  BY <2>5 DEF Deployed
  <2>7. Serving'  BY <1>5, <1>6, <2>2, <2>5, <2>6 DEF Serving
  <2>8. Listings'
    <3>1. Listed(item.apps)' <=> Listed(item.apps)  BY DEF Listed, Registering
    <3>2. \A c \in Client : Listed(client[c].item.apps)' <=> Listed(client[c].item.apps)
      BY DEF Listed, Registering
    <3> QED  BY <2>1, <3>1, <3>2 DEF Listings, Writing
  <2> QED  BY <2>7, <2>8
<1>16. ~Retiring' => ~Retiring  BY <1>13 DEF Retiring
<1> QED  BY <1>6, <1>10, <1>14, <1>15, <1>16 DEF ServeInv

\* An execution goes on with one stack.
LEMMA GoesOn ==
    ASSUME Shape, NEW x \in Execution, NEW s \in Stack, NEW a, Goes(x, s, a)
    PROVE  /\ exec'[x].plan[s] = a
           /\ \A t \in Stack : t # s => exec'[x].plan[t] = exec[x].plan[t]
           /\ \A y \in Execution : exec'[y].status = exec[y].status /\ exec'[y].apps = exec[y].apps
BY DEF Goes, Shape, Typed, ExecTyped, Plan

LEMMA MakingStep ==
    ASSUME Shape, NEW x \in Execution, NEW s \in Stack, \A t \in Stack : Making(x, t),
           CreateStack(x, s) \/ UpdateStack(x, s) \/ DeleteStack(x, s) \/ DescribeStack(x, s)
    PROVE  \A t \in Stack : Making(x, t)'
<1> DEFINE p == exec[x].plan[s]
           A == exec[x].apps
<1>1. \/ p = "Create" /\ cfn[s] = "none"
      \/ p = "Update" /\ cfn[s] = "complete"
      \/ p = "Wait" /\ cfn[s] \in {"creating", "updating", "complete"} /\ live[s] = A
      \/ p \in {"Create", "WaitByName", "Pass", "Done"} /\ Deployed(s, A)
  BY DEF Making
<1>2. cfn \in [Stack -> CfnStatus] /\ live \in [Stack -> SUBSET App]
  BY DEF Shape, Typed, StackTyped
<1>3. ASSUME NEW a, Goes(x, s, a), \A t \in Stack : t # s => cfn'[t] = cfn[t] /\ live'[t] = live[t],
             \/ a = "Wait" /\ cfn'[s] \in {"creating", "updating", "complete"} /\ live'[s] = A
             \/ a \in {"WaitByName", "Done"} /\ cfn'[s] = "complete" /\ (s \in AppStack => live'[s] = A)
      PROVE  \A t \in Stack : Making(x, t)'
  <2>1. exec'[x].apps = A /\ exec'[x].plan[s] = a
        /\ \A t \in Stack : t # s => exec'[x].plan[t] = exec[x].plan[t]
    BY <1>3, GoesOn
  <2>2. Making(x, s)'  BY <1>3, <2>1 DEF Making, Deployed
  <2>3. \A t \in Stack : t # s => Making(x, t)'  BY <1>3, <2>1 DEF Making, Deployed
  <2> QED  BY <2>2, <2>3
<1>4. CASE CreateStack(x, s)
  <2>1. p = "Create"  BY <1>4 DEF CreateStack, Due
  <2>2. CASE cfn[s] = "none"
    BY <1>2, <1>3, <1>4, <2>2 DEF CreateStack, StackEvent
  <2>3. CASE cfn[s] # "none"
    <3>1. Deployed(s, A)  BY <1>1, <2>1, <2>3
    <3>2. Goes(x, s, "WaitByName") /\ UNCHANGED <<cfn, live>>
      BY <1>4, <2>3 DEF CreateStack, stackVars
    <3> QED  BY <1>3, <3>1, <3>2 DEF Deployed
  <2> QED  BY <2>2, <2>3
<1>5. CASE UpdateStack(x, s)
  <2>1. p = "Update" /\ cfn[s] = "complete"  BY <1>1, <1>5 DEF UpdateStack, Due
  <2>2. CASE StackEvent(s, "updating")
    <3>1. Goes(x, s, "Wait") /\ live' = [live EXCEPT ![s] = A]
      BY <1>2, <1>5, <2>1, <2>2 DEF UpdateStack, StackEvent, stackVars
    <3> QED  BY <1>2, <1>3, <2>2, <3>1 DEF StackEvent
  <2>3. CASE ~StackEvent(s, "updating")
    <3>1. Goes(x, s, "WaitByName") /\ UNCHANGED <<cfn, live>> /\ (s \in AppStack => live[s] = A)
      BY <1>5, <2>1, <2>3 DEF UpdateStack, stackVars, InProgress
    <3> QED  BY <1>3, <2>1, <3>1
  <2> QED  BY <2>2, <2>3
<1>6. CASE DeleteStack(x, s)  BY <1>1, <1>6 DEF DeleteStack, Due
<1>7. CASE DescribeStack(x, s)
  <2>1. Goes(x, s, "Done") /\ UNCHANGED <<cfn, live>> /\ p \in {"Wait", "WaitByName"}
        /\ cfn[s] \in {"none"} \cup Settled
    BY <1>7 DEF DescribeStack, stackVars
  <2>2. cfn[s] = "complete" /\ (s \in AppStack => live[s] = A)
    BY <1>1, <2>1 DEF Deployed, Settled
  <2> QED  BY <1>3, <2>1, <2>2
<1> QED  BY <1>4, <1>5, <1>6, <1>7

LEMMA ActServes ==
    ASSUME Shape, OneInv, ServeInv, NEW x \in Execution, NEW s \in Stack,
           CreateStack(x, s) \/ UpdateStack(x, s) \/ DeleteStack(x, s) \/ DescribeStack(x, s)
    PROVE  ServeInv'
<1>1. UNCHANGED <<item, client, apps, lis, mishaps>> /\ Running(x) /\ \E a : Goes(x, s, a)
  BY DEF CreateStack, UpdateStack, DeleteStack, DescribeStack, Due, itemVars
<1>2. \A y \in Execution : exec'[y].status = exec[y].status /\ exec'[y].apps = exec[y].apps
  BY <1>1, GoesOn
<1>3. \A y \in Execution : Running(y)' <=> Running(y)  BY <1>2 DEF Running
<1>4. Started /\ Started'  BY <1>1, <1>2 DEF Started, Running
<1>5. Retiring' <=> Retiring
  <2>1. Gone' <=> Gone  BY <1>1, <1>2 DEF Gone, DeletedBy
  <2> QED  BY <1>1, <2>1 DEF Retiring, Writing
<1>6. Unbroken => Unbroken'
  <2>1. cfn' = cfn \/ \E a \in InProgress : cfn' = [cfn EXCEPT ![s] = a]
    BY DEF CreateStack, UpdateStack, DeleteStack, DescribeStack, StackEvent, stackVars, InProgress
  <2>2. cfn \in [Stack -> CfnStatus]  BY DEF Shape, Typed, StackTyped
  <2>3. \A a \in InProgress : a \notin Broken \cup {"rollback"}  BY DEF InProgress, Broken
  <2> QED  BY <2>1, <2>2, <2>3 DEF Unbroken
<1>7. ASSUME Serving, Listings PROVE Serving' /\ Listings'
  <2>1. \A A : Listed(A)' <=> Listed(A)  BY <1>1 DEF Listed, Registering
  <2>2. \A y \in Execution : Running(y) => y = x  BY <1>1, OneOpen DEF Open
  <2>3. \A t \in Stack : Making(x, t)'  BY <1>1, <1>7, MakingStep DEF Serving
  <2>4. Listed(exec[x].apps)'
    <3>1. Listed(exec[x].apps)  BY <1>1, <1>7 DEF Serving
    <3> QED  BY <1>1, <1>2, <3>1 DEF Listed, Registering
  <2>5. Serving'  BY <1>1, <1>3, <1>4, <2>2, <2>3, <2>4 DEF Serving
  <2>6. Listings'
    <3>1. Listed(item.apps)' <=> Listed(item.apps)  BY <1>1 DEF Listed, Registering
    <3>2. \A c \in Client : Listed(client[c].item.apps)' <=> Listed(client[c].item.apps)
      BY <1>1 DEF Listed, Registering
    <3> QED  BY <1>1, <1>7, <3>1, <3>2 DEF Listings, Writing
  <2> QED  BY <2>5, <2>6
<1> QED  BY <1>1, <1>3, <1>4, <1>5, <1>6, <1>7 DEF ServeInv

\* A stack operation ends well, for the execution that waits for it.
LEMMA StackDoneServes ==
    ASSUME Shape, OneInv, ServeInv, NEW s \in Stack, StackDone(s)
    PROVE  ServeInv'
<1>1. /\ UNCHANGED <<item, client, apps, lis, exec, live, mishaps>>
      /\ \A t \in Stack : t # s => cfn'[t] = cfn[t]
      /\ cfn[s] \in {"creating", "updating", "deleting"} /\ cfn'[s] \in {"complete", "none"}
      /\ cfn[s] \in {"creating", "updating"} => cfn'[s] = "complete"
  BY DEF StackDone, StackEvent, itemVars, Shape, Typed, StackTyped
<1>2. \A y \in Execution : Running(y)' <=> Running(y)  BY <1>1 DEF Running
<1>3. Started' <=> Started  BY <1>1 DEF Started
<1>4. Retiring' <=> Retiring
  <2>1. Gone' <=> Gone  BY <1>1 DEF Gone, DeletedBy
  <2> QED  BY <1>1, <2>1 DEF Retiring, Writing
<1>5. Unbroken => Unbroken'  BY <1>1 DEF Unbroken, Broken
<1>6. ASSUME Serving, Listings PROVE Serving' /\ Listings'
  <2>1. \A A : Listed(A)' <=> Listed(A)  BY <1>1 DEF Listed, Registering
  <2>2. PICK x \in Execution : Running(x)
    <3>1. Started  BY <1>1, <1>6 DEF Serving
    <3> QED  BY <1>1, <1>6, <3>1 DEF Serving, Deployed
  <2>3. \A y \in Execution : Running(y) => y = x  BY <2>2, OneOpen DEF Open
  <2>4. \A t \in Stack : Making(x, t)'
    <3>1. \A t \in Stack : Making(x, t)  BY <1>6, <2>2 DEF Serving
    <3> QED  BY <1>1, <3>1 DEF Making, Deployed
  <2>5. Listed(exec[x].apps)'
    <3>1. Listed(exec[x].apps)  BY <1>6, <2>2 DEF Serving
    <3> QED  BY <1>1, <3>1 DEF Listed, Registering
  <2>6. Started  BY <2>2 DEF Started, Running
  <2>7. Serving'  BY <1>2, <1>3, <2>2, <2>3, <2>4, <2>5, <2>6 DEF Serving
  <2>8. Listings'
    <3>1. Listed(item.apps)' <=> Listed(item.apps)  BY <1>1 DEF Listed, Registering
    <3>2. \A c \in Client : Listed(client[c].item.apps)' <=> Listed(client[c].item.apps)
      BY <1>1 DEF Listed, Registering
    <3> QED  BY <1>1, <1>6, <3>1, <3>2 DEF Listings, Writing
  <2> QED  BY <2>7, <2>8
<1>7. /\ item'.phase = item.phase /\ item'.action = item.action /\ mishaps' = mishaps
      /\ Gone' <=> Gone
  BY <1>1 DEF Gone, DeletedBy
<1> QED  BY <1>2, <1>3, <1>4, <1>5, <1>6, <1>7 DEF ServeInv

LEMMA CloudServes ==
    ASSUME Shape, OneInv, GoneInv, ServeInv, Calm,
           \/ \E x \in Execution, s \in Stack : Act(x, s)
           \/ \E x \in Execution : ExecutionSucceeds(x) \/ ExecutionBreaks(x)
           \/ \E s \in Stack : StackDone(s) \/ StackFails(s)
    PROVE  ServeInv'
<1>1. ASSUME NEW x \in Execution, NEW s \in Stack, ActionFails(x, s) PROVE ServeInv'
  <2>1. /\ Running(x) /\ KeptUp(Stack) /\ Ends(x, "FAILED")
        /\ UNCHANGED <<item, client, apps, cfn, live, mishaps>>
    BY <1>1 DEF ActionFails, Due, itemVars, stackVars
  <2>2. ASSUME mishaps = 0, ~Gone PROVE FALSE
    <3>1. Unbroken  BY <2>2 DEF ServeInv
    <3>2. \/ exec[x].plan[s] \in {"Update", "WaitByName"} /\ cfn[s] = "none"
          \/ exec[x].plan[s] \in {"Wait", "WaitByName"} /\ cfn[s] \in Broken
      BY <1>1 DEF ActionFails, Due
    <3>3. exec[x].plan[s] \in {"Update", "WaitByName"} /\ cfn[s] = "none"
      BY <3>1, <3>2 DEF Unbroken
    <3>4. CASE ~Retiring
      <4>1. Making(x, s)  BY <2>1, <2>2, <3>4 DEF ServeInv, Serving
      <4> QED  BY <3>3, <4>1 DEF Making, Deployed
    <3>5. CASE Retiring
      <4>1. ~Writing  BY <2>1 DEF KeptUp, Writing, Calm
      <4>2. item.action = "Delete" => Deletes(x)  BY <2>1, <4>1 DEF GoneInv, Deleting
      <4>3. item.action # "Delete"  BY <3>3, <4>2 DEF Deletes
      <4> QED  BY <2>2, <3>5, <4>1, <4>3 DEF Retiring, Writing
    <3> QED  BY <3>4, <3>5
  <2> QED  BY <2>1, <2>2, EndServes DEF Calm
<1>2. ASSUME NEW x \in Execution, ExecutionSucceeds(x) PROVE ServeInv'
  <2>1. /\ Running(x) /\ KeptUp(Stack) /\ Ends(x, "SUCCEEDED")
        /\ UNCHANGED <<item, client, apps, cfn, live, mishaps>>
        /\ \A s \in Stack : exec[x].plan[s] \in {"Pass", "Done"}
    BY <1>2 DEF ExecutionSucceeds, itemVars, stackVars
  <2> QED  BY <2>1, EndServes DEF Calm
<1>3. ASSUME NEW x \in Execution, ExecutionBreaks(x) PROVE ServeInv'
  <2>1. Running(x) /\ Ends(x, "FAILED") /\ UNCHANGED item /\ mishaps' # 0
    BY <1>3 DEF ExecutionBreaks, Mishap, itemVars, Shape, Typed
  <2>2. exec'[x].status = "FAILED"  BY <2>1 DEF Ends, Shape, Typed, ExecTyped
  <2>3. Started'  BY <2>2 DEF Started
  <2> QED  BY <2>1, <2>3 DEF ServeInv
<1>4. ASSUME NEW s \in Stack, StackFails(s) PROVE ServeInv'
  <2>1. UNCHANGED <<item, exec>> /\ mishaps' # 0
    BY <1>4 DEF StackFails, Mishap, itemVars, Shape, Typed
  <2> QED  BY <2>1 DEF ServeInv, Started
<1> QED  BY <1>1, <1>2, <1>3, <1>4, ActServes, StackDoneServes DEF Act

\* Requests that register nothing before or after a step leave what is listed.
LEMMA ListedSame ==
    ASSUME apps' = apps, \A c \in Client : ~Registering(c), \A c \in Client : ~Registering(c)'
    PROVE  \A A : Listed(A)' <=> Listed(A)
BY DEF Listed

LEMMA ReadServes ==
    ASSUME Shape, OneInv, ServeInv, Calm, NEW c \in Client, NEW kind \in Reads,
           Begin(c, kind), Permits(kind, image)
    PROVE  ServeInv'
<1> DEFINE pc == IF kind = "refresh" THEN "write" ELSE "checked"
<1>1. /\ client[c].pc = "idle" /\ item.phase = "live" /\ \A d \in Client : ~Acting(d)
  BY DEF Begin, MayBegin, Calm, OneInv, Permits
<1>2. UNCHANGED <<item, apps, exec, cfn, live, lis, mishaps>>  BY DEF Begin, itemVars, stackVars
<1>3. PICK A : client' = [client EXCEPT ![c] =
                  [pc |-> pc, kind |-> kind, apps |-> A, item |-> Kept(kind)]]
  BY Zenon DEF Begin
<1>4. pc \in {"write", "checked"} /\ (pc = "write" <=> kind = "refresh")  OBVIOUS
<1> HIDE DEF pc
<1>5. /\ client'[c].pc = pc /\ client'[c].kind = kind /\ client'[c].item = Kept(kind)
      /\ \A d \in Client : d # c => client'[d] = client[d]
  <2> DEFINE r == [pc |-> pc, kind |-> kind, apps |-> A, item |-> Kept(kind)]
  <2>1. r.pc = pc /\ r.kind = kind /\ r.item = Kept(kind)  OBVIOUS
  <2>2. client' = [client EXCEPT ![c] = r]  BY <1>3
  <2> HIDE DEF r
  <2> QED  BY <2>1, <2>2, OneOfRequests
<1>6. Kept(kind).action = item.action /\ Kept(kind).apps = item.apps
  <2>1. image \in Items(Time \cup {Chosen({})}, Known)  BY DEF Shape, Typed
  <2>2. Kept(kind).action = image.action /\ Kept(kind).apps = image.apps
    BY <2>1 DEF Kept, Items
  <2> QED  BY <2>2 DEF OneInv
<1>7. ~Writing  BY <1>1 DEF Acting, Writing
<1>8. \A d \in Client : client'[d].pc \in {"checked", "write", "register"} => d = c
  BY <1>1, <1>5 DEF Acting
<1>9. \A B : Listed(B)' <=> Listed(B)
  <2>1. \A d \in Client : ~Registering(d)  BY <1>1 DEF Registering, Acting
  <2>2. \A d \in Client : ~Registering(d)'  BY <1>4, <1>5, <1>8 DEF Registering
  <2> QED  BY <1>2, <2>1, <2>2, ListedSame
<1>10. (Gone' <=> Gone) /\ (Started' <=> Started) /\ (Unbroken' <=> Unbroken)
       /\ \A x \in Execution : Running(x)' <=> Running(x)
  BY <1>2 DEF Gone, DeletedBy, Started, Unbroken, Running
<1>11. Retiring' <=> Retiring
  <2>1. Retiring <=> Gone \/ item.action = "Delete"  BY <1>7 DEF Retiring, Writing
  <2>2. Writing' => client'[c].pc = "write" /\ client'[c].item.action = item.action
    BY <1>5, <1>6, <1>8 DEF Writing
  <2>3. \A d \in Client : client'[d].pc = "write" => client'[d].item.action = item.action
    BY <1>5, <1>6, <1>8
  <2> QED  BY <1>2, <1>10, <2>1, <2>2, <2>3 DEF Retiring, Writing
<1>12. ASSUME Serving PROVE Serving'
  <2>1. \A x \in Execution, s \in Stack : Making(x, s)' <=> Making(x, s)
    BY <1>2 DEF Making, Deployed
  <2>2. \A s \in Stack, B \in SUBSET App : Deployed(s, B)' <=> Deployed(s, B)
    BY <1>2 DEF Deployed
  <2>3. \A x \in Execution : Listed(exec[x].apps)' <=> Listed(exec[x].apps)
    <3>1. exec' = exec  BY <1>2
    <3> DEFINE e(x) == exec[x].apps
    <3>2. ASSUME NEW x \in Execution, NEW B, B = e(x)
          PROVE  (Listed(e(x)) <=> Listed(B)) /\ (Listed(exec[x].apps)' <=> Listed(B)')
      BY <3>1, <3>2 DEF Listed, Registering
    <3> QED  BY <1>9, <3>2
  <2> QED  BY <1>2, <1>9, <1>10, <1>12, <2>1, <2>2, <2>3 DEF Serving
<1>13. ASSUME Listings PROVE Listings'
  <2>1. Listed(item.apps)  BY <1>1, <1>7, <1>13 DEF Listings
  <2>2. PICK B : B = item.apps  OBVIOUS
  <2>3. Listed(B)'  BY <1>9, <2>1, <2>2
  <2>4. Listed(item.apps)'  BY <1>2, <2>2, <2>3 DEF Listed, Registering
  <2>5. \A d \in Client : client'[d].pc \in {"write", "checked"} => client'[d].item.apps = B
    BY <1>5, <1>6, <1>8, <2>2
  <2>6. \A d \in Client : client'[d].pc = "write" => Listed(client[d].item.apps)'
    BY <2>3, <2>5 DEF Listed, Registering
  <2> QED  BY <1>2, <2>2, <2>4, <2>5, <2>6 DEF Listings
<1> QED  BY <1>2, <1>10, <1>11, <1>12, <1>13 DEF ServeInv

\* A request starts an execution: a deletion, or one that deploys what is
\* listed from then on over stacks as they were left.
LEMMA LaunchServes ==
    ASSUME Shape, OneInv, ServeInv, NEW c \in Client, NEW x \in Execution, NEW plan,
           NEW B \in SUBSET App, NEW kind \in {"create", "app", "upgrade", "delete", "retry"},
           NEW i \in Items(Time \cup {Chosen({})}, Known), Launch(c, x, plan, kind, B, i),
           \A y \in Execution : ~Open(y), \A d \in Client : Acting(d) => d = c,
           i.action # "Delete" /\ mishaps = 0 /\ ~Retiring =>
              /\ i.apps = IF kind = "app" THEN B ELSE apps
              /\ \A s \in Stack :
                    \/ plan[s] = "Create" /\ cfn[s] = "none"
                    \/ plan[s] = "Update" /\ cfn[s] = "complete"
                    \/ plan[s] \in {"Create", "Pass"} /\ Deployed(s, i.apps)
    PROVE  ServeInv'
<1> DEFINE i1 == [i EXCEPT !.exec = x]
           i2 == [i1 EXCEPT !.status = "RUNNING"]
<1>1. i2.apps = i.apps /\ i2.action = i.action
  <2> DEFINE X == Known \cup {x}
             T == Time \cup {Chosen({})}
  <2>1. i \in Items(T, X)  BY ItemsGrow
  <2>2. i1.apps = i.apps /\ i1.action = i.action  BY SMT DEF Items
  <2>3. i1 \in Items(T, X)  BY <2>1, ItemFields
  <2> HIDE DEF i1, T, X
  <2> QED  BY <2>2, <2>3, SMT DEF Items
<1>2. client' = [client EXCEPT ![c] = [pc |-> "write", kind |-> kind, apps |-> B, item |-> i2]]
  BY Zenon DEF Launch
<1> HIDE DEF i2
<1>3. /\ client'[c].pc = "write" /\ client'[c].kind = kind /\ client'[c].item = i2
      /\ client'[c].apps = B /\ \A d \in Client : d # c => client'[d] = client[d]
  <2> DEFINE r == [pc |-> "write", kind |-> kind, apps |-> B, item |-> i2]
  <2>1. r.pc = "write" /\ r.kind = kind /\ r.item = i2 /\ r.apps = B  OBVIOUS
  <2>2. client' = [client EXCEPT ![c] = r]  BY <1>2
  <2> HIDE DEF r
  <2> QED  BY <2>1, <2>2, OneOfRequests
<1>4. \A d \in Client : client'[d].pc \in {"checked", "write", "register"} => d = c
  BY <1>3 DEF Acting
<1>5. UNCHANGED <<item, apps, cfn, live, mishaps>> /\ exec[x].status = "none"
  BY DEF Launch, itemVars, stackVars
<1>6. /\ exec'[x].status = "RUNNING" /\ exec'[x].plan = plan /\ exec'[x].apps = i.apps
      /\ \A y \in Execution : y # x => exec'[y] = exec[y]
  BY DEF Launch, Shape, Typed, ExecTyped
<1>7. (\A y \in Execution : ~Running(y)) /\ \A y \in Execution : Running(y)' <=> y = x
  BY <1>6 DEF Open, Running
<1>8. Started'  BY <1>6 DEF Started
<1>9. Gone => Gone'
  <2>1. \A y \in Execution : <<y, "end">> \in Execution \X Event /\ <<y, "end">> # <<x, "start">>
    BY DEF Event
  <2>2. \A k \in Execution \X Event : k # <<x, "start">> => lis'[k] = lis[k]
    BY DEF Launch, Shape, Typed, ListenerTyped
  <2>3. \A y \in Execution : lis'[<<y, "end">>] = lis[<<y, "end">>]  BY <2>1, <2>2
  <2>4. \A y \in Execution : exec[y].status = "SUCCEEDED" => exec'[y].status = "SUCCEEDED"
    BY <1>5, <1>6
  <2> QED  BY <1>5, <2>3, <2>4, StillGone
<1>10. Unbroken => Unbroken'  BY <1>5 DEF Unbroken
<1>11. SUFFICES ASSUME mishaps = 0, ~Retiring' PROVE Serving' /\ Listings'
  BY <1>5, <1>7, <1>8, <1>10 DEF ServeInv
<1>12. ~Retiring
  <2>1. ~Gone  BY <1>9, <1>11 DEF Retiring
  <2> QED  BY <1>7, <1>11, <2>1 DEF ServeInv
<1>13. i.action # "Delete"  BY <1>1, <1>3, <1>11 DEF Retiring
<1>14. /\ i.apps = IF kind = "app" THEN B ELSE apps
       /\ \A s \in Stack :
             \/ plan[s] = "Create" /\ cfn[s] = "none"
             \/ plan[s] = "Update" /\ cfn[s] = "complete"
             \/ plan[s] \in {"Create", "Pass"} /\ Deployed(s, i.apps)
  BY <1>11, <1>12, <1>13
<1>15. PICK A : A = i.apps  OBVIOUS
<1>16. Listed(A)'
  <2>1. \A d \in Client : Registering(d)' => d = c  BY <1>4 DEF Registering
  <2>2. Registering(c)' <=> kind = "app"  BY <1>3 DEF Registering
  <2> QED  BY <1>3, <1>5, <1>14, <1>15, <2>1, <2>2 DEF Listed
<1>17. Serving'
  <2>1. \A s \in Stack : Making(x, s)'
    BY <1>5, <1>6, <1>14 DEF Making, Deployed
  <2>2. Listed(exec[x].apps)'  BY <1>6, <1>15, <1>16 DEF Listed, Registering
  <2> QED  BY <1>7, <1>8, <2>1, <2>2 DEF Serving
<1>18. Listings'
  <2>1. Listed(client[c].item.apps)'  BY <1>1, <1>3, <1>15, <1>16 DEF Listed, Registering
  <2>2. Writing' /\ \A d \in Client : client'[d].pc = "write" => d = c
    BY <1>3, <1>4 DEF Writing
  <2>3. \A d \in Client : client'[d].pc # "checked"  BY <1>3, <1>4
  <2> QED  BY <2>1, <2>2, <2>3 DEF Listings
<1> QED  BY <1>17, <1>18

\* What a request that is about to start an execution finds.
LEMMA FoundDeployed ==
    ASSUME OneInv, ServeInv, mishaps = 0, ~Retiring, NEW c \in Client,
           client[c].pc = "checked", client[c].kind # "create"
    PROVE  client[c].item.apps = apps /\ \A s \in Stack : Deployed(s, apps)
<1>1. \A d \in Client : Acting(d) => d = c  BY DEF OneInv, Orderly, Acting
<1>2. /\ \A x \in Execution : ~Running(x)
      /\ item.phase # "none" /\ ~Writing /\ \A d \in Client : ~Registering(d)
  BY <1>1 DEF OneInv, Current, Open, Writing, Registering, Acting
<1>3. Serving /\ Listings /\ Started  BY <1>2 DEF ServeInv
<1>4. apps = item.apps /\ client[c].item.apps = item.apps
  BY <1>2, <1>3 DEF Listings, Listed
<1>5. PICK A \in SUBSET App : Listed(A) /\ \A s \in Stack : Deployed(s, A)
  BY <1>2, <1>3 DEF Serving
<1>6. A = apps  BY <1>2, <1>5 DEF Listed
<1> QED  BY <1>4, <1>5, <1>6

LEMMA StartsServe ==
    ASSUME Shape, OneInv, ServeInv, Calm, NEW c \in Client, NEW x \in Execution,
           \/ Create(c, x) \/ UpdateApp(c, x) \/ Update(c, x) \/ Upgrade(c, x)
           \/ Delete(c, x) \/ Retry(c, x)
    PROVE  ServeInv'
<1> DEFINE T == Time \cup {Chosen({})}
           old == client[c].item
<1>1. old \in Items(T, Known) /\ client[c].apps \in SUBSET App
  <2>1. client \in Requests(T, Known)  BY DEF Shape, Typed
  <2> QED  BY <2>1, ClientTypes
<1>2. apps \in SUBSET App  BY DEF Shape, Typed
<1>3. ASSUME client[c].pc = "checked", client[c].kind # "create", NEW plan,
             NEW B \in SUBSET App, NEW kind \in {"app", "upgrade", "delete", "retry"},
             NEW i \in Items(T, Known), Launch(c, x, plan, kind, B, i),
             \/ i.action = "Delete"
             \/ /\ i.apps = IF kind = "app" THEN B ELSE IF kind = "retry" THEN old.apps ELSE apps
                /\ \A s \in Stack : \/ plan[s] = "Update"
                                    \/ plan[s] = "Pass" /\ s \notin AppStack
                                    \/ plan[s] \in {"Create", "Pass"} /\ kind = "retry"
      PROVE  ServeInv'
  <2>1. \A y \in Execution : ~Open(y)  BY <1>3 DEF OneInv
  <2>2. \A d \in Client : Acting(d) => d = c  BY <1>3 DEF OneInv, Orderly, Acting
  <2>3. ASSUME i.action # "Delete", mishaps = 0, ~Retiring
        PROVE  /\ i.apps = IF kind = "app" THEN B ELSE apps
               /\ \A s \in Stack :
                     \/ plan[s] = "Create" /\ cfn[s] = "none"
                     \/ plan[s] = "Update" /\ cfn[s] = "complete"
                     \/ plan[s] \in {"Create", "Pass"} /\ Deployed(s, i.apps)
    <3>1. old.apps = apps /\ \A s \in Stack : Deployed(s, apps)  BY <1>3, <2>3, FoundDeployed
    <3>2. i.apps = IF kind = "app" THEN B ELSE apps  BY <1>3, <2>3, <3>1
    <3>3. ASSUME NEW s \in Stack
          PROVE  \/ plan[s] = "Update" /\ cfn[s] = "complete"
                 \/ plan[s] \in {"Create", "Pass"} /\ Deployed(s, i.apps)
      BY <1>3, <2>3, <3>1, <3>2 DEF Deployed
    <3> QED  BY <3>2, <3>3
  <2>4. i.action # "Delete" /\ mishaps = 0 /\ ~Retiring =>
           /\ i.apps = IF kind = "app" THEN B ELSE apps
           /\ \A s \in Stack :
                 \/ plan[s] = "Create" /\ cfn[s] = "none"
                 \/ plan[s] = "Update" /\ cfn[s] = "complete"
                 \/ plan[s] \in {"Create", "Pass"} /\ Deployed(s, i.apps)
    BY <2>3
  <2>5. i \in Items(Time \cup {Chosen({})}, Known)  BY <1>3
  <2>6. kind \in {"create", "app", "upgrade", "delete", "retry"} /\ Launch(c, x, plan, kind, B, i)
    BY <1>3
  <2> HIDE DEF T, old
  <2> QED  BY <1>3, <2>1, <2>2, <2>4, <2>5, <2>6, LaunchServes, Zenon
<1>4. CASE Create(c, x)
  <2> DEFINE i1 == [Blank EXCEPT !.phase = "live"]
             i2 == [i1 EXCEPT !.apps = apps]
  <2>1. i2 \in Items(T, Known) /\ i2.apps = apps
    <3>1. Never \in T
      <4>1. CASE Time = {}  BY <4>1 DEF Never, Chosen
      <4>2. CASE Time # {}  BY <4>2 DEF Never
      <4> QED  BY <4>1, <4>2
    <3>2. i1 \in Items(T, Known)  BY <3>1, BlankTyped, KnownZero, ItemFields
    <3> HIDE DEF i1
    <3>3. i2 \in Items(T, Known)  BY <1>2, <3>2, ItemFields
    <3>4. i2.apps = apps  BY <3>2, SMT DEF Items
    <3> QED  BY <3>3, <3>4
  <2>2. Launch(c, x, CreatePlan, "create", apps, i2) /\ x = 1 /\ client[c].pc = "idle"
    BY <1>4, Zenon DEF Create
  <2> HIDE DEF i2, T
  <2>3. exec[1].status = "none"  BY <2>2 DEF Launch
  <2>4. /\ \A d \in Client : ~Acting(d)
        /\ \A y \in Execution : exec[y].status = "none"
    BY <2>2, <2>3 DEF OneInv, Current
  <2>5. \A y \in Execution : ~Open(y)
    <3>1. \A y \in Execution : <<y, "end">> \in Execution \X Event  BY DEF Event
    <3>2. \A y \in Execution : lis[<<y, "end">>].pc = "none"
      <4>1. Known = {0}  BY <2>4 DEF Known
      <4>2. \A y \in Execution : y \notin {0}  BY DEF Execution
      <4> QED  BY <3>1, <4>1, <4>2 DEF Shape, Typed, EventsKnown
    <3> QED  BY <2>4, <3>2 DEF Open, Running
  <2>6. ASSUME mishaps = 0, ~Retiring
        PROVE  \A s \in Stack : CreatePlan[s] = "Create" /\ cfn[s] = "none"
    <3>1. ~Started  BY <2>4 DEF Started
    <3> QED  BY <2>6, <3>1 DEF ServeInv, Serving, CreatePlan
  <2> QED  BY <1>2, <2>1, <2>2, <2>4, <2>5, <2>6, LaunchServes DEF T
<1>5. CASE UpdateApp(c, x)
  <2> DEFINE i1 == [old EXCEPT !.action = "Update"]
             i2 == [i1 EXCEPT !.apps = client[c].apps]
  <2>1. i1 \in Items(T, Known)  BY <1>1, ItemFields
  <2>2. i2 \in Items(T, Known) /\ i2.apps = client[c].apps
    <3> HIDE DEF i1
    <3>1. i2 \in Items(T, Known)  BY <1>1, <2>1, ItemFields
    <3>2. i2.apps = client[c].apps  BY <2>1, SMT DEF Items
    <3> QED  BY <3>1, <3>2
  <2>3. Launch(c, x, AppPlan, "app", client[c].apps, i2)  BY <1>5, Zenon DEF UpdateApp
  <2>4. client[c].pc = "checked" /\ client[c].kind = "app"  BY <1>5 DEF UpdateApp, Checked
  <2>5. \A s \in Stack : AppPlan[s] = "Update" \/ (AppPlan[s] = "Pass" /\ s \notin AppStack)
    BY DEF AppPlan
  <2> HIDE DEF i2, T
  <2> QED  BY <1>1, <1>3, <2>2, <2>3, <2>4, <2>5
<1>6. CASE Update(c, x)
  BY <1>6 DEF Update, Checked, OneInv, Orderly
<1>7. CASE Upgrade(c, x)
  <2> DEFINE i1 == [old EXCEPT !.action = "Upgrade"]
             i2 == [i1 EXCEPT !.apps = apps]
             i3 == [i2 EXCEPT !.edits = i2.edits \cup {x}]
  <2>1. i1 \in Items(T, Known)  BY <1>1, ItemFields
  <2>2. i2 \in Items(T, Known) /\ i2.apps = apps
    <3> HIDE DEF i1
    <3>1. i2 \in Items(T, Known)  BY <1>2, <2>1, ItemFields
    <3>2. i2.apps = apps  BY <2>1, SMT DEF Items
    <3> QED  BY <3>1, <3>2
  <2>3. i3 \in Items(T, Known) /\ i3.apps = apps
    <3> HIDE DEF i2
    <3>1. i2.edits \cup {x} \in SUBSET Execution  BY <2>2, ItemTypes
    <3>2. i3 \in Items(T, Known)  BY <2>2, <3>1, ItemFields
    <3>3. i3.apps = apps  BY <2>2, SMT DEF Items
    <3> QED  BY <3>2, <3>3
  <2>4. Launch(c, x, UpgradePlan, "upgrade", apps, i3)  BY <1>7, Zenon DEF Upgrade
  <2>5. client[c].pc = "checked" /\ client[c].kind = "upgrade"  BY <1>7 DEF Upgrade, Checked
  <2>6. \A s \in Stack : UpgradePlan[s] = "Update"  BY DEF UpgradePlan
  <2> HIDE DEF i3, T
  <2> QED  BY <1>2, <1>3, <2>3, <2>4, <2>5, <2>6
<1>8. CASE Delete(c, x)
  <2> DEFINE i1 == [old EXCEPT !.action = "Delete"]
             i2 == [i1 EXCEPT !.stacks = ByName]
  <2>1. i1 \in Items(T, Known) /\ i1.action = "Delete"
    <3>1. i1 \in Items(T, Known)  BY <1>1, ItemFields
    <3>2. i1.action = "Delete"  BY <1>1, SMT DEF Items
    <3> QED  BY <3>1, <3>2
  <2>2. i2 \in Items(T, Known) /\ i2.action = "Delete"
    <3> HIDE DEF i1
    <3>1. ByName \in [Stack -> Recorded]  BY ByNameTyped DEF Shape, Typed
    <3>2. i2 \in Items(T, Known)  BY <2>1, <3>1, ItemFields
    <3>3. i2.action = "Delete"  BY <2>1, SMT DEF Items
    <3> QED  BY <3>2, <3>3
  <2>3. Launch(c, x, DeletePlan, "delete", apps, i2)  BY <1>8, Zenon DEF Delete
  <2>4. client[c].pc = "checked" /\ client[c].kind # "create"  BY <1>8 DEF Delete, Checked
  <2> HIDE DEF i2, T
  <2> QED  BY <1>2, <1>3, <2>2, <2>3, <2>4
<1>9. CASE Retry(c, x)
  <2>1. Launch(c, x, RetryPlan(old.stacks), "retry", apps, old)  BY <1>9, Zenon DEF Retry
  <2>2. client[c].pc = "checked" /\ client[c].kind = "retry"  BY <1>9 DEF Retry, Checked
  <2>3. \A s \in Stack : RetryPlan(old.stacks)[s] \in {"Pass", "Update", "Create"}
    BY DEF RetryPlan
  <2> HIDE DEF T
  <2> QED  BY <1>1, <1>2, <1>3, <2>1, <2>2, <2>3
<1> QED  BY <1>4, <1>5, <1>6, <1>7, <1>8, <1>9

\* The only request that acts writes what it has, or registers what its
\* execution was told: what is listed stays.
LEMMA StoredServes ==
    ASSUME Shape, OneInv, GoneInv, ServeInv, UNCHANGED <<lis, exec, cfn, live, apps, mishaps>>,
           NEW c \in Client, client[c].pc = "write", NEW r, client' = [client EXCEPT ![c] = r],
           \/ r.pc = "idle" /\ client[c].kind # "app"
           \/ /\ r.pc = "register" /\ r.kind = "app" /\ client[c].kind = "app"
              /\ r.apps = client[c].apps,
           item'.action = client[c].item.action, item'.apps = client[c].item.apps,
           item.phase = "deleted" => item'.phase = "deleted", item'.phase # "none",
           item'.phase # item.phase => client[c].kind # "refresh"
    PROVE  ServeInv'
<1>1. \A d \in Client : Acting(d) => d = c  BY DEF OneInv, Orderly, Acting
<1>2. client'[c] = r /\ \A d \in Client : d # c => client'[d] = client[d]  BY OneOfRequests
<1>3. \A d \in Client : client'[d].pc \notin {"checked", "write"}  BY <1>1, <1>2 DEF Acting
<1>4. ~Writing' /\ Writing  BY <1>3 DEF Writing
<1>5. client[c].kind = "refresh" => item'.action = item.action  BY DEF GoneInv, Writers
<1>6. client[c].kind # "refresh" => \E x \in Execution : Running(x)  BY DEF GoneInv, Writers
<1>7. Gone => Gone'
  <2>1. ASSUME NEW y \in Execution, DeletedBy(y)
        PROVE  DeletedBy(y)'
    <3>1. CASE client[c].kind = "refresh"  BY <1>5, <2>1, <3>1 DEF DeletedBy
    <3>2. CASE client[c].kind # "refresh"
      <4>1. PICK x \in Execution : Running(x)  BY <1>6, <3>2
      <4>2. ASSUME lis[<<y, "end">>].pc = "queued" PROVE FALSE
        <5>1. x = y  BY <4>1, <4>2, OneOpen DEF Open
        <5> QED  BY <4>1, <4>2, <5>1 DEF OneInv, EventsInOrder
      <4> QED  BY <2>1, <4>2 DEF DeletedBy
    <3> QED  BY <3>1, <3>2
  <2> QED  BY <2>1 DEF Gone
<1>8. /\ Started' <=> Started
      /\ Unbroken' <=> Unbroken
      /\ \A x \in Execution : Running(x)' <=> Running(x)
  BY DEF Started, Unbroken, Running
<1>9. item'.phase # "none" => Started'
  <2>1. (\E x \in Execution : Running(x)) => Started  BY DEF Started, Running
  <2> QED  BY <1>6, <1>8, <2>1 DEF ServeInv
<1>10. Retiring => Retiring'
  <2>1. Retiring => Gone \/ client[c].item.action = "Delete"
    BY <1>1, <1>4 DEF Retiring, Acting
  <2> QED  BY <1>4, <1>7, <2>1 DEF Retiring
<1>11. Retiring' => Gone' \/ Retiring
  <2>1. Retiring' => Gone' \/ item'.action = "Delete"  BY <1>3 DEF Retiring
  <2>2. item'.action = "Delete" => Retiring  BY DEF Retiring
  <2> QED  BY <2>1, <2>2
<1>12. \A B : Listed(B)' <=> Listed(B)
  <2>1. \A d \in Client : Registering(d)' <=> Registering(d)
    BY <1>1, <1>2 DEF Registering, Acting
  <2>2. \A d \in Client : Registering(d) => client'[d].apps = client[d].apps
    BY <1>2 DEF Registering
  <2> QED  BY <2>1, <2>2 DEF Listed
<1>13. ASSUME Serving PROVE Serving'
  <2>1. \A x \in Execution, s \in Stack : Making(x, s)' <=> Making(x, s)
    BY DEF Making, Deployed
  <2>2. \A s \in Stack, B \in SUBSET App : Deployed(s, B)' <=> Deployed(s, B)
    BY DEF Deployed
  <2>3. ASSUME NEW x \in Execution, Listed(exec[x].apps) PROVE Listed(exec[x].apps)'
    <3>1. PICK B : B = exec[x].apps  OBVIOUS
    <3>2. Listed(B)'  BY <1>12, <2>3, <3>1
    <3> QED  BY <3>1, <3>2 DEF Listed, Registering
  <2> QED  BY <1>8, <1>12, <1>13, <2>1, <2>2, <2>3 DEF Serving
<1>14. ASSUME Listings PROVE Listings'
  <2>1. PICK B : B = client[c].item.apps  OBVIOUS
  <2>2. Listed(B)'  BY <1>12, <1>14, <2>1 DEF Listings
  <2>3. Listed(item.apps)'  BY <2>1, <2>2 DEF Listed, Registering
  <2> QED  BY <1>3, <2>3 DEF Listings
<1>15. ASSUME mishaps = 0
       PROVE  /\ Unbroken' /\ (~Retiring' => Serving' /\ Listings')
              /\ Retiring' /\ ~Gone' => \E x \in Execution : Running(x)'
  <2>1. /\ Unbroken
        /\ ~Retiring => Serving /\ Listings
        /\ Retiring /\ ~Gone => \E x \in Execution : Running(x)
    BY <1>15 DEF ServeInv
  <2>2. Retiring' /\ ~Gone' => \E x \in Execution : Running(x)'  BY <1>7, <1>8, <1>11, <2>1
  <2>3. ~Retiring' => Serving' /\ Listings'  BY <1>10, <1>13, <1>14, <2>1
  <2> QED  BY <1>8, <2>1, <2>2, <2>3
<1> QED  BY <1>9, <1>15 DEF ServeInv

LEMMA WriteServes ==
    ASSUME Shape, OneInv, GoneInv, ServeInv, Calm, NEW c \in Client, Write(c)
    PROVE  ServeInv'
<1> DEFINE T == Time \cup {Chosen({})}
           kind == client[c].kind
           old == client[c].item
           new == [old EXCEPT !.phase = item.phase]
           up == [new EXCEPT !.ver = new.ver + 1]
<1>1. /\ client[c].pc = "write" /\ kind # "create"
      /\ UNCHANGED <<lis, exec, cfn, live, apps, mishaps>>
  BY DEF Write, stackVars
<1>2. kind \in {"refresh", "app", "upgrade", "retry", "delete"} /\ item.phase # "none"
  <2>1. client \in Requests(T, Known)  BY DEF Shape, Typed
  <2>2. kind \in RequestKinds  BY <2>1, ClientTypes
  <2> QED  BY <1>1, <2>2 DEF OneInv, Orderly, Current, RequestKinds
<1>3. old \in Items(T, Known) /\ item \in Items(T, Known)
  <2>1. client \in Requests(T, Known)  BY DEF Shape, Typed
  <2>2. item \in Items(T, Known)  BY DEF Shape, Typed
  <2> QED  BY <2>1, <2>2, ClientTypes
<1>4. new \in Items(T, Known)
  <2>1. item.phase \in {"none", "live", "deleted"}  BY <1>3, ItemTypes
  <2> QED  BY <1>3, <2>1, ItemFields
<1>5. new.phase = item.phase /\ new.action = old.action /\ new.apps = old.apps
  BY <1>3, SMT DEF Items
<1> HIDE DEF new
<1>6. up \in Items(T, Known)
  <2>1. new.ver + 1 \in Nat  BY <1>4, ItemTypes
  <2> QED  BY <1>4, <2>1, ItemFields
<1>7. up.phase = item.phase /\ up.action = old.action /\ up.apps = old.apps
  BY <1>4, <1>5, SMT DEF Items
<1> HIDE DEF up, T
<1>8. Store(new) \/ Stamped(new) \/ Stamped(up)
  BY <1>2, Zenon DEF Write, new, up
<1>9. item'.phase = item.phase /\ item'.action = old.action /\ item'.apps = old.apps
  <2>1. CASE Store(new)  BY <1>5, <2>1 DEF Store
  <2>2. CASE Stamped(new)  BY <1>4, <1>5, <2>2, StampKeeps, StampKeepsApps DEF Calm
  <2>3. CASE Stamped(up)  BY <1>6, <1>7, <2>3, StampKeeps, StampKeepsApps DEF Calm
  <2> QED  BY <1>8, <2>1, <2>2, <2>3
<1>10. \E r : /\ client' = [client EXCEPT ![c] = r]
              /\ \/ r.pc = "idle" /\ kind # "app"
                 \/ r.pc = "register" /\ r.kind = "app" /\ kind = "app" /\ r.apps = client[c].apps
  <2> DEFINE r == [pc |-> "register", kind |-> "app", apps |-> client[c].apps, item |-> Blank]
  <2>1. r.pc = "register" /\ r.kind = "app" /\ r.apps = client[c].apps  OBVIOUS
  <2>2. client = [d \in Client |-> client[d]]
    <3>1. client \in Requests(T, Known)  BY DEF Shape, Typed, T
    <3> QED  BY <3>1, ClientTypes
  <2>3. CASE kind = "app"
    <3>1. client' = [client EXCEPT ![c] = r]  BY <2>2, <2>3, Zenon DEF Write
    <3> HIDE DEF r
    <3> QED  BY <2>1, <2>3, <3>1
  <2>4. CASE kind # "app"
    <3>1. client' = [client EXCEPT ![c] = Idle]  BY <2>2, <2>4, Zenon DEF Write
    <3> QED  BY <2>4, <3>1, IdleFields
  <2> QED  BY <2>3, <2>4
<1> QED  BY <1>1, <1>2, <1>9, <1>10, StoredServes

\* Once an application is registered, what was listed for its execution is
\* what applications there are.
LEMMA RegisterServes ==
    ASSUME Shape, OneInv, ServeInv, NEW c \in Client, Register(c)
    PROVE  ServeInv'
<1>1. /\ client[c].pc = "register" /\ client' = [client EXCEPT ![c] = Idle]
      /\ apps' = client[c].apps /\ UNCHANGED <<item, lis, exec, cfn, live, mishaps>>
  BY DEF Register, itemVars, stackVars
<1>2. \A d \in Client : Acting(d) => d = c  BY <1>1 DEF OneInv, Orderly, Acting
<1>3. client'[c] = Idle /\ \A d \in Client : d # c => client'[d] = client[d]
  BY <1>1, OneOfRequests
<1>4. \A d \in Client : client'[d].pc \notin {"checked", "write", "register"}
  BY <1>2, <1>3, IdleFields DEF Acting
<1>5. ~Writing /\ ~Writing'  BY <1>1, <1>2, <1>4 DEF Writing, Acting
<1>6. (Gone' <=> Gone) /\ (Started' <=> Started) /\ (Unbroken' <=> Unbroken)
      /\ \A x \in Execution : Running(x)' <=> Running(x)
  BY <1>1 DEF Gone, DeletedBy, Started, Unbroken, Running
<1>7. Retiring' <=> Retiring
  BY <1>1, <1>5, <1>6 DEF Retiring, Writing
<1>8. ASSUME NEW B, Listed(B) PROVE Listed(B)'
  <2>1. \A d \in Client : ~Registering(d)'  BY <1>4 DEF Registering
  <2>2. client[c].apps = B  BY <1>1, <1>8 DEF Listed, Registering
  <2> QED  BY <1>1, <2>1, <2>2 DEF Listed
<1>9. ASSUME Serving PROVE Serving'
  <2>1. \A x \in Execution, s \in Stack : Making(x, s)' <=> Making(x, s)
    BY <1>1 DEF Making, Deployed
  <2>2. \A s \in Stack, B \in SUBSET App : Deployed(s, B)' <=> Deployed(s, B)
    BY <1>1 DEF Deployed
  <2>3. ASSUME NEW x \in Execution, Listed(exec[x].apps) PROVE Listed(exec[x].apps)'
    <3>1. PICK B : B = exec[x].apps  OBVIOUS
    <3>2. Listed(B)'  BY <1>8, <2>3, <3>1
    <3> QED  BY <1>1, <3>1, <3>2 DEF Listed, Registering
  <2> QED  BY <1>1, <1>6, <1>8, <1>9, <2>1, <2>2, <2>3 DEF Serving
<1>10. ASSUME Listings PROVE Listings'
  <2>1. ASSUME item.phase # "none" PROVE Listed(item.apps)'
    <3>1. PICK B : B = item.apps  OBVIOUS
    <3>2. Listed(B)'  BY <1>5, <1>8, <1>10, <2>1, <3>1 DEF Listings
    <3> QED  BY <1>1, <3>1, <3>2 DEF Listed, Registering
  <2> QED  BY <1>1, <1>4, <2>1 DEF Listings
<1> QED  BY <1>1, <1>6, <1>7, <1>9, <1>10 DEF ServeInv

LEMMA RequestStepServes ==
    ASSUME Shape, OneInv, GoneInv, ServeInv, Calm, NEW c \in Client, Request(c), ~abrupt'
    PROVE  ServeInv'
<1> DEFINE T == Time \cup {Chosen({})}
<1>1. CASE (\E kind \in RequestKinds : Read(c, kind)) \/ Remove(c)
  BY <1>1, CalmReads, ReadServes
<1>2. CASE LoadForm(c) \/ SubmitForm(c) \/ Observe(c)
  BY <1>2 DEF LoadForm, SubmitForm, Observe, Calm, OneInv, Orderly
<1>3. CASE \E x \in Execution : \/ Create(c, x) \/ UpdateApp(c, x) \/ Update(c, x)
                                \/ Upgrade(c, x) \/ Delete(c, x) \/ Retry(c, x)
  BY <1>3, StartsServe
<1>4. CASE Write(c)  BY <1>4, WriteServes
<1>5. CASE Add(c)
  <2> DEFINE old == client[c].item
  <2>1. /\ client[c].pc = "write" /\ client[c].kind = "create" /\ Stamped(old)
        /\ item.phase = "none" /\ client' = [client EXCEPT ![c] = Idle]
        /\ UNCHANGED <<lis, exec, cfn, live, apps, mishaps>>
    BY <1>5 DEF Add, stackVars
  <2>2. old \in Items(T, Known)
    <3>1. client \in Requests(T, Known)  BY DEF Shape, Typed
    <3> QED  BY <3>1, ClientTypes
  <2> HIDE DEF T
  <2>3. item'.action = old.action /\ item'.apps = old.apps /\ item'.phase = "live"
    <3>1. old.phase = "live"  BY <2>1 DEF GoneInv, Writers
    <3> QED  BY <2>1, <2>2, <3>1, StampKeeps, StampKeepsApps DEF Calm
  <2> QED  BY <2>1, <2>3, IdleFields, StoredServes
<1>6. CASE Refused(c)
  BY <1>6 DEF Refused, SameVersion, OneInv, Current
<1>7. CASE Register(c)  BY <1>7, RegisterServes
<1>8. CASE Die(c)  BY <1>8 DEF Die, Calm
<1> QED  BY <1>1, <1>2, <1>3, <1>4, <1>5, <1>6, <1>7, <1>8 DEF Request

LEMMA ServeNext ==
    ASSUME Shape, OneInv, GoneInv, ServeInv, Calm, [Next]_vars, ~abrupt'
    PROVE  ServeInv'
<1>1. CASE UNCHANGED vars
  <2>1. UNCHANGED <<item, client, exec, cfn, live, apps, lis, mishaps>>
    BY <1>1 DEF vars
  <2>2. Gone => Gone'  BY <2>1 DEF Gone, DeletedBy
  <2> QED  BY <2>1, <2>2, ServeElsewhere
<1>2. CASE Propagate  BY <1>2 DEF Propagate, OneInv
<1>3. CASE \E c \in Client : Request(c)  BY <1>3, RequestStepServes
<1>4. CASE \/ \E x \in Execution, s \in Stack : Act(x, s)
           \/ \E x \in Execution : ExecutionSucceeds(x) \/ ExecutionBreaks(x)
           \/ \E s \in Stack : StackDone(s) \/ StackFails(s)
  BY <1>4, CloudServes
<1>5. CASE \E w \in Worker : StackListener(w)  BY <1>5, StackListenerServes
<1>6. CASE \E k \in Execution \X Event : StateListener(k) \/ Redeliver(k)
  <2>1. \A k \in Execution \X Event : ~Redeliver(k)  BY DEF Redeliver, Calm
  <2> QED  BY <1>6, <2>1, StateListenerServes, Zenon
<1> QED  BY <1>1, <1>2, <1>3, <1>4, <1>5, <1>6, Zenon DEF Next

\* What shows Active is not at work, and not about to be.
LEMMA ServedFollows ==
    ASSUME Shape, OneInv, GoneInv, ServeInv
    PROVE  AppsDeployed
<1> SUFFICES ASSUME mishaps = 0, item.action # "Delete", item.phase = "live",
                    Status(item) = "Active", \A c \in Client : ~Acting(c)
             PROVE  \A s \in AppStack : cfn[s] = "complete" /\ live[s] = apps
  BY DEF AppsDeployed, ReadyForApps
<1>1. ~Writing /\ \A c \in Client : ~Registering(c)  BY DEF Writing, Registering, Acting
<1>2. \A x \in Execution : ~Running(x)
  <2>1. ASSUME NEW x \in Execution, Running(x) PROVE FALSE
    <3>1. item.status = "RUNNING"  BY <1>1, <2>1 DEF OneInv, Shows, Open
    <3>2. Status(item) = RunningStatus(item.action)  BY <3>1 DEF Status
    <3> QED  BY <3>2 DEF RunningStatus
  <2> QED  BY <2>1
<1>3. ~Gone  BY <1>2 DEF GoneInv, NothingLeft
<1>4. ~Retiring  BY <1>1, <1>3 DEF Retiring, Writing
<1>5. Started /\ Serving  BY <1>4 DEF ServeInv
<1>6. PICK A \in SUBSET App : Listed(A) /\ \A s \in Stack : Deployed(s, A)
  BY <1>2, <1>5 DEF Serving
<1>7. A = apps  BY <1>1, <1>6 DEF Listed
<1> QED  BY <1>6, <1>7, PipelineAssumption DEF Deployed

\* A pipeline that shows Active runs with exactly the registered applications:
\* for requests that follow one another and executions that do not fail, every
\* stack whose parameter lists the applications was deployed with those that
\* have an item now, however many applications are registered and removed,
\* upgrades and retries made and refreshes written back.  An update passes the
\* list from the request to its execution and to the item before the
\* application itself is registered; that none is lost between them rests on
\* requests being refused while an execution runs, as DELETE /pipeline/:id is
\* not: no deletion is abrupt.
THEOREM ActiveServesApps ==
    ASSUME Calm
    PROVE  Spec => []AppsDeployed
<1> DEFINE Inv == Shape /\ (~abrupt => OneInv /\ GoneInv /\ ServeInv)
<1>1. Init => Inv  BY ShapeHolds, OneInit, GoneInit, ServeInit
<1>2. Inv /\ [Next]_vars => Inv'  BY ShapeHolds, OneNext, GoneNext, ServeNext, StillInOrder
<1>3. Inv => AppsDeployed  BY ServedFollows DEF AppsDeployed
<1> QED  BY <1>1, <1>2, <1>3, PTL DEF Spec

-----------------------------------------------------------------------------
(* A new pipeline shows Active only when its stacks are complete.          *)

\* Requests that create the pipeline or look at it.
Looking == Kinds \subseteq {"create", "refresh", "force"}

Built == \E x \in Execution : exec[x].status = "SUCCEEDED"

\* A record that shows success is of an execution that succeeded.
Honest(i) ==
    /\ i.status = "SUCCEEDED" => Built
    /\ i.phase = "live" => i.exec # 0

\* How far the creation has come with a stack.
Creating(x, s) ==
    \/ exec[x].plan[s] = "Create" /\ cfn[s] = "none"
    \/ exec[x].plan[s] = "Wait" /\ cfn[s] \in {"creating", "complete", "failed"}
    \/ exec[x].plan[s] = "Done" /\ cfn[s] = "complete"

\* Requests do not change what applications there are, and carry honest records.
LookingOn ==
    \A c \in Client :
       /\ client[c].pc \notin {"form", "register"}
       /\ client[c].pc = "checked" => client[c].kind = "force"
       /\ client[c].pc = "write" => client[c].kind \in {"create", "refresh", "force"}
       /\ client[c].pc \in {"checked", "write"} =>
             Honest(client[c].item) /\ client[c].item.exec # 0

\* The first execution is the only one, and makes each stack once.
BuiltOnce ==
    /\ \A x \in Execution : exec[x].status # "none" => x = 1
    /\ \A x \in Execution : exec[x].apps = {}
    /\ \A x \in Execution : Running(x) => \A s \in Stack : Creating(x, s)
    /\ (\A x \in Execution : exec[x].status = "none") => \A s \in Stack : cfn[s] = "none"
    /\ Built => \A s \in Stack : cfn[s] = "complete"

BuildInv ==
    /\ apps = {} /\ \A s \in Stack : live[s] = {}
    /\ Honest(item) /\ Honest(image)
    /\ LookingOn /\ BuiltOnce

LEMMA BuildInit == Init => BuildInv
<1> SUFFICES ASSUME Init PROVE BuildInv  OBVIOUS
<1>1. \A c \in Client : client[c].pc = "idle"  BY DEF Init, Idle
<1>2. \A x \in Execution : exec[x].status = "none" /\ exec[x].apps = {}  BY DEF Init
<1>3. \A s \in Stack : cfn[s] = "none" /\ live[s] = {}  BY DEF Init
<1>4. apps = {} /\ item = Blank /\ image = Blank  BY DEF Init
<1>5. Honest(item) /\ Honest(image)  BY <1>4 DEF Honest, Blank
<1>6. LookingOn  BY <1>1 DEF LookingOn
<1>7. BuiltOnce  BY <1>2, <1>3 DEF BuiltOnce, Running, Built
<1> QED  BY <1>3, <1>4, <1>5, <1>6, <1>7 DEF BuildInv

\* A step of a listener.
LEMMA BuildElsewhere ==
    ASSUME BuildInv, UNCHANGED <<apps, client, exec, cfn, live>>, Honest(item)', Honest(image)'
    PROVE  BuildInv'
<1>1. Built' <=> Built  BY DEF Built
<1>2. \A c \in Client : Honest(client[c].item)' <=> Honest(client[c].item)
  BY <1>1 DEF Honest
<1>3. LookingOn'  BY <1>2 DEF BuildInv, LookingOn
<1>4. \A x \in Execution : Running(x)' <=> Running(x)  BY DEF Running
<1>5. BuiltOnce'  BY <1>1, <1>4 DEF BuildInv, BuiltOnce, Creating
<1> QED  BY <1>3, <1>5 DEF BuildInv

\* An honest record may be written, with or without a new time.
LEMMA HonestStored ==
    ASSUME Honest(image), NEW T, NEW X, NEW i \in Items(T, X), Store(i) \/ Stamped(i),
           Honest(i), Built => Built'
    PROVE  Honest(item)' /\ Honest(image)'
<1>1. image' = image \/ image' = item'  BY DEF Store, Stamped
<1>2. item'.phase = i.phase /\ item'.status = i.status /\ item'.exec = i.exec
  <2>1. CASE Store(i)  BY <2>1 DEF Store
  <2>2. CASE Stamped(i)
    <3>1. PICK t : Store([i EXCEPT !.at = t])  BY <2>2, StampedIsStored, Zenon
    <3>2. item' = [i EXCEPT !.at = t]  BY <3>1 DEF Store
    <3> QED  BY <3>2, SMT DEF Items
  <2> QED  BY <2>1, <2>2
<1> QED  BY <1>1, <1>2 DEF Honest

LEMMA StackListenerBuild ==
    ASSUME Shape, BuildInv, NEW w \in Worker, StackListener(w)
    PROVE  BuildInv'
<1>1. UNCHANGED <<apps, client, exec, cfn, live>>
  BY DEF StackListener, Describe, Match, RecordStack, RecordStackAgain, stackVars
<1>2. Built' <=> Built  BY <1>1 DEF Built
<1>3. Honest(item)' /\ Honest(image)'
  <2>1. CASE RecordStack(w)
    <3> DEFINE T == Time \cup {Chosen({})}
               i == [item EXCEPT !.stacks = worker[w].stacks]
    <3>1. item \in Items(T, Known)  BY DEF Shape, Typed
    <3>2. worker[w].stacks \in [Stack -> Recorded]  BY DEF Shape, Typed, WorkerTyped
    <3>3. i \in Items(T, Known)  BY <3>1, <3>2, ItemFields
    <3>4. i.phase = item.phase /\ i.status = item.status /\ i.exec = item.exec
      BY <3>1, SMT DEF Items
    <3>5. Stamped(i)  BY <2>1 DEF RecordStack
    <3> HIDE DEF i, T
    <3>6. Honest(i) /\ Honest(image)  BY <3>4 DEF BuildInv, Honest
    <3> QED  BY <1>2, <3>3, <3>5, <3>6, HonestStored
  <2>2. CASE ~RecordStack(w)
    <3>1. UNCHANGED <<item, image>>
      BY <2>2 DEF StackListener, Describe, Match, RecordStackAgain, itemVars
    <3> QED  BY <1>2, <3>1 DEF BuildInv, Honest
  <2> QED  BY <2>1, <2>2
<1> QED  BY <1>1, <1>3, BuildElsewhere

LEMMA StateListenerBuild ==
    ASSUME Shape, BuildInv, NEW k \in Execution \X Event, StateListener(k) \/ Redeliver(k)
    PROVE  BuildInv'
<1> DEFINE T == Time \cup {Chosen({})}
           x == k[1]
<1>1. UNCHANGED <<apps, client, exec, cfn, live>>
  BY DEF StateListener, Receive, Drop, RecordStatus, RecordStatusAgain, Fetch,
     RecordStacks, RecordStacksAgain, DeleteProject, Redeliver, stackVars
<1>2. lis[k] \in Hearings(T)  BY DEF Shape, Typed, ListenerTyped
<1>3. item \in Items(T, Known)  BY DEF Shape, Typed
<1>4. x \in Execution /\ x # 0 /\ (k = <<x, "start">> \/ k = <<x, "end">>)
  BY DEF Event, Execution
<1>5. Built' <=> Built  BY <1>1 DEF Built
<1>6. Honest(item) /\ Honest(image)  BY DEF BuildInv
<1>7. Honest(item)' /\ Honest(image)'
  <2>1. CASE RecordStatus(k)
    <3> DEFINE i1 == [item EXCEPT !.exec = x]
               i == [i1 EXCEPT !.status = EventStatus(k)]
    <3>1. x \in Known
      <4>1. lis[k].pc = "status"  BY <2>1 DEF RecordStatus, Hears
      <4> QED  BY <4>1, Zenon DEF Shape, Typed, EventsKnown
    <3>2. EventStatus(k) \in {"RUNNING", "SUCCEEDED", "FAILED"}
      BY <1>4, <3>1, SeenTyped DEF EventStatus, Shape, Typed
    <3>3. i1 \in Items(T, Known) /\ i1.exec = x
      <4>1. i1 \in Items(T, Known)  BY <1>3, <3>1, ItemFields
      <4>2. i1.exec = x  BY <1>3, SMT DEF Items
      <4> QED  BY <4>1, <4>2
    <3>4. Stamped(i)  BY <2>1, Zenon DEF RecordStatus
    <3> HIDE DEF i1
    <3>5. i \in Items(T, Known)  BY <3>2, <3>3, ItemFields
    <3>6. i.exec = x /\ i.status = EventStatus(k)  BY <3>3, SMT DEF Items
    <3>7. EventStatus(k) = "SUCCEEDED" => Built  BY <1>4 DEF EventStatus, Built
    <3> HIDE DEF i, T
    <3>8. Honest(i)  BY <1>4, <3>6, <3>7 DEF Honest
    <3> QED  BY <1>5, <1>6, <3>4, <3>5, <3>8, HonestStored
  <2>2. CASE RecordStacks(k)
    <3> DEFINE i == [item EXCEPT !.stacks = lis[k].stacks]
    <3>1. lis[k].stacks \in [Stack -> Recorded]  BY <1>2 DEF Hearings
    <3>2. i \in Items(T, Known)  BY <1>3, <3>1, ItemFields
    <3>3. i.phase = item.phase /\ i.status = item.status /\ i.exec = item.exec
      BY <1>3, SMT DEF Items
    <3>4. Stamped(i)  BY <2>2 DEF RecordStacks
    <3> HIDE DEF i, T
    <3>5. Honest(i)  BY <1>6, <3>3 DEF Honest
    <3> QED  BY <1>5, <1>6, <3>2, <3>4, <3>5, HonestStored
  <2>3. CASE DeleteProject(k)
    <3> DEFINE i == [item EXCEPT !.phase = "deleted"]
    <3>1. i \in Items(T, Known)  BY <1>3, ItemFields
    <3>2. i.phase = "deleted" /\ i.status = item.status  BY <1>3, SMT DEF Items
    <3>3. Store(i)  BY <2>3 DEF DeleteProject
    <3> HIDE DEF i, T
    <3>4. Honest(i)  BY <1>6, <3>2 DEF Honest
    <3> QED  BY <1>5, <1>6, <3>1, <3>3, <3>4, HonestStored
  <2>4. CASE ~RecordStatus(k) /\ ~RecordStacks(k) /\ ~DeleteProject(k)
    <3>1. UNCHANGED <<item, image>>
      BY <2>4 DEF StateListener, Receive, Drop, RecordStatusAgain, Fetch, RecordStacksAgain,
         Redeliver, itemVars
    <3> QED  BY <1>5, <1>6, <3>1 DEF Honest
  <2> QED  BY <2>1, <2>2, <2>3, <2>4
<1> QED  BY <1>1, <1>7, BuildElsewhere

\* A step of the execution or of CloudFormation: requests and records stay as
\* honest as they were.
LEMMA CloudHonest ==
    ASSUME BuildInv, UNCHANGED <<item, image, apps, client>>, Built => Built'
    PROVE  apps' = {} /\ Honest(item)' /\ Honest(image)' /\ LookingOn'
<1>1. \A c \in Client : Honest(client[c].item) => Honest(client[c].item)'  BY DEF Honest
<1>2. LookingOn'  BY <1>1 DEF BuildInv, LookingOn
<1>3. Honest(item)' /\ Honest(image)'  BY DEF BuildInv, Honest
<1> QED  BY <1>2, <1>3 DEF BuildInv

LEMMA CloudBuild ==
    ASSUME Shape, BuildInv,
           \/ \E x \in Execution, s \in Stack : Act(x, s)
           \/ \E x \in Execution : ExecutionSucceeds(x) \/ ExecutionBreaks(x)
           \/ \E s \in Stack : StackDone(s) \/ StackFails(s)
    PROVE  BuildInv'
<1>0. BuiltOnce /\ \A s \in Stack : live[s] = {}  BY DEF BuildInv
<1>1. \A x, y \in Execution : Running(x) /\ exec[y].status # "none" => x = y
  BY <1>0 DEF BuiltOnce, Running
<1>2. ASSUME NEW x \in Execution, NEW s \in Stack,
             CreateStack(x, s) \/ UpdateStack(x, s) \/ DeleteStack(x, s) \/ DescribeStack(x, s)
      PROVE  BuildInv'
  <2>1. UNCHANGED <<item, image, apps, client>> /\ Running(x)
    BY <1>2 DEF CreateStack, UpdateStack, DeleteStack, DescribeStack, Due, itemVars
  <2>2. Creating(x, s)  BY <1>0, <2>1 DEF BuiltOnce
  <2>3. \/ /\ CreateStack(x, s) /\ cfn[s] = "none" /\ StackEvent(s, "creating")
           /\ live' = [live EXCEPT ![s] = exec[x].apps] /\ Goes(x, s, "Wait")
        \/ /\ DescribeStack(x, s) /\ cfn[s] = "complete"
           /\ UNCHANGED <<cfn, live>> /\ Goes(x, s, "Done")
    BY <1>2, <2>2 DEF Creating, CreateStack, UpdateStack, DeleteStack, DescribeStack, Due,
       Settled, stackVars
  <2>4. /\ \A t \in Stack : live'[t] = {}
        /\ \A t \in Stack : t # s => cfn'[t] = cfn[t]
        /\ \/ cfn'[s] = "creating" /\ Goes(x, s, "Wait")
           \/ cfn'[s] = "complete" /\ Goes(x, s, "Done")
    BY <1>0, <2>3 DEF BuiltOnce, StackEvent, Shape, Typed, StackTyped
  <2>5. PICK a \in {"Wait", "Done"} : /\ Goes(x, s, a)
                                      /\ cfn'[s] = IF a = "Wait" THEN "creating" ELSE "complete"
    BY <2>4
  <2>6. /\ exec'[x].plan[s] = a
        /\ \A t \in Stack : t # s => exec'[x].plan[t] = exec[x].plan[t]
        /\ \A y \in Execution : exec'[y].status = exec[y].status /\ exec'[y].apps = exec[y].apps
    BY <2>5, GoesOn
  <2>7. ~Built /\ ~Built'  BY <1>1, <2>1, <2>6 DEF Built, Running
  <2>8. \A t \in Stack : Creating(x, t)'
    <3>1. \A t \in Stack : Creating(x, t)  BY <1>0, <2>1 DEF BuiltOnce
    <3> QED  BY <2>4, <2>5, <2>6, <3>1 DEF Creating
  <2>9. \A y \in Execution : Running(y)' => y = x  BY <1>1, <2>1, <2>6 DEF Running
  <2>10. exec'[x].status # "none"  BY <2>1, <2>6 DEF Running
  <2>11. BuiltOnce'  BY <1>0, <2>6, <2>7, <2>8, <2>9, <2>10 DEF BuiltOnce
  <2> QED  BY <2>1, <2>4, <2>7, <2>11, CloudHonest DEF BuildInv
<1>3. ASSUME NEW x \in Execution, NEW status \in {"SUCCEEDED", "FAILED"}, Running(x),
             Ends(x, status), UNCHANGED <<item, image, apps, client, cfn, live>>,
             status = "SUCCEEDED" => \A s \in Stack : exec[x].plan[s] \in {"Pass", "Done"}
      PROVE  BuildInv'
  <2>1. /\ exec'[x].status = status /\ exec'[x].apps = {}
        /\ \A y \in Execution : y # x => exec'[y] = exec[y]
    BY <1>3 DEF Ends, Shape, Typed, ExecTyped
  <2>2. ~Built  BY <1>1, <1>3 DEF Built, Running
  <2>3. \A y \in Execution : ~Running(y)'  BY <1>1, <1>3, <2>1 DEF Running
  <2>4. ASSUME Built' PROVE \A s \in Stack : cfn[s] = "complete"
    <3>1. status = "SUCCEEDED"  BY <2>1, <2>2, <2>4 DEF Built
    <3>2. \A s \in Stack : Creating(x, s)  BY <1>0, <1>3 DEF BuiltOnce
    <3> QED  BY <1>3, <3>1, <3>2 DEF Creating
  <2>5. exec[x].status # "none"  BY <1>3 DEF Running
  <2>6. \A y \in Execution : exec'[y].status # "none" => y = 1
    BY <1>0, <2>1, <2>5 DEF BuiltOnce
  <2>7. BuiltOnce'  BY <1>0, <1>3, <2>1, <2>3, <2>4, <2>6 DEF BuiltOnce
  <2> QED  BY <1>0, <1>3, <2>2, <2>7, CloudHonest DEF BuildInv
<1>4. ASSUME NEW x \in Execution, NEW s \in Stack, ActionFails(x, s) PROVE BuildInv'
  <2>1. /\ Running(x) /\ Ends(x, "FAILED")
        /\ UNCHANGED <<item, image, apps, client, cfn, live>>
    BY <1>4 DEF ActionFails, Due, itemVars, stackVars
  <2> QED  BY <1>3, <2>1
<1>5. ASSUME NEW x \in Execution, ExecutionSucceeds(x) \/ ExecutionBreaks(x) PROVE BuildInv'
  <2>1. /\ Running(x) /\ UNCHANGED <<item, image, apps, client, cfn, live>>
        /\ \/ Ends(x, "FAILED")
           \/ Ends(x, "SUCCEEDED") /\ \A s \in Stack : exec[x].plan[s] \in {"Pass", "Done"}
    BY <1>5 DEF ExecutionSucceeds, ExecutionBreaks, itemVars, stackVars
  <2> QED  BY <1>3, <2>1
<1>6. ASSUME NEW s \in Stack, StackDone(s) \/ StackFails(s) PROVE BuildInv'
  <2>1. /\ UNCHANGED <<item, image, apps, client, exec, live>>
        /\ \A t \in Stack : t # s => cfn'[t] = cfn[t]
        /\ cfn[s] \in {"creating", "updating", "deleting"}
        /\ cfn[s] = "creating" => cfn'[s] \in {"complete", "failed"}
    BY <1>6 DEF StackDone, StackFails, StackEvent, itemVars, Shape, Typed, StackTyped
  <2>2. ~Built /\ ~Built'  BY <1>0, <2>1 DEF BuiltOnce, Built
  <2>3. ~\A x \in Execution : exec[x].status = "none"  BY <1>0, <2>1 DEF BuiltOnce
  <2>4. ASSUME NEW x \in Execution, Running(x) PROVE \A t \in Stack : Creating(x, t)'
    <3>1. \A t \in Stack : Creating(x, t)  BY <1>0, <2>4 DEF BuiltOnce
    <3> QED  BY <2>1, <3>1 DEF Creating
  <2>5. BuiltOnce'  BY <1>0, <2>1, <2>2, <2>3, <2>4 DEF BuiltOnce, Running
  <2> QED  BY <1>0, <2>1, <2>2, <2>5, CloudHonest DEF BuildInv
<1> QED  BY <1>2, <1>4, <1>5, <1>6 DEF Act

\* A request goes a step further, with an honest record or none.
LEMMA RequestGoesOn ==
    ASSUME Shape, BuildInv, UNCHANGED <<apps, exec, cfn, live>>, Honest(item)', Honest(image)',
           NEW c \in Client, NEW r, client' = [client EXCEPT ![c] = r],
           \/ r.pc = "idle"
           \/ /\ \/ r.pc = "checked" /\ r.kind = "force"
                 \/ r.pc = "write" /\ r.kind \in {"create", "refresh", "force"}
              /\ Honest(r.item) /\ r.item.exec # 0
    PROVE  BuildInv'
<1>1. client'[c] = r /\ \A d \in Client : d # c => client'[d] = client[d]  BY OneOfRequests
<1>2. Built' <=> Built  BY DEF Built
<1>3. \A d \in Client : d # c => (Honest(client[d].item)' <=> Honest(client[d].item))
  BY <1>1, <1>2 DEF Honest
<1>4. Honest(client[c].item)' <=> Honest(r.item)  BY <1>1, <1>2 DEF Honest
<1>5. LookingOn'
  <2>1. LookingOn  BY DEF BuildInv
  <2>2. ASSUME NEW d \in Client
        PROVE  /\ client'[d].pc \notin {"form", "register"}
               /\ client'[d].pc = "checked" => client'[d].kind = "force"
               /\ client'[d].pc = "write" => client'[d].kind \in {"create", "refresh", "force"}
               /\ client'[d].pc \in {"checked", "write"} =>
                     Honest(client[d].item)' /\ client'[d].item.exec # 0
    <3>1. CASE d = c  BY <1>1, <1>4, <3>1
    <3>2. CASE d # c  BY <1>1, <1>3, <2>1, <3>2 DEF LookingOn
    <3> QED  BY <3>1, <3>2
  <2> QED  BY <2>2 DEF LookingOn
<1>6. \A x \in Execution : Running(x)' <=> Running(x)  BY DEF Running
<1>7. BuiltOnce'  BY <1>2, <1>6 DEF BuildInv, BuiltOnce, Creating
<1> QED  BY <1>5, <1>7 DEF BuildInv

\* The creation starts when nothing is there.
LEMMA CreateBuild ==
    ASSUME Shape, BuildInv, NEW c \in Client, NEW x \in Execution, Create(c, x)
    PROVE  BuildInv'
<1> DEFINE T == Time \cup {Chosen({})}
           X == Known \cup {x}
           i1 == [Blank EXCEPT !.phase = "live"]
           i2 == [i1 EXCEPT !.apps = apps]
           i3 == [i2 EXCEPT !.exec = x]
           i4 == [i3 EXCEPT !.status = "RUNNING"]
           r == [pc |-> "write", kind |-> "create", apps |-> apps, item |-> i4]
<1>1. /\ client' = [client EXCEPT ![c] = r]
      /\ exec' = [exec EXCEPT ![x] = [status |-> "RUNNING", plan |-> CreatePlan, apps |-> i2.apps]]
      /\ x = 1 /\ exec[x].status = "none"
      /\ UNCHANGED <<item, image, apps, cfn, live>>
  BY Zenon DEF Create, Launch, itemVars, stackVars
<1>2. r.pc = "write" /\ r.kind = "create" /\ r.item = i4  OBVIOUS
<1> HIDE DEF r
<1>3. i2 \in Items(T, X) /\ i2.apps = {}
  <2>1. Never \in T
    <3>1. CASE Time = {}  BY <3>1 DEF Never, Chosen
    <3>2. CASE Time # {}  BY <3>2 DEF Never
    <3> QED  BY <3>1, <3>2
  <2>2. i1 \in Items(T, X)  BY <2>1, BlankTyped, KnownZero, ItemFields
  <2> HIDE DEF i1
  <2>3. apps = {}  BY DEF BuildInv
  <2>4. i2 \in Items(T, X)  BY <2>2, <2>3, ItemFields
  <2>5. i2.apps = {}  BY <2>2, <2>3, SMT DEF Items
  <2> QED  BY <2>4, <2>5
<1> HIDE DEF i2
<1>4. i3 \in Items(T, X) /\ i3.exec = x
  <2>1. i3 \in Items(T, X)  BY <1>3, ItemFields
  <2>2. i3.exec = x  BY <1>3, SMT DEF Items
  <2> QED  BY <2>1, <2>2
<1> HIDE DEF i3
<1>5. i4.exec = x /\ i4.status = "RUNNING"  BY <1>4, SMT DEF Items
<1> HIDE DEF i4, T, X
<1>6. client'[c] = r /\ \A d \in Client : d # c => client'[d] = client[d]
  BY <1>1, OneOfRequests
<1>7. /\ exec'[x].status = "RUNNING" /\ exec'[x].plan = CreatePlan /\ exec'[x].apps = {}
      /\ \A y \in Execution : y # x => exec'[y] = exec[y]
  BY <1>1, <1>3 DEF Shape, Typed, ExecTyped
<1>8. BuiltOnce  BY DEF BuildInv
<1>9. \A y \in Execution : exec[y].status = "none"  BY <1>1, <1>8 DEF BuiltOnce
<1>10. ~Built /\ ~Built'  BY <1>7, <1>9 DEF Built
<1>11. \A s \in Stack : cfn'[s] = "none" /\ Creating(x, s)'
  BY <1>1, <1>7, <1>8, <1>9 DEF BuiltOnce, Creating, CreatePlan
<1>12. \A y \in Execution : Running(y)' => y = x  BY <1>7, <1>9 DEF Running
<1>13. BuiltOnce'
  BY <1>1, <1>7, <1>8, <1>9, <1>10, <1>11, <1>12 DEF BuiltOnce
<1>14. Honest(item)' /\ Honest(image)'  BY <1>1, <1>10 DEF BuildInv, Honest
<1>15. ASSUME NEW d \in Client
       PROVE  /\ client'[d].pc \notin {"form", "register"}
              /\ client'[d].pc = "checked" => client'[d].kind = "force"
              /\ client'[d].pc = "write" => client'[d].kind \in {"create", "refresh", "force"}
              /\ client'[d].pc \in {"checked", "write"} =>
                    Honest(client[d].item)' /\ client'[d].item.exec # 0
  <2>1. CASE d = c
    <3>1. client'[d].item = i4 /\ x # 0  BY <1>1, <1>2, <1>6, <2>1
    <3> QED  BY <1>2, <1>5, <1>6, <2>1, <3>1 DEF Honest
  <2>2. CASE d # c  BY <1>6, <1>10, <2>2 DEF BuildInv, LookingOn, Honest
  <2> QED  BY <2>1, <2>2
<1>16. LookingOn'  BY <1>15 DEF LookingOn
<1> QED  BY <1>1, <1>13, <1>14, <1>16 DEF BuildInv

LEMMA RequestBuild ==
    ASSUME Shape, BuildInv, Looking, NEW c \in Client, Request(c)
    PROVE  BuildInv'
<1> DEFINE T == Time \cup {Chosen({})}
           old == client[c].item
<1>1. Honest(item) /\ Honest(image) /\ LookingOn  BY DEF BuildInv
<1>2. old \in Items(T, Known) /\ item \in Items(T, Known) /\ image \in Items(T, Known)
  <2>1. client \in Requests(T, Known)  BY DEF Shape, Typed
  <2>2. item \in Items(T, Known) /\ image \in Items(T, Known)  BY DEF Shape, Typed
  <2> QED  BY <2>1, <2>2, ClientTypes
<1>3. ASSUME UNCHANGED <<item, image, exec>> PROVE Honest(item)' /\ Honest(image)'
  BY <1>1, <1>3 DEF Honest, Built
<1>11. CASE Remove(c)  BY <1>11 DEF Remove, Looking
<1>4. ASSUME NEW kind \in RequestKinds, Read(c, kind) PROVE BuildInv'
  <2> DEFINE pc == IF kind = "refresh" THEN "write" ELSE "checked"
  <2>1. UNCHANGED <<item, image, apps, exec, cfn, live>> /\ image.phase = "live"
        /\ kind \in {"refresh", "force"}
    BY <1>4 DEF Read, Begin, Permits, Looking, itemVars, stackVars
  <2>2. PICK A : client' = [client EXCEPT ![c] =
                    [pc |-> pc, kind |-> kind, apps |-> A, item |-> Kept(kind)]]
    BY <1>4, Zenon DEF Read, Begin
  <2>3. (pc = "checked" /\ kind = "force") \/ (pc = "write" /\ kind = "refresh")  BY <2>1
  <2>4. Kept(kind) = image  BY <2>1 DEF Kept
  <2> DEFINE r == [pc |-> pc, kind |-> kind, apps |-> A, item |-> Kept(kind)]
  <2>5. r.pc = pc /\ r.kind = kind /\ r.item = image /\ client' = [client EXCEPT ![c] = r]
    BY <2>2, <2>4
  <2> HIDE DEF r, pc
  <2>6. Honest(r.item) /\ r.item.exec # 0  BY <1>1, <2>1, <2>5 DEF Honest
  <2>7. Honest(item)' /\ Honest(image)'  BY <1>3, <2>1
  <2> QED  BY <2>1, <2>3, <2>5, <2>6, <2>7, RequestGoesOn
<1>5. CASE LoadForm(c) \/ SubmitForm(c) \/ Register(c)
  BY <1>1, <1>5 DEF LoadForm, SubmitForm, Register, Looking, LookingOn
<1>6. CASE Observe(c)
  <2> DEFINE st == IF old.exec = 0 THEN "SUCCEEDED" ELSE exec[old.exec].status
             i1 == [old EXCEPT !.status = st]
             i2 == [i1 EXCEPT !.stacks = ById(old.stacks)]
             r == [pc |-> "write", kind |-> "force", apps |-> client[c].apps, item |-> i2]
  <2>1. client[c].pc = "checked" /\ UNCHANGED <<item, image, apps, exec, cfn, live>>
    BY <1>6 DEF Observe, itemVars, stackVars
  <2>2. client' = [client EXCEPT ![c] = r]  BY <1>6, Zenon DEF Observe
  <2>3. r.pc = "write" /\ r.kind = "force" /\ r.item = i2  OBVIOUS
  <2> HIDE DEF r
  <2>4. old.exec # 0 /\ old.exec \in Execution  /\ old.exec \in Known
    BY <1>1, <1>2, <2>1, ItemTypes DEF LookingOn, Known
  <2>5. st \in {"RUNNING", "SUCCEEDED", "FAILED"} /\ (st = "SUCCEEDED" => Built)
    BY <2>4, SeenTyped DEF Built, Shape, Typed
  <2> HIDE DEF st
  <2>6. i1 \in Items(T, Known) /\ i1.status = st /\ i1.exec = old.exec
    <3>1. i1 \in Items(T, Known)  BY <1>2, <2>5, ItemFields
    <3>2. i1.status = st /\ i1.exec = old.exec  BY <1>2, SMT DEF Items
    <3> QED  BY <3>1, <3>2
  <2> HIDE DEF i1
  <2>7. i2.status = st /\ i2.exec = old.exec  BY <2>6, SMT DEF Items
  <2> HIDE DEF i2, T
  <2>8. Honest(r.item) /\ r.item.exec # 0  BY <2>3, <2>4, <2>5, <2>7 DEF Honest
  <2>9. Honest(item)' /\ Honest(image)'  BY <1>3, <2>1
  <2> QED  BY <2>1, <2>2, <2>3, <2>8, <2>9, RequestGoesOn
<1>7. ASSUME NEW x \in Execution,
             \/ Create(c, x) \/ UpdateApp(c, x) \/ Update(c, x)
             \/ Upgrade(c, x) \/ Delete(c, x) \/ Retry(c, x)
      PROVE  BuildInv'
  <2>1. CASE Create(c, x)  BY <2>1, CreateBuild
  <2>2. CASE ~Create(c, x)
    BY <1>1, <1>7, <2>2 DEF UpdateApp, Update, Upgrade, Delete, Retry, Checked, LookingOn
  <2> QED  BY <2>1, <2>2
<1>8. CASE Write(c)
  <2> DEFINE new == [old EXCEPT !.phase = item.phase]
  <2>1. /\ client[c].pc = "write" /\ client[c].kind \in {"refresh", "force"}
        /\ UNCHANGED <<apps, exec, cfn, live>>
    BY <1>1, <1>8 DEF Write, LookingOn, stackVars
  <2>2. client' = [client EXCEPT ![c] = Idle]
    <3>1. client = [d \in Client |-> client[d]]
      <4>1. client \in Requests(T, Known)  BY DEF Shape, Typed
      <4> QED  BY <4>1, ClientTypes
    <3> QED  BY <1>8, <2>1, <3>1, Zenon DEF Write
  <2>3. new \in Items(T, Known) /\ new.status = old.status /\ new.exec = old.exec
    <3>1. item.phase \in {"none", "live", "deleted"}  BY <1>2, ItemTypes
    <3>2. new \in Items(T, Known)  BY <1>2, <3>1, ItemFields
    <3>3. new.status = old.status /\ new.exec = old.exec  BY <1>2, SMT DEF Items
    <3> QED  BY <3>2, <3>3
  <2>4. Store(new)  BY <1>8, <2>1, Zenon DEF Write
  <2> HIDE DEF new, T
  <2>5. Honest(new)  BY <1>1, <2>1, <2>3 DEF LookingOn, Honest
  <2>6. Built => Built'  BY <2>1 DEF Built
  <2>7. Honest(item)' /\ Honest(image)'  BY <1>1, <2>3, <2>4, <2>5, <2>6, HonestStored
  <2> QED  BY <2>1, <2>2, <2>7, IdleFields, RequestGoesOn
<1>9. CASE Add(c)
  <2>1. /\ client[c].pc = "write" /\ Stamped(old) /\ client' = [client EXCEPT ![c] = Idle]
        /\ UNCHANGED <<apps, exec, cfn, live>>
    BY <1>9 DEF Add, stackVars
  <2>2. Honest(old)  BY <1>1, <2>1 DEF LookingOn
  <2>3. Built => Built'  BY <2>1 DEF Built
  <2> HIDE DEF old, T
  <2>4. Honest(item)' /\ Honest(image)'  BY <1>1, <1>2, <2>1, <2>2, <2>3, HonestStored
  <2> QED  BY <2>1, <2>4, IdleFields, RequestGoesOn
<1>10. CASE Refused(c) \/ Die(c)
  <2>1. /\ client' = [client EXCEPT ![c] = Idle]
        /\ UNCHANGED <<item, image, apps, exec, cfn, live>>
    BY <1>10 DEF Refused, Die, itemVars, stackVars
  <2> QED  BY <1>3, <2>1, IdleFields, RequestGoesOn
<1> QED  BY <1>4, <1>5, <1>6, <1>7, <1>8, <1>9, <1>10, <1>11 DEF Request

LEMMA BuildNext ==
    ASSUME Shape, BuildInv, Looking, [Next]_vars
    PROVE  BuildInv'
<1>1. CASE UNCHANGED vars
  <2>1. UNCHANGED <<item, image, apps, client, exec, cfn, live>>  BY <1>1 DEF vars
  <2>2. Honest(item)' /\ Honest(image)'  BY <2>1 DEF BuildInv, Honest, Built
  <2> QED  BY <2>1, <2>2, BuildElsewhere
<1>2. CASE Propagate
  <2>1. image' = item /\ UNCHANGED <<item, apps, client, exec, cfn, live>>
    BY <1>2 DEF Propagate, stackVars
  <2>2. Honest(item)' /\ Honest(image)'  BY <2>1 DEF BuildInv, Honest, Built
  <2> QED  BY <2>1, <2>2, BuildElsewhere
<1>3. CASE \E c \in Client : Request(c)  BY <1>3, RequestBuild
<1>4. CASE \/ \E x \in Execution, s \in Stack : Act(x, s)
           \/ \E x \in Execution : ExecutionSucceeds(x) \/ ExecutionBreaks(x)
           \/ \E s \in Stack : StackDone(s) \/ StackFails(s)
  BY <1>4, CloudBuild
<1>5. CASE \E w \in Worker : StackListener(w)  BY <1>5, StackListenerBuild
<1>6. CASE \E k \in Execution \X Event : StateListener(k) \/ Redeliver(k)
  BY <1>6, StateListenerBuild, Zenon
<1> QED  BY <1>1, <1>2, <1>3, <1>4, <1>5, <1>6, Zenon DEF Next

\* What shows Active has a record of success, and that is honest.
LEMMA BuildFollows == Shape /\ BuildInv => ReadyForApps
<1> SUFFICES ASSUME Shape, BuildInv, Status(item) = "Active"
             PROVE  \A s \in AppStack : cfn[s] = "complete" /\ live[s] = apps
  BY DEF ReadyForApps
<1>1. item.status = "SUCCEEDED"
  <2>1. item \in Items(Time \cup {Chosen({})}, Known)  BY DEF Shape, Typed
  <2>2. item.status \in {"RUNNING", "SUCCEEDED", "FAILED"}  BY <2>1, ItemTypes
  <2>3. ASSUME item.status = "RUNNING" PROVE FALSE
    <3>1. Status(item) = RunningStatus(item.action)  BY <2>3 DEF Status
    <3> QED  BY <3>1 DEF RunningStatus
  <2>4. ASSUME item.status = "FAILED" PROVE FALSE
    <3>1. Status(item) = FailedStatus(item.action)  BY <2>4 DEF Status
    <3> QED  BY <3>1 DEF FailedStatus
  <2> QED  BY <2>2, <2>3, <2>4
<1>2. Built  BY <1>1 DEF BuildInv, Honest
<1> QED  BY <1>2, PipelineAssumption DEF BuildInv, BuiltOnce

\* A new pipeline shows Active only when its stacks are complete: whatever
\* fails, however late listeners and reads are, and whether or not requests
\* come at once or die, no refresh and no event records a success before the
\* execution that makes the stacks succeeded, and it succeeds only when each
\* of them is complete.
THEOREM NewPipelineReady ==
    ASSUME Looking
    PROVE  Spec => []ReadyForApps
<1>1. Init => Shape /\ BuildInv  BY ShapeHolds, BuildInit
<1>2. Shape /\ BuildInv /\ [Next]_vars => (Shape /\ BuildInv)'  BY ShapeHolds, BuildNext
<1>3. Shape /\ BuildInv => ReadyForApps  BY BuildFollows
<1> QED  BY <1>1, <1>2, <1>3, PTL DEF Spec
=============================================================================
