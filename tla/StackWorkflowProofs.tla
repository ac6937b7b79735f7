------------------------- MODULE StackWorkflowProofs -------------------------
(***************************************************************************)
(* That stacks come and go in order with the outputs they need, and that   *)
(* no request leaves a stack out, for every shape of pipeline, set of      *)
(* parameters to update, and number of executions and failures.            *)
(*                                                                         *)
(* The argument follows an execution along its branches.  A branch leads   *)
(* through its stacks in the order of Later, or backwards, so that a stack *)
(* the execution has passed stays passed (Leads, Reached).  Forward, what  *)
(* was passed is deployed and has left its outputs (Fed); back, it is gone *)
(* (Undone).  Hence a stack is made, or deleted, only once everything      *)
(* before it in the direction of the execution is there, or is gone, which *)
(* is what keeps dependencies (Ordered) from one request to the next.      *)
(***************************************************************************)
EXTENDS StackWorkflow, TLAPS

-----------------------------------------------------------------------------
(* The order of a branch.                                                  *)

State == Stack \cup {PipelineStacks}

LEMMA StatesDiffer ==
    /\ End \notin State /\ "none" \notin State /\ End # "none"
    /\ PipelineStacks \notin Stack /\ Registry \in Stack
    BY DEF State, Stack, End, PipelineStacks, Registry

LEMMA BranchesDisjoint ==
    /\ DOMAIN Members = Branch
    /\ \A b \in Branch : Members[b] \subseteq State
    /\ \A b, c \in Branch : \A s \in Members[b] : s \in Members[c] => b = c
    BY DEF Members, Branch, State, Stack, Registry, PipelineStacks

LEMMA LaterInBranch ==
    ASSUME NEW b \in Branch, NEW s \in Members[b]
    PROVE  Later(s) \subseteq Members[b]
    BY DEF Members, Branch, Later, Registry, PipelineStacks

LEMMA LaterIsOrder ==
    ASSUME NEW b \in Branch, NEW r \in Members[b], NEW s \in Members[b]
    PROVE  /\ r \notin Later(r)
           /\ r \in Later(s) => s \notin Later(r)
           /\ r = s \/ r \in Later(s) \/ s \in Later(r)
    BY DEF Members, Branch, Later, Registry, PipelineStacks

LEMMA LaterIsTransitive ==
    ASSUME NEW b \in Branch, NEW q \in Members[b], NEW r \in Later(q), NEW s \in Later(r)
    PROVE  s \in Later(q)
    BY DEF Members, Branch, Later, Registry, PipelineStacks

LEMMA FirstExists ==
    ASSUME NEW b \in Branch, NEW T \in SUBSET Members[b], T # {}
    PROVE  /\ \E s \in T : T \ {s} \subseteq Later(s)
           /\ \E s \in T : T \cap Later(s) = {}
    BY DEF Members, Branch, Later, Registry, PipelineStacks

\* A state of T after s is what comes first of those, or comes after it.
LEMMA FirstIs ==
    ASSUME NEW b \in Branch, NEW T \in SUBSET Members[b], T # {}
    PROVE  First(T) \in T /\ T \ {First(T)} \subseteq Later(First(T))
    BY FirstExists DEF First

-----------------------------------------------------------------------------
(* A branch that is executed, in either direction.                         *)

\* r comes before s.
Before(del, r, s) == IF del THEN r \in Later(s) ELSE s \in Later(r)

\* An execution that is at 'at' in its branch has passed s.
Reached(del, at, s) == at = End \/ (at # "none" /\ Before(del, s, at))

\* The branch leads through the states of T in their order.
Leads(br, T, del) ==
    /\ br.start \in T /\ \A r \in T : ~Reached(del, br.start, r)
    /\ \A s \in T : /\ br.next[s] \in T \cup {End}
                    /\ \A r \in T : Reached(del, br.next[s], r) <=>
                                       (Reached(del, s, r) \/ r = s)

LEMMA NextIs ==
    ASSUME NEW b \in Branch, NEW T \in SUBSET Members[b], NEW s \in T
    PROVE  \/ Linked(T).next[s] = End /\ T \cap Later(s) = {}
           \/ /\ Linked(T).next[s] \in T \cap Later(s)
              /\ T \cap Later(s) \subseteq {Linked(T).next[s]} \cup Later(Linked(T).next[s])
<1>1. Linked(T).next[s] = IF T \cap Later(s) = {} THEN End ELSE First(T \cap Later(s))
  BY DEF Linked
<1>2. T \cap Later(s) \in SUBSET Members[b] OBVIOUS
<1>3. T \cap Later(s) # {} =>
         /\ First(T \cap Later(s)) \in T \cap Later(s)
         /\ (T \cap Later(s)) \ {First(T \cap Later(s))} \subseteq Later(First(T \cap Later(s)))
  BY <1>2, FirstIs
<1>. QED BY <1>1, <1>3

LEMMA LinkedLeads ==
    ASSUME NEW b \in Branch, NEW T \in SUBSET Members[b], T # {}
    PROVE  Leads(Linked(T), T, FALSE)
<1>1. \A s \in T : s # "none" /\ s # End
  BY BranchesDisjoint, StatesDiffer
<1>2. Linked(T).start \in T /\ \A r \in T : ~Reached(FALSE, Linked(T).start, r)
  <2>1. Linked(T).start = First(T) BY DEF Linked
  <2>2. First(T) \in T /\ T \ {First(T)} \subseteq Later(First(T)) BY FirstIs
  <2>3. \A r \in T : First(T) \notin Later(r) BY <2>2, LaterIsOrder
  <2>. QED BY <1>1, <2>1, <2>2, <2>3 DEF Reached, Before
<1>3. ASSUME NEW s \in T
      PROVE  /\ Linked(T).next[s] \in T \cup {End}
             /\ \A r \in T : Reached(FALSE, Linked(T).next[s], r) <=>
                               (Reached(FALSE, s, r) \/ r = s)
  <2>1. CASE Linked(T).next[s] = End /\ T \cap Later(s) = {}
    <3>1. \A r \in T : r = s \/ s \in Later(r) BY <2>1, LaterIsOrder
    <3>. QED BY <1>1, <2>1, <3>1 DEF Reached, Before
  <2>2. CASE /\ Linked(T).next[s] \in T \cap Later(s)
             /\ T \cap Later(s) \subseteq {Linked(T).next[s]} \cup Later(Linked(T).next[s])
    <3>1. PICK n : n = Linked(T).next[s] OBVIOUS
    <3>2. n \in T /\ n \in Later(s) /\ T \cap Later(s) \subseteq {n} \cup Later(n)
      BY <2>2, <3>1
    <3>3. ASSUME NEW r \in T PROVE n \in Later(r) <=> (s \in Later(r) \/ r = s)
      <4>1. r = s \/ r \in Later(s) \/ s \in Later(r) BY LaterIsOrder
      <4>2. s \in Later(r) => n \in Later(r) BY <3>2, LaterIsTransitive
      <4>3. r \in Later(s) => n \notin Later(r)  /\ s \notin Later(r) /\ r # s
        BY <3>2, LaterIsOrder
      <4>. QED BY <3>2, <4>1, <4>2, <4>3
    <3>. QED BY <1>1, <3>1, <3>2, <3>3 DEF Reached, Before
  <2>. QED BY <2>1, <2>2, NextIs
<1>. QED BY <1>2, <1>3 DEF Leads

\* _getParallelDeleteWorkflow turns a branch round.
LEMMA ReversedLeads ==
    ASSUME NEW b \in Branch, NEW T \in SUBSET Members[b], T # {}
    PROVE  Leads(Reversed(Linked(T)), T, TRUE)
<1>1. \A s \in T : s # "none" /\ s # End
  BY BranchesDisjoint, StatesDiffer
<1>2. DOMAIN Linked(T).next = T BY DEF Linked
<1>3. PICK last : last = CHOOSE s \in DOMAIN Linked(T).next : Linked(T).next[s] = End
  OBVIOUS
<1>4. last \in T /\ T \cap Later(last) = {}
  <2>1. PICK s \in T : T \cap Later(s) = {} BY FirstExists
  <2>2. Linked(T).next[s] = End BY <2>1, NextIs
  <2>3. last \in T /\ Linked(T).next[last] = End BY <1>2, <1>3, <2>2
  <2>. QED BY <1>1, <2>3, NextIs
<1>5. /\ Reversed(Linked(T)).start = last
      /\ \A s \in T : Reversed(Linked(T)).next[s] =
            IF s = First(T) THEN End
            ELSE CHOOSE r \in DOMAIN Linked(T).next : Linked(T).next[r] = s
  <2>1. PICK br : br = Linked(T) OBVIOUS
  <2>2. br.start = First(T) BY <2>1 DEF Linked
  <2>3. /\ Reversed(br).start = CHOOSE s \in DOMAIN br.next : br.next[s] = End
        /\ \A s \in DOMAIN br.next : Reversed(br).next[s] =
              IF s = br.start THEN End ELSE CHOOSE r \in DOMAIN br.next : br.next[r] = s
    BY DEF Reversed
  <2>. QED BY <1>2, <1>3, <2>1, <2>2, <2>3
<1>6. \A r \in T : ~Reached(TRUE, last, r) BY <1>1, <1>4 DEF Reached, Before
<1>7. ASSUME NEW s \in T
      PROVE  /\ Reversed(Linked(T)).next[s] \in T \cup {End}
             /\ \A r \in T : Reached(TRUE, Reversed(Linked(T)).next[s], r) <=>
                               (Reached(TRUE, s, r) \/ r = s)
  <2>1. CASE s = First(T)
    <3>1. T \ {s} \subseteq Later(s) BY <2>1, FirstIs
    <3>. QED BY <1>1, <1>5, <2>1, <3>1 DEF Reached, Before
  <2>2. CASE s # First(T)
    <3>1. PICK p : p = CHOOSE r \in DOMAIN Linked(T).next : Linked(T).next[r] = s
      OBVIOUS
    <3>2. \E r \in T : Linked(T).next[r] = s
      <4>1. PICK U : U = {r \in T : s \in Later(r)} OBVIOUS
      <4>2. First(T) \in U BY <2>2, <4>1, FirstIs
      <4>3. U \in SUBSET Members[b] BY <4>1
      <4>4. PICK r \in U : U \cap Later(r) = {} BY <4>2, <4>3, FirstExists
      <4>5. PICK n : n = Linked(T).next[r] OBVIOUS
      <4>6. r \in T /\ s \in T \cap Later(r) BY <4>1, <4>4
      <4>7. n \in T \cap Later(r) /\ T \cap Later(r) \subseteq {n} \cup Later(n)
        BY <4>5, <4>6, NextIs
      <4>8. n \notin U BY <4>4, <4>7
      <4>9. s = n BY <4>1, <4>6, <4>7, <4>8
      <4>. QED BY <4>5, <4>6, <4>9
    <3>3. p \in T /\ Linked(T).next[p] = s BY <1>2, <3>1, <3>2
    <3>4. s \in T \cap Later(p) /\ T \cap Later(p) \subseteq {s} \cup Later(s)
      BY <1>1, <3>3, NextIs
    <3>5. ASSUME NEW r \in T PROVE r \in Later(p) <=> (r \in Later(s) \/ r = s)
      BY <3>3, <3>4, LaterIsTransitive
    <3>6. Reversed(Linked(T)).next[s] = p BY <1>5, <2>2, <3>1
    <3>. QED BY <1>1, <3>3, <3>5, <3>6 DEF Reached, Before
  <2>. QED BY <2>1, <2>2
<1>. QED BY <1>4, <1>5, <1>6, <1>7 DEF Leads

-----------------------------------------------------------------------------
(* Workflows of a shape.                                                   *)

Valid(shape) ==
    /\ Always \subseteq shape /\ shape \subseteq Stack
    /\ shape \cap {"Athena", "DataModelingRedshift"} # {} => "DataProcessing" \in shape
    /\ "Reporting" \in shape => "DataModelingRedshift" \in shape

Branches(shape) ==
    [b \in {c \in Branch : Chain(c, shape) # {}} |-> Linked(Chain(b, shape))]
Turned(shape) == [b \in DOMAIN Branches(shape) |-> Reversed(Branches(shape)[b])]

LEMMA ChainIs ==
    ASSUME NEW b \in Branch, NEW shape \in SUBSET Stack
    PROVE  /\ Chain(b, shape) \in SUBSET Members[b] /\ Chain(b, shape) \subseteq State
           /\ Chain(b, shape) \ {PipelineStacks} \subseteq shape
    BY BranchesDisjoint DEF Chain

\* Every stack of the shape is in the chain of a branch; the root is always
\* there.
LEMMA ChainOfStack ==
    ASSUME NEW shape \in SUBSET Stack
    PROVE  /\ \A s \in shape : \E b \in Branch : s \in Chain(b, shape)
           /\ PipelineStacks \in Chain("root", shape)
           /\ \A b \in Branch : PipelineStacks \in Chain(b, shape) => b = "root"
           /\ \A b \in Branch : Registry \in Chain(b, shape) => b = "root"
           /\ "root" \in Branch
           /\ Chain("root", shape) \subseteq {Registry, PipelineStacks}
    BY DEF Chain, Members, Branch, Stack, Registry, PipelineStacks

LEMMA BranchesAre ==
    ASSUME NEW shape \in SUBSET Stack
    PROVE  /\ DOMAIN Branches(shape) = {c \in Branch : Chain(c, shape) # {}}
           /\ DOMAIN Turned(shape) = DOMAIN Branches(shape)
           /\ "root" \in DOMAIN Branches(shape)
           /\ \A b \in DOMAIN Branches(shape) :
                 /\ Branches(shape)[b] = Linked(Chain(b, shape))
                 /\ Turned(shape)[b] = Reversed(Linked(Chain(b, shape)))
    BY ChainOfStack DEF Branches, Turned

\* getWorkflowStacks finds the stacks of the shape.
LEMMA StacksOfShape ==
    ASSUME NEW shape \in SUBSET Stack, NEW wf, wf.branch = Branches(shape)
    PROVE  StacksOf(wf) = shape
<1>1. ASSUME NEW b \in DOMAIN wf.branch PROVE States(wf, b) = Chain(b, shape)
  <2>1. wf.branch[b] = Linked(Chain(b, shape)) BY BranchesAre
  <2>2. DOMAIN Linked(Chain(b, shape)).next = Chain(b, shape) BY DEF Linked
  <2>. QED BY <2>1, <2>2 DEF States
<1>2. DOMAIN wf.branch = {c \in Branch : Chain(c, shape) # {}} BY BranchesAre
<1>3. \A s : s \in StacksOf(wf) <=>
          (s # PipelineStacks /\ \E b \in DOMAIN wf.branch : s \in States(wf, b))
  BY DEF StacksOf
<1>4. ASSUME NEW s \in shape PROVE s \in StacksOf(wf)
  <2>1. PICK b \in Branch : s \in Chain(b, shape) BY ChainOfStack
  <2>2. b \in DOMAIN wf.branch BY <1>2, <2>1
  <2>3. s # PipelineStacks BY StatesDiffer
  <2>. QED BY <1>1, <1>3, <2>1, <2>2, <2>3
<1>5. ASSUME NEW s \in StacksOf(wf) PROVE s \in shape
  <2>1. PICK b \in DOMAIN wf.branch : s \in Chain(b, shape) /\ s # PipelineStacks
    BY <1>1, <1>3
  <2>. QED BY <1>2, <2>1, ChainIs
<1>. QED BY <1>4, <1>5

\* Each branch of a workflow to execute leads through its chain.
LEMMA PlanLeads ==
    ASSUME NEW shape \in SUBSET Stack, NEW del \in BOOLEAN, NEW wf,
           wf.branch = IF del THEN Turned(shape) ELSE Branches(shape),
           NEW b \in DOMAIN wf.branch
    PROVE  b \in Branch /\ Chain(b, shape) # {}
           /\ Leads(wf.branch[b], Chain(b, shape), del)
<1>1. b \in Branch /\ Chain(b, shape) # {} BY BranchesAre
<1>2. wf.branch[b] = IF del THEN Reversed(Linked(Chain(b, shape)))
                     ELSE Linked(Chain(b, shape))
  BY BranchesAre
<1>. QED BY <1>1, <1>2, ChainIs, LinkedLeads, ReversedLeads

-----------------------------------------------------------------------------
(* The inductive invariant.                                                *)

W == StacksOf(saved)
Deletes == run.kind = "Delete"

\* The execution has passed s.
Passed(s) ==
    \E b \in DOMAIN run.at : s \in Members[b] /\ Reached(Deletes, run.at[b], s)

\* What may exist only while s does.
Dependents(s) == IF s = Registry THEN W \ {Registry} ELSE Later(s) \cap W

Place == State \cup {"none", End}
BranchMap == {Branches(shape) : shape \in SUBSET Stack}
             \cup {Turned(shape) : shape \in SUBSET Stack}
Workflow == [branch : BranchMap, type : [Stack -> {"Stack", "Pass"}],
             action : [Stack -> {"Create", "Update", "Upgrade", "Delete"}],
             prefix : Execution]
RunRecord == [number : 0 .. MaxExec,
              kind : {"Create", "UpdateApp", "Update", "Upgrade", "Delete", "Retry"},
              status : {"none", "RUNNING", "SUCCEEDED", "FAILED"},
              wf : Workflow,
              at : UNION {[D -> Place] : D \in SUBSET Branch},
              wait : SUBSET Stack]

Typed ==
    /\ run \in RunRecord
    /\ status \in [Stack -> {"none"} \cup InProgress \cup Broken \cup Settled]
    /\ made \subseteq Stack /\ starved \subseteq Stack /\ blank \subseteq Stack
    /\ behind \subseteq Stack /\ untagged \subseteq Stack
    /\ files \in [Execution -> SUBSET Stack]
    /\ overlooked \in BOOLEAN

\* The saved workflow creates everything.
Formed == Valid(W) /\ saved = Generated(W, saved.prefix) /\ saved.prefix \in Execution

\* The executed workflow goes through the same stacks, forward or back.
Planned ==
    /\ run.wf.branch = IF Deletes THEN Turned(W) ELSE Branches(W)
    /\ \A s \in Stack : Deletes <=> run.wf.action[s] = "Delete"
    /\ run.kind \in {"Delete", "Upgrade"} => \A s \in Stack : run.wf.type[s] = "Stack"

\* The branches are worked on while the root is at PipelineStacks.
Placed ==
    /\ \/ DOMAIN run.at = {} /\ run.status = "none" /\ run.number = 0
       \/ /\ DOMAIN run.at = DOMAIN run.wf.branch /\ run.status # "none"
          /\ \A b \in DOMAIN run.at : run.at[b] \in Chain(b, W) \cup {"none", End}
          /\ run.at["root"] # "none"
          /\ run.at["root"] # PipelineStacks =>
               \A b \in Others : run.at[b] = IF Reached(Deletes, run.at["root"], PipelineStacks)
                                             THEN End ELSE "none"
    /\ run.status = "SUCCEEDED" => ("root" \in DOMAIN run.at /\ run.at["root"] = End)

Known ==
    /\ \A s \in Stack \ W : ~Exists(s)
    /\ \A s \in Stack : status[s] \in Settled => s \in made

\* While a stack is there, what it depends on is, and is not being deleted.
Ordered ==
    ~overlooked =>
        /\ starved = {} /\ blank = {}
        /\ \A s \in W : \A t \in Dependents(s) :
              Exists(t) => (Exists(s) /\ status[s] # "deleting")

\* Forward: what was passed is deployed and has left its outputs.
Fed ==
    ~overlooked /\ ~Deletes =>
        /\ \A s \in W : run.wf.type[s] = "Pass" => status[s] \in Settled
        /\ \A s \in W : Passed(s) => (status[s] \in Settled /\ s \in files[run.wf.prefix])

\* Back: what was passed is gone.
Undone ==
    Deletes => /\ \A s \in W : Passed(s) => ~Exists(s)
               /\ \A s \in run.wait : status[s] \in {"deleting", "none", "undeleted"}

\* A stack that an upgrade has passed is upgraded or rolled back.
Upgraded ==
    run.kind = "Upgrade" =>
        \A s \in behind :
            /\ s \in W /\ s \in untagged /\ run.wf.action[s] = "Upgrade"
            /\ status[s] \in {"complete", "upgrading", "rollback", "failed"}
            /\ s \in run.wait => status[s] # "complete"
            /\ Passed(s) => status[s] = "rollback"

StackInv ==
    /\ Typed /\ Formed /\ Planned /\ Placed
    /\ Known /\ Ordered /\ Fed /\ Undone /\ Upgraded

-----------------------------------------------------------------------------
(* The execution and its place.                                            *)

LEMMA RunFields ==
    ASSUME NEW r \in RunRecord
    PROVE  /\ r.number \in 0 .. MaxExec /\ r.wf \in Workflow /\ r.wait \in SUBSET Stack
           /\ r.status \in {"none", "RUNNING", "SUCCEEDED", "FAILED"}
           /\ r.kind \in {"Create", "UpdateApp", "Update", "Upgrade", "Delete", "Retry"}
           /\ DOMAIN r.at \in SUBSET Branch /\ r.at \in [DOMAIN r.at -> Place]
    BY DEF RunRecord

\* What a step of one branch leaves as it is.
SameRun == run' \in RunRecord /\ run'.kind = run.kind /\ run'.wf = run.wf

\* The execution is at stack s of branch b.
At(b, s) ==
    /\ run.status = "RUNNING" /\ b \in DOMAIN run.at
    /\ run.at[b] = s /\ s \in Stack

\* The branch of the stack, and what was passed before it.
LEMMA AtFacts ==
    ASSUME StackInv, NEW b, NEW s, At(b, s)
    PROVE  /\ b \in Branch /\ s \in W /\ s \in Chain(b, W) /\ ~Passed(s)
           /\ b # "root" => run.at["root"] = PipelineStacks
           /\ ~Deletes => \A r \in W : s \in Dependents(r) => Passed(r)
           /\ Deletes => \A t \in Dependents(s) : Passed(t) /\ t # s
<1>1. W \in SUBSET Stack BY DEF StackInv, Formed, Valid
<1>2. DOMAIN run.at = DOMAIN run.wf.branch
  BY DEF StackInv, Placed, At
<1>3. Deletes \in BOOLEAN BY DEF Deletes
<1>4. \A c \in DOMAIN run.at : c \in Branch /\ Chain(c, W) # {}
  BY <1>1, <1>2, <1>3, PlanLeads DEF StackInv, Planned
<1>5. b \in Branch BY <1>4 DEF At
<1>6. s \in Chain(b, W) /\ s \in W
  <2>1. s \in Chain(b, W) BY StatesDiffer DEF At, StackInv, Placed, State
  <2>2. s # PipelineStacks BY StatesDiffer DEF At
  <2>. QED BY <1>1, <1>5, <2>1, <2>2, ChainIs
<1>7. s # "none" /\ s # End BY StatesDiffer DEF At, State
<1>8. s \in Members[b] BY <1>1, <1>5, <1>6, ChainIs
<1>9. ~Passed(s)
  <2>1. ASSUME NEW c \in DOMAIN run.at, s \in Members[c], Reached(Deletes, run.at[c], s)
        PROVE  FALSE
    <3>1. c = b BY <1>4, <1>5, <1>8, <2>1, BranchesDisjoint
    <3>2. Before(Deletes, s, s) BY <1>7, <2>1, <3>1 DEF Reached, At
    <3>. QED BY <1>5, <1>8, <3>2, LaterIsOrder DEF Before
  <2>. QED BY <2>1 DEF Passed
<1>10. "root" \in DOMAIN run.at
  BY <1>1, <1>2, BranchesAre DEF StackInv, Planned
<1>11. b # "root" => run.at["root"] = PipelineStacks
  BY <1>2, <1>7 DEF StackInv, Placed, At, Others
<1>12. \A c \in DOMAIN run.at : \A r \in Members[c] :
          Reached(Deletes, run.at[c], r) => Passed(r)
  BY DEF Passed
<1>13. Registry \in Members["root"] /\ PipelineStacks \in Members["root"]
       /\ Later(Registry) = {PipelineStacks}
  BY DEF Members, Later, Registry, PipelineStacks
<1>14. ASSUME ~Deletes, NEW r \in W, s \in Dependents(r) PROVE Passed(r)
  <2>1. CASE r = Registry
    <3>1. b # "root"
      BY <1>1, <1>6, <1>14, <2>1, ChainOfStack, StatesDiffer DEF Dependents, At
    <3>2. Reached(Deletes, PipelineStacks, Registry)
      BY <1>13, <1>14, StatesDiffer DEF Reached, Before, State
    <3>. QED BY <1>10, <1>11, <1>12, <1>13, <2>1, <3>1, <3>2
  <2>2. CASE r # Registry
    <3>1. s \in Later(r) BY <1>14, <2>2 DEF Dependents
    <3>2. PICK c \in Branch : r \in Members[c] BY <1>1, ChainOfStack, ChainIs
    <3>3. s \in Members[c] BY <3>1, <3>2, LaterInBranch
    <3>4. c = b BY <1>5, <1>8, <3>2, <3>3, BranchesDisjoint
    <3>5. Reached(Deletes, s, r) BY <1>7, <1>14, <3>1 DEF Reached, Before
    <3>. QED BY <1>12, <3>2, <3>4, <3>5 DEF At
  <2>. QED BY <2>1, <2>2
<1>15. ASSUME Deletes, NEW t \in Dependents(s) PROVE Passed(t) /\ t # s
  <2>1. CASE s = Registry
    <3>1. b = "root" BY <1>1, <1>5, <1>6, <2>1, ChainOfStack
    <3>2. t \in W /\ t # Registry BY <2>1 DEF Dependents
    <3>3. PICK c \in Branch : t \in Chain(c, W) BY <1>1, <3>2, ChainOfStack
    <3>4. c # "root" BY <1>1, <3>2, <3>3, ChainOfStack, StatesDiffer
    <3>5. c \in DOMAIN run.at BY <1>1, <1>2, <3>3, BranchesAre DEF StackInv, Planned
    <3>6. Reached(Deletes, Registry, PipelineStacks)
      BY <1>7, <1>13, <1>15, <2>1 DEF Reached, Before
    <3>7. run.at[c] = End
      BY <1>2, <2>1, <3>1, <3>4, <3>5, <3>6, StatesDiffer
         DEF StackInv, Placed, Others, At
    <3>8. t \in Members[c] BY <1>1, <3>3, ChainIs
    <3>. QED BY <1>12, <2>1, <3>2, <3>5, <3>7, <3>8 DEF Reached
  <2>2. CASE s # Registry
    <3>1. t \in Later(s) BY <2>2 DEF Dependents
    <3>2. t \in Members[b] /\ t # s
      BY <1>5, <1>8, <3>1, LaterInBranch, LaterIsOrder
    <3>3. Reached(Deletes, s, t) BY <1>7, <1>15, <3>1 DEF Reached, Before
    <3>. QED BY <1>12, <3>2, <3>3 DEF At
  <2>. QED BY <2>1, <2>2
<1>. QED BY <1>5, <1>6, <1>9, <1>11, <1>14, <1>15

\* Nothing in the workflow or the pipeline's stacks is another.
LEMMA SamePlan ==
    ASSUME StackInv, UNCHANGED saved, SameRun
    PROVE  /\ W' = W /\ Deletes' = Deletes
           /\ Formed' /\ Planned'
           /\ \A s : Dependents(s)' = Dependents(s)
<1>1. W' = W BY DEF W, StacksOf, States
<1>2. Deletes' = Deletes BY DEF SameRun, Deletes
<1>3. Formed' BY <1>1 DEF StackInv, Formed
<1>4. Planned' BY <1>1, <1>2 DEF StackInv, Planned, SameRun
<1>5. \A s : Dependents(s)' = Dependents(s) BY <1>1 DEF Dependents
<1>. QED BY <1>1, <1>2, <1>3, <1>4, <1>5

\* A branch takes its Next.
LEMMA ProceedsFacts ==
    ASSUME StackInv, NEW b, NEW s, At(b, s), Proceeds(b), UNCHANGED saved
    PROVE  /\ SameRun /\ run'.wait = run.wait \ {s} /\ Placed'
           /\ \A r \in W : Passed(r)' <=> (Passed(r) \/ r = s)
<1>1. W \in SUBSET Stack BY DEF StackInv, Formed, Valid
<1>2. DOMAIN run.at = DOMAIN run.wf.branch /\ b \in DOMAIN run.at
  BY DEF StackInv, Placed, At
<1>3. Deletes \in BOOLEAN BY DEF Deletes
<1>4. PICK T, n : T = Chain(b, W) /\ n = run.wf.branch[b].next[s] OBVIOUS
<1>5. b \in Branch /\ Leads(run.wf.branch[b], T, Deletes)
  BY <1>1, <1>2, <1>3, <1>4, PlanLeads DEF StackInv, Planned
<1>6. s \in T /\ T \subseteq State /\ T \subseteq Members[b]
  BY <1>1, <1>4, <1>5, AtFacts, ChainIs
<1>7. n \in T \cup {End} /\ \A r \in T : Reached(Deletes, n, r) <=>
                                           (Reached(Deletes, s, r) \/ r = s)
  BY <1>4, <1>5, <1>6 DEF Leads
<1>8. n \in Place /\ n # "none" BY <1>6, <1>7, StatesDiffer DEF Place
<1>9. PICK at, wait : at = [run.at EXCEPT ![b] = n] /\ wait = run.wait \ {s}
  OBVIOUS
<1>10. run \in RunRecord BY DEF StackInv, Typed
<1>11. /\ at \in [DOMAIN run.at -> Place] /\ DOMAIN run.at \in SUBSET Branch
       /\ wait \in SUBSET Stack
  BY <1>2, <1>8, <1>9, <1>10, RunFields
<1>12. run' = [run EXCEPT !.at = at, !.wait = wait]
  BY <1>4, <1>9, <1>10 DEF Proceeds, At, RunRecord
<1>13. /\ run' \in RunRecord /\ run'.at = at /\ run'.wait = wait /\ run'.kind = run.kind
       /\ run'.wf = run.wf /\ run'.status = run.status
  BY <1>10, <1>11, <1>12 DEF RunRecord
<1>14. SameRun BY <1>13 DEF SameRun
<1>15. W' = W /\ Deletes' = Deletes BY <1>14, SamePlan
<1>16. DOMAIN at = DOMAIN run.at /\ at[b] = n
       /\ \A c \in DOMAIN run.at : c # b => at[c] = run.at[c]
  BY <1>2, <1>9, <1>11
<1>17. run.at[b] = s /\ run.status = "RUNNING" BY DEF At
<1>18. Placed'
  <2>1. \A c \in DOMAIN at : at[c] \in Chain(c, W) \cup {"none", End}
    BY <1>4, <1>7, <1>16, <1>17 DEF StackInv, Placed
  <2>2. at["root"] # "none"
    <3>1. "root" \in DOMAIN run.at /\ run.at["root"] # "none"
      BY <1>1, <1>2, BranchesAre DEF StackInv, Planned, Placed
    <3>. QED BY <1>8, <1>16, <3>1
  <2>3. at["root"] # PipelineStacks =>
           \A c \in (DOMAIN at) \ {"root"} :
              at[c] = IF Reached(Deletes, at["root"], PipelineStacks) THEN End ELSE "none"
    <3>1. CASE b = "root"
      <4>1. PipelineStacks \in T BY <1>1, <1>4, <3>1, ChainOfStack
      <4>2. s # PipelineStacks BY StatesDiffer DEF At
      <4>3. Reached(Deletes, n, PipelineStacks) <=> Reached(Deletes, s, PipelineStacks)
        BY <1>7, <4>1, <4>2
      <4>4. \A c \in (DOMAIN run.at) \ {"root"} :
              run.at[c] = IF Reached(Deletes, s, PipelineStacks) THEN End ELSE "none"
        BY <1>17, <3>1, <4>2 DEF StackInv, Placed, Others
      <4>. QED BY <1>16, <3>1, <4>3, <4>4
    <3>2. CASE b # "root"
      <4>1. run.at["root"] = PipelineStacks BY <3>2, AtFacts
      <4>2. "root" \in DOMAIN run.at
        BY <1>1, <1>2, BranchesAre DEF StackInv, Planned
      <4>. QED BY <1>16, <3>2, <4>1, <4>2
    <3>. QED BY <3>1, <3>2
  <2>. QED BY <1>2, <1>13, <1>15, <1>16, <1>17, <2>1, <2>2, <2>3 DEF Placed, Others
<1>19. ASSUME NEW r \in W PROVE Passed(r)' <=> (Passed(r) \/ r = s)
  <2>1. \A c \in DOMAIN run.at : c \in Branch
    BY <1>10, RunFields
  <2>2. Passed(r)' <=> \E c \in DOMAIN at : r \in Members[c] /\ Reached(Deletes, at[c], r)
    BY <1>13, <1>15 DEF Passed
  <2>3. r \in Members[b] => r \in T
    BY <1>4, <1>5 DEF Chain
  <2>4. r \in Members[b] => (Reached(Deletes, at[b], r) <=>
                              (Reached(Deletes, run.at[b], r) \/ r = s))
    BY <1>7, <1>16, <1>17, <2>3
  <2>5. \A c \in DOMAIN run.at : c # b =>
           (r \in Members[c] => (Reached(Deletes, at[c], r) <=> Reached(Deletes, run.at[c], r)))
    BY <1>16
  <2>6. s \in Members[b] BY <1>6
  <2>. QED BY <1>2, <1>16, <2>2, <2>4, <2>5, <2>6 DEF Passed
<1>. QED BY <1>9, <1>13, <1>14, <1>18, <1>19

\* The place is the same, and the execution goes on or has failed.
LEMMA StaysFacts ==
    ASSUME StackInv, UNCHANGED saved, SameRun, run'.at = run.at,
           run'.status \in {run.status, "FAILED"}, DOMAIN run.at # {}
    PROVE  Placed' /\ \A r \in W : Passed(r)' <=> Passed(r)
<1>1. W' = W /\ Deletes' = Deletes BY SamePlan
<1>2. Others' = Others BY DEF Others
<1>3. run'.wf = run.wf BY DEF SameRun
<1>4. Placed' BY <1>1, <1>2, <1>3 DEF StackInv, Placed
<1>. QED BY <1>1, <1>4 DEF Passed

LEMMA WaitsFacts ==
    ASSUME StackInv, NEW b, NEW s, At(b, s), Waits(s), UNCHANGED saved
    PROVE  /\ SameRun /\ run'.wait = run.wait \cup {s} /\ Placed'
           /\ \A r \in W : Passed(r)' <=> Passed(r)
<1>1. PICK wait : wait = run.wait \cup {s} OBVIOUS
<1>2. run \in RunRecord BY DEF StackInv, Typed
<1>3. wait \in SUBSET Stack BY <1>1, <1>2, RunFields DEF At
<1>4. run' = [run EXCEPT !.wait = wait] BY <1>1, <1>2 DEF Waits, RunRecord
<1>5. /\ run' \in RunRecord /\ run'.at = run.at /\ run'.wait = wait
      /\ run'.kind = run.kind /\ run'.wf = run.wf /\ run'.status = run.status
  BY <1>2, <1>3, <1>4 DEF RunRecord
<1>6. SameRun BY <1>5 DEF SameRun
<1>7. DOMAIN run.at # {} BY DEF At
<1>. QED BY <1>1, <1>5, <1>6, <1>7, StaysFacts

LEMMA RunFailsFacts ==
    ASSUME StackInv, RunFails, run.status = "RUNNING", UNCHANGED saved
    PROVE  /\ SameRun /\ run'.wait = {} /\ Placed'
           /\ \A r \in W : Passed(r)' <=> Passed(r)
<1>1. run \in RunRecord BY DEF StackInv, Typed
<1>2. /\ run' \in RunRecord /\ run'.at = run.at /\ run'.wait = {}
      /\ run'.kind = run.kind /\ run'.wf = run.wf /\ run'.status = "FAILED"
  BY <1>1 DEF RunFails, RunRecord
<1>3. SameRun BY <1>2 DEF SameRun
<1>4. DOMAIN run.at = DOMAIN run.wf.branch BY DEF StackInv, Placed
<1>5. "root" \in DOMAIN run.at BY <1>4, BranchesAre DEF StackInv, Planned, Formed, Valid
<1>. QED BY <1>2, <1>3, <1>5, StaysFacts

\* What is written to a file.
LEMMA WrittenFacts ==
    ASSUME StackInv, NEW s \in Stack, NEW found \in BOOLEAN, Written(s, found)
    PROVE  /\ files' \in [Execution -> SUBSET Stack]
           /\ \A r : r # s => (r \in files'[run.wf.prefix] <=> r \in files[run.wf.prefix])
           /\ s \in files'[run.wf.prefix] <=> found
<1>1. run.wf \in Workflow BY RunFields DEF StackInv, Typed
<1>2. run.wf.prefix \in Execution BY <1>1 DEF Workflow
<1>3. files \in [Execution -> SUBSET Stack] BY DEF StackInv, Typed
<1>. QED BY <1>2, <1>3 DEF Written

-----------------------------------------------------------------------------
(* The steps of the state machine.                                         *)

LEMMA PassStep ==
    ASSUME StackInv, NEW b, NEW s, PassStack(b, s)
    PROVE  StackInv'
<1>1. At(b, s) /\ run.wf.type[s] = "Pass" /\ s \in Stack
  BY DEF PassStack, AtStack, Running, At
<1>2. /\ SameRun /\ run'.wait = run.wait \ {s} /\ Placed'
      /\ \A r \in W : Passed(r)' <=> (Passed(r) \/ r = s)
  BY <1>1, ProceedsFacts DEF PassStack, itemVars
<1>3. /\ W' = W /\ Deletes' = Deletes /\ Formed' /\ Planned'
      /\ \A r : Dependents(r)' = Dependents(r)
  BY <1>2, SamePlan DEF PassStack, itemVars
<1>4. s \in W /\ ~Passed(s) BY <1>1, AtFacts
<1>5. ~Deletes /\ run.kind # "Upgrade"
  BY <1>1 DEF StackInv, Planned, Deletes
<1>6. UNCHANGED <<status, made, starved, blank, behind, untagged>>
  BY DEF PassStack, stackVars, versionVars
<1>7. PICK found \in BOOLEAN :
        /\ Written(s, found) /\ (overlooked' \in BOOLEAN)
        /\ ~overlooked' => (~overlooked /\ (found <=> s \in made))
  <2>1. CASE Written(s, s \in made) /\ UNCHANGED <<overlooked, mishaps>>
    <3>1. overlooked' = overlooked /\ overlooked \in BOOLEAN
      BY <2>1 DEF StackInv, Typed
    <3>2. s \in made => Written(s, TRUE) BY <2>1 DEF Written
    <3>3. s \notin made => Written(s, FALSE) BY <2>1 DEF Written
    <3>. QED BY <3>1, <3>2, <3>3
  <2>2. CASE Mishap /\ Written(s, FALSE) /\ overlooked' = TRUE BY <2>2
  <2>. QED BY <2>1, <2>2 DEF PassStack
<1>8. /\ files' \in [Execution -> SUBSET Stack]
      /\ \A r : r # s => (r \in files'[run.wf.prefix] <=> r \in files[run.wf.prefix])
      /\ s \in files'[run.wf.prefix] <=> found
  BY <1>1, <1>7, WrittenFacts
<1>9. Typed' BY <1>2, <1>6, <1>7, <1>8 DEF StackInv, Typed, SameRun
<1>10. Known' BY <1>3, <1>6 DEF StackInv, Known, Exists
<1>11. Ordered' BY <1>3, <1>6, <1>7 DEF StackInv, Ordered, Exists
<1>12. Fed'
  <2>1. run'.wf = run.wf BY <1>2 DEF SameRun
  <2>2. ASSUME ~overlooked'
        PROVE  /\ \A r \in W : run.wf.type[r] = "Pass" => status[r] \in Settled
               /\ \A r \in W : Passed(r)' =>
                    (status[r] \in Settled /\ r \in files'[run.wf.prefix])
    <3>1. /\ \A r \in W : run.wf.type[r] = "Pass" => status[r] \in Settled
          /\ \A r \in W : Passed(r) => (status[r] \in Settled /\ r \in files[run.wf.prefix])
      BY <1>5, <1>7, <2>2 DEF StackInv, Fed
    <3>2. s \in files'[run.wf.prefix]
      BY <1>1, <1>4, <1>7, <1>8, <2>2, <3>1 DEF StackInv, Known
    <3>. QED BY <1>1, <1>2, <1>4, <1>8, <3>1, <3>2
  <2>. QED BY <1>3, <1>6, <2>1, <2>2 DEF Fed
<1>13. Undone' BY <1>3, <1>5 DEF Undone
<1>14. Upgraded' BY <1>2, <1>5 DEF Upgraded, SameRun
<1>. QED BY <1>2, <1>3, <1>9, <1>10, <1>11, <1>12, <1>13, <1>14 DEF StackInv

\* What a step needs is deployed, and its outputs are found.
LEMMA NeedsAreMet ==
    ASSUME StackInv, NEW b, NEW s, At(b, s), ~overlooked, ~Deletes
    PROVE  /\ ~Unfed(s)
           /\ \A r \in W : s \in Dependents(r) => status[r] \in Settled
<1>1. s \in W /\ \A r \in W : s \in Dependents(r) => Passed(r) BY AtFacts
<1>2. \A r \in W : s \in Dependents(r) => (status[r] \in Settled /\ r \in files[run.wf.prefix])
  BY <1>1 DEF StackInv, Fed
<1>3. Valid(W) BY DEF StackInv, Formed
<1>4. ASSUME NEW r \in Uses(s) PROVE r \in W /\ s \in Dependents(r)
  <2>1. r # s /\ (r = Registry \/ s \in Later(r))
    BY <1>1, <1>3, <1>4 DEF Uses, Later, Valid, Stack, Registry
  <2>2. r \in W BY <1>1, <1>3, <1>4 DEF Uses, Valid, Stack, Always, Registry
  <2>. QED BY <1>1, <2>1, <2>2 DEF Dependents
<1>. QED BY <1>2, <1>4 DEF Unfed

LEMMA CreateStep ==
    ASSUME StackInv, NEW b, NEW s, CreateStack(b, s)
    PROVE  StackInv'
<1>1. At(b, s) /\ run.wf.type[s] = "Stack" /\ run.wf.action[s] = "Create" /\ s \in Stack
  BY DEF CreateStack, Called, AtStack, Running, At
<1>2. /\ SameRun /\ run'.wait = run.wait \cup {s} /\ Placed'
      /\ \A r \in W : Passed(r)' <=> Passed(r)
  BY <1>1, WaitsFacts DEF CreateStack, itemVars
<1>3. /\ W' = W /\ Deletes' = Deletes /\ Formed' /\ Planned'
      /\ \A r : Dependents(r)' = Dependents(r)
  BY <1>2, SamePlan DEF CreateStack, itemVars
<1>4. s \in W /\ ~Passed(s) BY <1>1, AtFacts
<1>5. ~Deletes BY <1>1 DEF StackInv, Planned
<1>6. UNCHANGED <<made, blank, behind, untagged, files, overlooked>>
  BY DEF CreateStack, versionVars
<1>7. status \in [Stack -> {"none"} \cup InProgress \cup Broken \cup Settled]
  BY DEF StackInv, Typed
<1>8. /\ status' \in [Stack -> {"none"} \cup InProgress \cup Broken \cup Settled]
      /\ \A r \in Stack \ {s} : status'[r] = status[r]
      /\ status'[s] = status[s] \/ (status[s] = "none" /\ status'[s] = "creating")
      /\ starved' \in SUBSET Stack
      /\ (~Unfed(s) /\ starved = {}) => starved' = {}
  BY <1>1, <1>7 DEF CreateStack, Sends, InProgress, StackInv, Typed
<1>9. Typed' BY <1>2, <1>6, <1>8 DEF StackInv, Typed, SameRun
<1>10. Known' BY <1>3, <1>4, <1>6, <1>8 DEF StackInv, Known, Exists, Settled
<1>11. Ordered'
  <2>. SUFFICES ASSUME ~overlooked PROVE Ordered' BY <1>6 DEF Ordered
  <2>1. ~Unfed(s) /\ \A r \in W : s \in Dependents(r) => status[r] \in Settled
    BY <1>1, <1>5, NeedsAreMet
  <2>2. starved = {} /\ blank = {}
        /\ \A r \in W : \A t \in Dependents(r) :
              Exists(t) => (Exists(r) /\ status[r] # "deleting")
    BY DEF StackInv, Ordered
  <2>3. W \subseteq Stack /\ \A r \in W : Dependents(r) \subseteq W
    BY DEF StackInv, Formed, Valid, Dependents
  <2>4. ASSUME NEW r \in W, NEW t \in Dependents(r), status'[t] # "none"
        PROVE  status'[r] # "none" /\ status'[r] # "deleting"
    <3>1. CASE t = s BY <1>8, <2>1, <2>3, <2>4, <3>1 DEF Settled
    <3>2. CASE t # s
      <4>1. Exists(t) BY <1>8, <2>3, <2>4, <3>2 DEF Exists
      <4>2. status[r] # "none" /\ status[r] # "deleting" BY <2>2, <2>4, <4>1 DEF Exists
      <4>. QED BY <1>8, <2>3, <4>2
    <3>. QED BY <3>1, <3>2
  <2>. QED BY <1>3, <1>6, <1>8, <2>1, <2>2, <2>4 DEF Ordered, Exists
<1>12. Fed'
  <2>1. run'.wf = run.wf BY <1>2 DEF SameRun
  <2>2. W \subseteq Stack BY DEF StackInv, Formed, Valid
  <2>. QED BY <1>1, <1>2, <1>3, <1>4, <1>6, <1>8, <2>1, <2>2 DEF StackInv, Fed
<1>13. Undone' BY <1>3, <1>5 DEF Undone
<1>14. Upgraded'
  <2>1. run.kind = "Upgrade" => s \notin behind BY <1>1 DEF StackInv, Upgraded
  <2>. QED BY <1>2, <1>3, <1>6, <1>8, <2>1 DEF StackInv, Typed, Upgraded, SameRun
<1>. QED BY <1>2, <1>3, <1>9, <1>10, <1>11, <1>12, <1>13, <1>14 DEF StackInv

LEMMA ChangeStep ==
    ASSUME StackInv, NEW b, NEW s, NEW act, NEW new, ChangeStack(b, s, act, new),
           <<act, new>> \in {<<"Update", "updating">>, <<"Upgrade", "upgrading">>}
    PROVE  StackInv'
<1>1. At(b, s) /\ run.wf.type[s] = "Stack" /\ run.wf.action[s] = act /\ s \in Stack
  BY DEF ChangeStack, Called, AtStack, Running, At
<1>2. /\ SameRun /\ run'.wait = run.wait \cup {s} /\ Placed'
      /\ \A r \in W : Passed(r)' <=> Passed(r)
  BY <1>1, WaitsFacts DEF ChangeStack, itemVars
<1>3. /\ W' = W /\ Deletes' = Deletes /\ Formed' /\ Planned'
      /\ \A r : Dependents(r)' = Dependents(r)
  BY <1>2, SamePlan DEF ChangeStack, itemVars
<1>4. s \in W /\ ~Passed(s) BY <1>1, AtFacts
<1>5. ~Deletes /\ act # "Create" BY <1>1 DEF StackInv, Planned
<1>6. UNCHANGED <<made, blank, behind, untagged, files, overlooked>>
  BY DEF ChangeStack, versionVars
<1>7. status \in [Stack -> {"none"} \cup InProgress \cup Broken \cup Settled]
  BY DEF StackInv, Typed
<1>8. /\ status' \in [Stack -> {"none"} \cup InProgress \cup Broken \cup Settled]
      /\ \A r \in Stack \ {s} : status'[r] = status[r]
      /\ status[s] # "none"
      /\ \/ status'[s] = new /\ status[s] # "deleting"
         \/ /\ status'[s] = status[s]
            /\ status[s] \in InProgress \cup {"undeleted"}
                \/ (status[s] \in Settled /\ s \notin untagged)
      /\ starved' \in SUBSET Stack
      /\ (~Unfed(s) /\ starved = {}) => starved' = {}
  <2>1. new \in InProgress BY DEF InProgress
  <2>2. starved \in SUBSET Stack BY DEF StackInv, Typed
  <2>3. status[s] # "none" BY DEF ChangeStack
  <2>4. CASE status[s] \in Settled \cup {"failed"} /\ Sends(s, new)
    <3>1. status' = [status EXCEPT ![s] = new] BY <2>4 DEF Sends
    <3>2. status[s] # "deleting" BY <2>4 DEF Settled
    <3>3. starved' = IF Unfed(s) THEN starved \cup {s} ELSE starved \ {s}
      BY <2>4 DEF Sends
    <3>. QED BY <1>1, <1>7, <2>1, <2>2, <2>3, <3>1, <3>2, <3>3
  <2>5. CASE /\ \/ status[s] \in InProgress \cup {"undeleted"}
                \/ (status[s] \in Settled /\ s \notin untagged /\ Unfed(s) = (s \in blank))
             /\ UNCHANGED <<status, starved>>
    BY <1>7, <2>2, <2>3, <2>5
  <2>. QED BY <2>4, <2>5 DEF ChangeStack
<1>9. Typed' BY <1>2, <1>6, <1>8 DEF StackInv, Typed, SameRun
<1>10. new \in {"updating", "upgrading"} OBVIOUS
<1>11. Known'
  BY <1>3, <1>4, <1>6, <1>8, <1>10 DEF StackInv, Known, Exists, Settled
<1>12. Ordered'
  <2>. SUFFICES ASSUME ~overlooked PROVE Ordered' BY <1>6 DEF Ordered
  <2>1. ~Unfed(s) BY <1>1, <1>5, NeedsAreMet
  <2>2. starved = {} /\ blank = {}
        /\ \A r \in W : \A t \in Dependents(r) :
              Exists(t) => (Exists(r) /\ status[r] # "deleting")
    BY DEF StackInv, Ordered
  <2>3. W \subseteq Stack /\ \A r \in W : Dependents(r) \subseteq W
    BY DEF StackInv, Formed, Valid, Dependents
  <2>4. \A r \in W : /\ status'[r] # "none" <=> status[r] # "none"
                     /\ status'[r] = "deleting" => status[r] = "deleting"
    BY <1>8, <1>10, <2>3
  <2>. QED BY <1>3, <1>6, <1>8, <2>1, <2>2, <2>3, <2>4 DEF Ordered, Exists
<1>13. Fed'
  <2>1. run'.wf = run.wf BY <1>2 DEF SameRun
  <2>2. W \subseteq Stack BY DEF StackInv, Formed, Valid
  <2>. QED BY <1>1, <1>2, <1>3, <1>4, <1>6, <1>8, <2>1, <2>2 DEF StackInv, Fed
<1>14. Undone' BY <1>3, <1>5 DEF Undone
<1>15. Upgraded'
  <2>. SUFFICES ASSUME run.kind = "Upgrade", NEW r \in behind
                PROVE  /\ r \in W /\ r \in untagged /\ run.wf.action[r] = "Upgrade"
                       /\ status'[r] \in {"complete", "upgrading", "rollback", "failed"}
                       /\ r \in run.wait \cup {s} => status'[r] # "complete"
                       /\ Passed(r) => status'[r] = "rollback"
    BY <1>2, <1>3, <1>6 DEF StackInv, Typed, Upgraded, SameRun
  <2>1. /\ r \in W /\ r \in untagged /\ run.wf.action[r] = "Upgrade"
        /\ status[r] \in {"complete", "upgrading", "rollback", "failed"}
        /\ r \in run.wait => status[r] # "complete"
        /\ Passed(r) => status[r] = "rollback"
    BY DEF StackInv, Upgraded
  <2>2. r \in Stack BY DEF StackInv, Typed
  <2>3. CASE r # s BY <1>8, <2>1, <2>2, <2>3
  <2>4. CASE r = s
    <3>1. new = "upgrading" BY <1>1, <2>1, <2>4
    <3>2. status'[s] = "upgrading" \/ (status'[s] = status[s] /\ status[s] \in InProgress)
      BY <1>8, <2>1, <2>4, <3>1
    <3>. QED BY <1>4, <2>1, <2>4, <3>2 DEF InProgress
  <2>. QED BY <2>3, <2>4
<1>. QED BY <1>2, <1>3, <1>9, <1>11, <1>12, <1>13, <1>14, <1>15 DEF StackInv

LEMMA DeleteStep ==
    ASSUME StackInv, NEW b, NEW s, DeleteStack(b, s)
    PROVE  StackInv'
<1>1. At(b, s) /\ run.wf.type[s] = "Stack" /\ run.wf.action[s] = "Delete" /\ s \in Stack
  BY DEF DeleteStack, Called, AtStack, Running, At
<1>2. UNCHANGED <<saved, made, starved, blank, behind, untagged, files, overlooked>>
  BY DEF DeleteStack, versionVars, itemVars
<1>3. /\ SameRun /\ Placed'
      /\ \/ /\ status[s] = "none" /\ status' = status
            /\ run'.wait = run.wait \ {s}
            /\ \A r \in W : Passed(r)' <=> (Passed(r) \/ r = s)
         \/ /\ status[s] # "none" /\ status' = [status EXCEPT ![s] = "deleting"]
            /\ run'.wait = run.wait \cup {s}
            /\ \A r \in W : Passed(r)' <=> Passed(r)
  <2>1. CASE status[s] = "none"
    <3>1. Proceeds(b) /\ status' = status BY <2>1 DEF DeleteStack
    <3>. QED BY <1>1, <1>2, <2>1, <3>1, ProceedsFacts
  <2>2. CASE status[s] # "none"
    <3>1. Waits(s) /\ status' = [status EXCEPT ![s] = "deleting"]
      BY <2>2 DEF DeleteStack
    <3>. QED BY <1>1, <1>2, <2>2, <3>1, WaitsFacts
  <2>. QED BY <2>1, <2>2
<1>4. /\ W' = W /\ Deletes' = Deletes /\ Formed' /\ Planned'
      /\ \A r : Dependents(r)' = Dependents(r)
  BY <1>2, <1>3, SamePlan
<1>5. s \in W /\ ~Passed(s) BY <1>1, AtFacts
<1>6. Deletes BY <1>1 DEF StackInv, Planned
<1>7. status \in [Stack -> {"none"} \cup InProgress \cup Broken \cup Settled]
  BY DEF StackInv, Typed
<1>8. /\ status' \in [Stack -> {"none"} \cup InProgress \cup Broken \cup Settled]
      /\ \A r \in Stack \ {s} : status'[r] = status[r]
      /\ status'[s] = IF status[s] = "none" THEN "none" ELSE "deleting"
  BY <1>1, <1>3, <1>7 DEF InProgress
<1>9. W \subseteq Stack /\ \A r \in W : Dependents(r) \subseteq W
  BY DEF StackInv, Formed, Valid, Dependents
<1>10. Typed' BY <1>2, <1>3, <1>8 DEF StackInv, Typed, SameRun
<1>11. Known' BY <1>2, <1>4, <1>5, <1>8 DEF StackInv, Known, Exists, Settled
<1>12. \A r \in W : Passed(r) => ~Exists(r) BY <1>6 DEF StackInv, Undone
<1>13. Ordered'
  <2>. SUFFICES ASSUME ~overlooked PROVE Ordered' BY <1>2 DEF Ordered
  <2>1. starved = {} /\ blank = {}
        /\ \A r \in W : \A t \in Dependents(r) :
              Exists(t) => (Exists(r) /\ status[r] # "deleting")
    BY DEF StackInv, Ordered
  <2>2. \A t \in Dependents(s) : status[t] = "none" /\ t # s
    BY <1>1, <1>5, <1>6, <1>9, <1>12, AtFacts DEF Exists
  <2>3. ASSUME NEW r \in W, NEW t \in Dependents(r), status'[t] # "none"
        PROVE  status'[r] # "none" /\ status'[r] # "deleting"
    <3>1. t \in Stack /\ r \in Stack BY <1>9, <2>3
    <3>2. r # s BY <1>8, <2>2, <2>3, <3>1
    <3>3. status[t] # "none" BY <1>8, <2>3, <3>1
    <3>4. status[r] # "none" /\ status[r] # "deleting" BY <2>1, <2>3, <3>3 DEF Exists
    <3>. QED BY <1>8, <3>1, <3>2, <3>4
  <2>. QED BY <1>2, <1>4, <2>1, <2>3 DEF Ordered, Exists
<1>14. Fed' BY <1>4, <1>6 DEF Fed
<1>15. Undone'
  <2>1. \A r \in W : Passed(r)' => status'[r] = "none"
    BY <1>3, <1>5, <1>8, <1>9, <1>12 DEF Exists
  <2>2. run.wait \in SUBSET Stack BY RunFields DEF StackInv, Typed
  <2>3. \A r \in run'.wait : status'[r] \in {"deleting", "none", "undeleted"}
    BY <1>3, <1>6, <1>8, <2>2 DEF StackInv, Undone
  <2>. QED BY <1>4, <2>1, <2>3 DEF Undone, Exists
<1>16. Upgraded' BY <1>3, <1>6 DEF Upgraded, SameRun, Deletes
<1>. QED BY <1>3, <1>4, <1>10, <1>11, <1>13, <1>14, <1>15, <1>16 DEF StackInv

\* The execution fails, or the end of its root is noticed, or it is given up.
LEMMA RestStep ==
    ASSUME StackInv, SameRun, Placed', \A r \in W : Passed(r)' <=> Passed(r),
           run'.wait \subseteq run.wait,
           UNCHANGED <<saved, status, made, starved, blank, behind, untagged, files,
                       overlooked>>
    PROVE  StackInv'
<1>1. /\ W' = W /\ Deletes' = Deletes /\ Formed' /\ Planned'
      /\ \A r : Dependents(r)' = Dependents(r)
  BY SamePlan
<1>2. Typed' BY DEF StackInv, Typed, SameRun
<1>3. Known' BY <1>1 DEF StackInv, Known, Exists
<1>4. Ordered' BY <1>1 DEF StackInv, Ordered, Exists
<1>5. Fed' BY <1>1 DEF StackInv, Fed, SameRun
<1>6. Undone' BY <1>1 DEF StackInv, Undone, Exists
<1>7. Upgraded' BY <1>1 DEF StackInv, Typed, Upgraded, SameRun
<1>. QED BY <1>1, <1>2, <1>3, <1>4, <1>5, <1>6, <1>7 DEF StackInv

LEMMA EndsStep ==
    ASSUME StackInv, Breaks \/ Succeeds \/ \E b, s : CallFails(b, s)
    PROVE  StackInv'
<1>1. UNCHANGED <<saved, status, made, starved, blank, behind, untagged, files, overlooked>>
  BY DEF Breaks, Succeeds, CallFails, itemVars, stackVars, versionVars
<1>2. CASE RunFails /\ run.status = "RUNNING"
  BY <1>1, <1>2, RunFailsFacts, RestStep
<1>3. CASE Succeeds
  <2>1. run \in RunRecord BY DEF StackInv, Typed
  <2>2. /\ run' \in RunRecord /\ run'.at = run.at /\ run'.wait = run.wait
        /\ run'.kind = run.kind /\ run'.wf = run.wf /\ run'.status = "SUCCEEDED"
    BY <1>3, <2>1 DEF Succeeds, RunRecord
  <2>3. SameRun BY <2>2 DEF SameRun
  <2>4. W' = W /\ Deletes' = Deletes BY <1>1, <2>3, SamePlan
  <2>5. run.status = "RUNNING" /\ "root" \in DOMAIN run.at /\ run.at["root"] = End
    BY <1>3 DEF Succeeds, Running
  <2>6. Placed' BY <2>2, <2>4, <2>5 DEF StackInv, Placed, Others
  <2>7. \A r \in W : Passed(r)' <=> Passed(r) BY <2>2, <2>4 DEF Passed
  <2>. QED BY <1>1, <2>2, <2>3, <2>6, <2>7, RestStep
<1>. QED BY <1>2, <1>3 DEF Breaks, CallFails, Called, AtStack, Running

\* The branches begin, or have all ended.
LEMMA ParallelStep ==
    ASSUME StackInv, Enter \/ Join
    PROVE  StackInv'
<1>1. UNCHANGED <<saved, status, made, starved, blank, behind, untagged, files, overlooked>>
  BY DEF Enter, Join, itemVars, stackVars, versionVars
<1>2. W \in SUBSET Stack BY DEF StackInv, Formed, Valid
<1>3. /\ run.status = "RUNNING" /\ "root" \in DOMAIN run.at
      /\ run.at["root"] = PipelineStacks
  BY DEF Enter, Join, Running
<1>4. DOMAIN run.at = DOMAIN run.wf.branch BY <1>3 DEF StackInv, Placed
<1>5. Deletes \in BOOLEAN BY DEF Deletes
<1>6. \A b \in DOMAIN run.at :
        b \in Branch /\ Leads(run.wf.branch[b], Chain(b, W), Deletes)
        /\ Chain(b, W) \in SUBSET Members[b] /\ Chain(b, W) \subseteq State
  BY <1>2, <1>4, <1>5, PlanLeads, ChainIs DEF StackInv, Planned
<1>7. run \in RunRecord /\ run.at \in [DOMAIN run.at -> Place]
  BY RunFields DEF StackInv, Typed
<1>8. PICK at \in [DOMAIN run.at -> Place] :
        /\ run' = [run EXCEPT !.at = at]
        /\ \A b \in DOMAIN run.at : at[b] \in Chain(b, W) \cup {"none", End}
        /\ at["root"] # "none"
        /\ at["root"] # PipelineStacks =>
             \A b \in Others : at[b] = IF Reached(Deletes, at["root"], PipelineStacks)
                                       THEN End ELSE "none"
        /\ \A b \in DOMAIN run.at : \A r \in Chain(b, W) \ {PipelineStacks} :
             Reached(Deletes, at[b], r) <=> Reached(Deletes, run.at[b], r)
  <2>1. CASE Enter
    <3>1. PICK at : at = [b \in DOMAIN run.at |->
              IF b = "root" THEN PipelineStacks ELSE run.wf.branch[b].start]
      OBVIOUS
    <3>2. run' = [run EXCEPT !.at = at] BY <1>7, <2>1, <3>1 DEF Enter, RunRecord
    <3>3. PipelineStacks \in Chain("root", W) BY <1>2, ChainOfStack
    <3>4. \A b \in DOMAIN run.at : b # "root" =>
             /\ run.wf.branch[b].start \in Chain(b, W)
             /\ \A r \in Chain(b, W) : ~Reached(Deletes, run.wf.branch[b].start, r)
      BY <1>6 DEF Leads
    <3>5. \A b \in DOMAIN run.at : b # "root" => run.at[b] = "none"
      BY <2>1 DEF Enter, Others
    <3>6. ASSUME NEW b \in DOMAIN run.at
          PROVE  at[b] \in Chain(b, W) /\ at[b] \in Place
      BY <1>6, <3>1, <3>3, <3>4 DEF Place
    <3>7. ASSUME NEW b \in DOMAIN run.at, NEW r \in Chain(b, W)
          PROVE  Reached(Deletes, at[b], r) <=> Reached(Deletes, run.at[b], r)
      <4>1. ~Reached(Deletes, "none", r) BY StatesDiffer DEF Reached
      <4>. QED BY <1>3, <3>1, <3>4, <3>5, <4>1
    <3>8. at \in [DOMAIN run.at -> Place] BY <3>1, <3>6
    <3>9. at["root"] = PipelineStacks BY <1>3, <3>1
    <3>10. PipelineStacks # "none" BY DEF PipelineStacks
    <3>. QED BY <3>2, <3>6, <3>7, <3>8, <3>9, <3>10
  <2>2. CASE Join
    <3>1. PICK n : n = run.wf.branch["root"].next[PipelineStacks] OBVIOUS
    <3>2. PICK at : at = [run.at EXCEPT !["root"] = n] OBVIOUS
    <3>3. run' = [run EXCEPT !.at = at] BY <1>7, <2>2, <3>1, <3>2 DEF Join, RunRecord
    <3>4. PipelineStacks \in Chain("root", W) BY <1>2, ChainOfStack
    <3>5. n \in Chain("root", W) \cup {End}
          /\ \A r \in Chain("root", W) :
               Reached(Deletes, n, r) <=>
                 (Reached(Deletes, PipelineStacks, r) \/ r = PipelineStacks)
      BY <1>3, <1>6, <3>1, <3>4 DEF Leads
    <3>6. Reached(Deletes, n, PipelineStacks) BY <3>4, <3>5
    <3>7. n \in Place /\ n # "none" BY <1>3, <1>6, <3>5, StatesDiffer DEF Place
    <3>8. /\ at \in [DOMAIN run.at -> Place] /\ at["root"] = n
          /\ \A b \in DOMAIN run.at : b # "root" => at[b] = run.at[b]
      BY <1>3, <1>7, <3>2, <3>7
    <3>9. \A b \in Others : at[b] = End BY <2>2, <3>8 DEF Join, Others
    <3>10. \A b \in DOMAIN run.at : at[b] \in Chain(b, W) \cup {"none", End}
      BY <1>3, <3>5, <3>8 DEF StackInv, Placed
    <3>11. \A b \in DOMAIN run.at : \A r \in Chain(b, W) \ {PipelineStacks} :
             Reached(Deletes, at[b], r) <=> Reached(Deletes, run.at[b], r)
      BY <1>3, <3>5, <3>8
    <3>. QED BY <3>3, <3>6, <3>7, <3>8, <3>9, <3>10, <3>11
  <2>. QED BY <2>1, <2>2
<1>9. /\ run' \in RunRecord /\ run'.at = at /\ run'.wait = run.wait
      /\ run'.kind = run.kind /\ run'.wf = run.wf /\ run'.status = run.status
  <2>1. at \in UNION {[D -> Place] : D \in SUBSET Branch} BY <1>6
  <2>. QED BY <1>7, <1>8, <2>1 DEF RunRecord
<1>10. SameRun BY <1>9 DEF SameRun
<1>11. W' = W /\ Deletes' = Deletes BY <1>1, <1>10, SamePlan
<1>12. DOMAIN at = DOMAIN run.at BY <1>7
<1>13. Placed'
  BY <1>3, <1>4, <1>8, <1>9, <1>11, <1>12 DEF Placed, Others
<1>14. ASSUME NEW r \in W PROVE Passed(r)' <=> Passed(r)
  <2>1. r # PipelineStacks /\ r \in Stack BY <1>2, StatesDiffer
  <2>2. \A b \in DOMAIN run.at : r \in Members[b] => r \in Chain(b, W)
    BY <1>6 DEF Chain
  <2>3. Passed(r)' <=> \E b \in DOMAIN run.at : r \in Members[b] /\ Reached(Deletes, at[b], r)
    BY <1>9, <1>11, <1>12 DEF Passed
  <2>. QED BY <1>8, <2>1, <2>2, <2>3 DEF Passed
<1>. QED BY <1>1, <1>9, <1>10, <1>13, <1>14, RestStep

\* A stack is no longer in progress.
LEMMA FinishStep ==
    ASSUME StackInv, NEW b, NEW s, Finish(b, s)
    PROVE  StackInv'
<1>1. At(b, s) /\ run.wf.type[s] = "Stack" /\ s \in Stack /\ s \in run.wait
      /\ status[s] \notin InProgress
  BY DEF Finish, AtStack, Running, At
<1>2. UNCHANGED <<saved, status, made, starved, blank, behind, untagged, overlooked>>
  BY DEF Finish, itemVars, stackVars, versionVars
<1>3. PICK S \in SUBSET {s} :
        /\ SameRun /\ Placed' /\ run'.wait \subseteq run.wait
        /\ \A r \in W : Passed(r)' <=> (Passed(r) \/ r \in S)
        /\ s \in S => (status[s] \in Settled
                         \/ (status[s] = "none" /\ run.wf.action[s] = "Delete"))
  <2>1. CASE /\ Proceeds(b)
             /\ status[s] \in Settled \/ (status[s] = "none" /\ run.wf.action[s] = "Delete")
    <3>1. /\ SameRun /\ run'.wait = run.wait \ {s} /\ Placed'
          /\ \A r \in W : Passed(r)' <=> (Passed(r) \/ r = s)
      BY <1>1, <1>2, <2>1, ProceedsFacts
    <3>2. run'.wait \subseteq run.wait BY <3>1
    <3>. QED BY <2>1, <3>1, <3>2
  <2>2. CASE RunFails
    <3>1. /\ SameRun /\ run'.wait = {} /\ Placed'
          /\ \A r \in W : Passed(r)' <=> Passed(r)
      BY <1>1, <1>2, <2>2, RunFailsFacts DEF At
    <3>. QED BY <3>1
  <2>. QED BY <2>1, <2>2 DEF Finish
<1>4. /\ W' = W /\ Deletes' = Deletes /\ Formed' /\ Planned'
      /\ \A r : Dependents(r)' = Dependents(r)
  BY <1>2, <1>3, SamePlan
<1>5. s \in W /\ ~Passed(s) BY <1>1, AtFacts
<1>6. /\ files' \in [Execution -> SUBSET Stack]
      /\ \A r : r # s => (r \in files'[run.wf.prefix] <=> r \in files[run.wf.prefix])
      /\ (status[s] \in Settled) => s \in files'[run.wf.prefix]
  <2>1. (status[s] \in Settled) => (s \in made /\ status[s] # "none")
    BY <1>1 DEF StackInv, Known, Settled
  <2>2. CASE files' = files /\ status[s] = "none"
    BY <2>1, <2>2 DEF StackInv, Typed
  <2>3. CASE Written(s, s \in made)
    <3>1. s \in made => Written(s, TRUE) BY <2>3 DEF Written
    <3>2. s \notin made => Written(s, FALSE) BY <2>3 DEF Written
    <3>. QED BY <1>1, <2>1, <3>1, <3>2, WrittenFacts
  <2>. QED BY <2>2, <2>3 DEF Finish
<1>7. Typed' BY <1>2, <1>3, <1>6 DEF StackInv, Typed, SameRun
<1>8. Known' BY <1>2, <1>4 DEF StackInv, Known, Exists
<1>9. Ordered' BY <1>2, <1>4 DEF StackInv, Ordered, Exists
<1>10. run'.wf = run.wf BY <1>3 DEF SameRun
<1>11. Fed'
  <2>. SUFFICES ASSUME ~overlooked, ~Deletes PROVE Fed' BY <1>2, <1>4 DEF Fed
  <2>1. run.wf.action[s] # "Delete" BY <1>1 DEF StackInv, Planned
  <2>2. s \in S => (status[s] \in Settled /\ s \in files'[run.wf.prefix])
    BY <1>3, <1>6, <2>1
  <2>3. /\ \A r \in W : run.wf.type[r] = "Pass" => status[r] \in Settled
        /\ \A r \in W : Passed(r) => (status[r] \in Settled /\ r \in files[run.wf.prefix])
    BY DEF StackInv, Fed
  <2>4. \A r \in W : Passed(r)' => (status[r] \in Settled /\ r \in files'[run.wf.prefix])
    BY <1>3, <1>5, <1>6, <2>2, <2>3
  <2>. QED BY <1>2, <1>4, <1>10, <2>3, <2>4 DEF Fed
<1>12. Undone'
  <2>. SUFFICES ASSUME Deletes PROVE Undone' BY <1>4 DEF Undone
  <2>1. /\ \A r \in W : Passed(r) => ~Exists(r)
        /\ \A r \in run.wait : status[r] \in {"deleting", "none", "undeleted"}
    BY DEF StackInv, Undone
  <2>2. s \in S => status[s] = "none" BY <1>1, <1>3, <2>1 DEF Settled
  <2>. QED BY <1>2, <1>3, <1>4, <2>1, <2>2 DEF Undone, Exists
<1>13. Upgraded'
  <2>. SUFFICES ASSUME run.kind = "Upgrade" PROVE Upgraded'
    BY <1>3 DEF Upgraded, SameRun
  <2>1. run.wf.action[s] # "Delete" BY <1>1 DEF StackInv, Planned, Deletes
  <2>2. s \in S => status[s] \in Settled BY <1>3, <2>1
  <2>3. \A r \in behind :
            /\ r \in W /\ r \in untagged /\ run.wf.action[r] = "Upgrade"
            /\ status[r] \in {"complete", "upgrading", "rollback", "failed"}
            /\ r \in run.wait => status[r] # "complete"
            /\ Passed(r) => status[r] = "rollback"
    BY DEF StackInv, Upgraded
  <2>4. \A r \in behind : Passed(r)' => status[r] = "rollback"
    BY <1>1, <1>3, <2>2, <2>3 DEF Settled
  <2>. QED BY <1>2, <1>3, <1>4, <1>10, <2>3, <2>4 DEF Upgraded
<1>. QED BY <1>3, <1>4, <1>7, <1>8, <1>9, <1>11, <1>12, <1>13 DEF StackInv

-----------------------------------------------------------------------------
(* CloudFormation.                                                         *)

\* A stack in progress is of the workflow, and was not passed.
LEMMA InProgressFacts ==
    ASSUME StackInv, NEW s \in Stack, status[s] \in InProgress
    PROVE  /\ s \in W
           /\ ~overlooked => (Deletes \/ (~Passed(s) /\ run.wf.type[s] # "Pass"))
           /\ Deletes => ~Passed(s)
<1>1. status[s] # "none" /\ status[s] \notin Settled BY DEF InProgress, Settled
<1>2. s \in W BY <1>1 DEF StackInv, Known, Exists
<1>. QED BY <1>1, <1>2 DEF StackInv, Fed, Undone, Exists

LEMMA StackStep ==
    ASSUME StackInv, NEW s \in Stack, StackDone(s) \/ StackFails(s)
    PROVE  StackInv'
<1>1. UNCHANGED <<saved, run, starved, files, overlooked>> /\ status[s] \in InProgress
  BY DEF StackDone, StackFails, itemVars
<1>2. SameRun BY <1>1 DEF SameRun, StackInv, Typed
<1>3. /\ W' = W /\ Deletes' = Deletes /\ Formed' /\ Planned'
      /\ \A r : Dependents(r)' = Dependents(r)
  BY <1>1, <1>2, SamePlan
<1>4. Placed' BY <1>1, <1>3 DEF StackInv, Placed, Others
<1>5. \A r \in W : Passed(r)' <=> Passed(r) BY <1>1, <1>3 DEF Passed
<1>6. /\ s \in W
      /\ ~overlooked => (Deletes \/ (~Passed(s) /\ run.wf.type[s] # "Pass"))
      /\ Deletes => ~Passed(s)
  BY <1>1, InProgressFacts
<1>7. /\ status \in [Stack -> {"none"} \cup InProgress \cup Broken \cup Settled]
      /\ made \subseteq Stack /\ blank \subseteq Stack /\ starved \subseteq Stack
      /\ behind \subseteq Stack /\ untagged \subseteq Stack
  BY DEF StackInv, Typed
<1>. DEFINE Becomes(new) ==
        /\ status' = [status EXCEPT ![s] = new]
        /\ new \in {"none", "complete", "undeleted", "rollback", "failed"}
        /\ new \in {"none", "undeleted"} => status[s] = "deleting"
        /\ status[s] = "deleting" => new \in {"none", "undeleted"}
        /\ new \in {"none", "complete"} => StackDone(s)
        /\ new = "rollback" => (s \in made /\ made' = made)
<1>8. PICK new : Becomes(new)
  <2>1. CASE StackDone(s) /\ status[s] = "deleting"
    <3>1. Becomes("none") BY <1>7, <2>1 DEF StackDone
    <3>. QED BY ONLY <3>1
  <2>2. CASE StackDone(s) /\ status[s] # "deleting"
    <3>1. Becomes("complete") BY <1>7, <2>2 DEF StackDone
    <3>. QED BY ONLY <3>1
  <2>3. CASE StackFails(s) /\ status[s] = "deleting"
    <3>1. Becomes("undeleted") BY <1>7, <2>3 DEF StackFails
    <3>. QED BY ONLY <3>1
  <2>4. CASE StackFails(s) /\ status[s] \in {"updating", "upgrading"} /\ s \in made
    <3>1. made' = made BY <2>4 DEF StackFails
    <3>2. Becomes("rollback") BY <1>7, <2>4, <3>1 DEF StackFails
    <3>. QED BY ONLY <3>2
  <2>5. CASE /\ StackFails(s) /\ status[s] # "deleting"
             /\ ~(status[s] \in {"updating", "upgrading"} /\ s \in made)
    <3>1. Becomes("failed") BY <1>7, <2>5 DEF StackFails
    <3>. QED BY ONLY <3>1
  <2>. QED BY <2>1, <2>2, <2>3, <2>4, <2>5
<1>9. /\ status' \in [Stack -> {"none"} \cup InProgress \cup Broken \cup Settled]
      /\ status'[s] = new /\ \A r \in Stack \ {s} : status'[r] = status[r]
  BY <1>7, <1>8 DEF Broken, Settled
<1>10. /\ made' \subseteq Stack /\ blank' \subseteq Stack
       /\ behind' \subseteq behind /\ untagged' \subseteq untagged
       /\ untagged \ {s} \subseteq untagged'
       /\ \A r : r # s => (r \in made' <=> r \in made)
       /\ StackDone(s) => (status[s] # "deleting" => s \in made')
       /\ (StackDone(s) /\ status[s] \in {"deleting", "upgrading"}) => s \notin behind'
       /\ ~StackDone(s) => UNCHANGED <<made, blank, behind, untagged>>
       /\ starved = {} => (blank' \subseteq blank)
  <2>1. CASE StackDone(s) /\ status[s] = "deleting"
    <3>1. Removed(s) BY <2>1 DEF StackDone
    <3>. QED BY <1>7, <2>1, <3>1 DEF Removed
  <2>2. CASE StackDone(s) /\ status[s] # "deleting"
    <3>1. /\ made' = made \cup {s} /\ Deployed(s) /\ untagged' = untagged \ {s}
          /\ behind' = IF status[s] = "upgrading" THEN behind \ {s} ELSE behind
      BY <2>2 DEF StackDone
    <3>. QED BY <1>7, <2>2, <3>1 DEF Deployed
  <2>3. CASE ~StackDone(s)
    <3>1. UNCHANGED <<made, blank, behind, untagged>>
      BY <2>3 DEF StackFails, versionVars
    <3>. QED BY <1>7, <2>3, <3>1
  <2>. QED BY <2>1, <2>2, <2>3
<1>11. Typed' BY <1>1, <1>7, <1>9, <1>10 DEF StackInv, Typed
<1>12. Known'
  <2>1. \A r \in Stack \ W : status'[r] = "none"
    BY <1>6, <1>9 DEF StackInv, Known, Exists
  <2>2. new \in Settled => s \in made' BY <1>8, <1>10 DEF Settled
  <2>3. \A r \in Stack : status'[r] \in Settled => r \in made'
    BY <1>9, <1>10, <2>2 DEF StackInv, Known
  <2>. QED BY <1>3, <2>1, <2>3 DEF Known, Exists
<1>13. W \subseteq Stack /\ \A r \in W : Dependents(r) \subseteq W
  BY DEF StackInv, Formed, Valid, Dependents
<1>14. Ordered'
  <2>. SUFFICES ASSUME ~overlooked PROVE Ordered' BY <1>1 DEF Ordered
  <2>1. starved = {} /\ blank = {}
        /\ \A r \in W : \A t \in Dependents(r) :
              Exists(t) => (Exists(r) /\ status[r] # "deleting")
    BY DEF StackInv, Ordered
  <2>2. status[s] # "none" BY <1>1 DEF InProgress
  <2>3. ASSUME NEW r \in W, NEW t \in Dependents(r), status'[t] # "none"
        PROVE  status'[r] # "none" /\ status'[r] # "deleting"
    <3>1. t \in Stack /\ r \in Stack BY <1>13, <2>3
    <3>2. status[t] # "none" BY <1>9, <2>2, <2>3, <3>1
    <3>3. status[r] # "none" /\ status[r] # "deleting" BY <2>1, <2>3, <3>2 DEF Exists
    <3>. QED BY <1>8, <1>9, <3>1, <3>3
  <2>. QED BY <1>1, <1>3, <1>10, <2>1, <2>3 DEF Ordered, Exists
<1>15. Fed'
  <2>. SUFFICES ASSUME ~overlooked, ~Deletes PROVE Fed' BY <1>1, <1>3 DEF Fed
  <2>. QED BY <1>1, <1>3, <1>5, <1>6, <1>9, <1>13 DEF StackInv, Fed
<1>16. Undone'
  <2>. SUFFICES ASSUME Deletes PROVE Undone' BY <1>3 DEF Undone
  <2>1. /\ \A r \in W : Passed(r) => status[r] = "none"
        /\ \A r \in run.wait : status[r] \in {"deleting", "none", "undeleted"}
    BY DEF StackInv, Undone, Exists
  <2>2. s \in run.wait => new \in {"none", "undeleted"}
    BY <1>1, <1>8, <2>1 DEF InProgress
  <2>3. run.wait \subseteq Stack BY RunFields DEF StackInv, Typed
  <2>. QED BY <1>1, <1>3, <1>5, <1>6, <1>9, <1>13, <2>1, <2>2, <2>3 DEF Undone, Exists
<1>17. Upgraded'
  <2>. SUFFICES ASSUME run.kind = "Upgrade", NEW r \in behind'
                PROVE  /\ r \in W /\ r \in untagged' /\ run.wf.action[r] = "Upgrade"
                       /\ status'[r] \in {"complete", "upgrading", "rollback", "failed"}
                       /\ r \in run.wait => status'[r] # "complete"
                       /\ Passed(r) => status'[r] = "rollback"
    BY <1>1, <1>3, <1>5 DEF Upgraded
  <2>1. r \in behind BY <1>10
  <2>2. /\ r \in W /\ r \in untagged /\ run.wf.action[r] = "Upgrade"
        /\ status[r] \in {"complete", "upgrading", "rollback", "failed"}
        /\ r \in run.wait => status[r] # "complete"
        /\ Passed(r) => status[r] = "rollback"
    BY <2>1 DEF StackInv, Upgraded
  <2>3. CASE r # s BY <1>9, <1>10, <1>13, <2>2, <2>3
  <2>4. CASE r = s
    <3>1. status[s] = "upgrading" BY <1>1, <2>2, <2>4 DEF InProgress
    <3>2. ~StackDone(s) BY <1>10, <2>4, <3>1
    <3>3. new \in {"rollback", "failed"} /\ UNCHANGED untagged
      BY <1>8, <1>10, <3>1, <3>2
    <3>. QED BY <1>9, <2>2, <2>4, <3>1, <3>3
  <2>. QED BY <2>3, <2>4
<1>. QED BY <1>3, <1>4, <1>11, <1>12, <1>14, <1>15, <1>16, <1>17 DEF StackInv

-----------------------------------------------------------------------------
(* Requests.                                                               *)

Kind == {"Create", "UpdateApp", "Update", "Upgrade", "Delete", "Retry"}

LEMMA SavedFacts ==
    ASSUME StackInv
    PROVE  /\ saved \in Workflow /\ saved.branch = Branches(W) /\ Valid(W)
           /\ W \in SUBSET Stack /\ saved.prefix \in Execution
           /\ saved.type = [s \in Stack |-> "Stack"]
           /\ saved.action = [s \in Stack |-> "Create"]
<1>1. Valid(W) /\ saved = Generated(W, saved.prefix) /\ saved.prefix \in Execution
  BY DEF StackInv, Formed
<1>2. PICK prefix \in Execution : prefix = saved.prefix BY <1>1
<1>3. saved = [branch |-> Branches(W), type |-> [s \in Stack |-> "Stack"],
               action |-> [s \in Stack |-> "Create"], prefix |-> prefix]
  BY <1>1, <1>2 DEF Generated, Branches
<1>4. W \in SUBSET Stack BY <1>1 DEF Valid
<1>5. Branches(W) \in BranchMap BY <1>4 DEF BranchMap
<1>6. saved \in Workflow BY <1>3, <1>5 DEF Workflow
<1>. QED BY <1>1, <1>3, <1>4, <1>6

\* A request begins an execution that has passed nothing, of a workflow through
\* the stacks of the saved one.
LEMMA BeginsStep ==
    ASSUME StackInv, NEW kind \in Kind, NEW wf \in Workflow, Begins(kind, wf),
           run.number \in 0 .. MaxExec - 1,
           Formed', W \subseteq W', W' \ W \subseteq {"Reporting"},
           wf.branch = IF kind = "Delete" THEN Turned(W') ELSE Branches(W'),
           \A s \in Stack : kind = "Delete" <=> wf.action[s] = "Delete",
           kind \in {"Delete", "Upgrade"} => \A s \in Stack : wf.type[s] = "Stack",
           ~Overlooks(kind, wf) /\ kind # "Delete" =>
               \A s \in W' : wf.type[s] = "Pass" => status[s] \in Settled,
           behind' \subseteq Stack, untagged' \subseteq Stack,
           kind = "Upgrade" =>
               \A s \in behind' : /\ s \in W' /\ s \in untagged'
                                  /\ wf.action[s] = "Upgrade" /\ status[s] = "complete"
    PROVE  StackInv'
<1>1. PICK at : at = [b \in DOMAIN wf.branch |->
                        IF b = "root" THEN wf.branch[b].start ELSE "none"]
  OBVIOUS
<1>2. run' = [number |-> run.number + 1, kind |-> kind, status |-> "RUNNING",
              wf |-> wf, wait |-> {}, at |-> at]
  BY <1>1 DEF Begins
<1>3. /\ UNCHANGED <<status, made, starved, blank, files>>
      /\ overlooked' \in BOOLEAN
      /\ ~overlooked' => (~overlooked /\ ~Overlooks(kind, wf))
  BY DEF Begins, StackInv, Typed
<1>4. W' \in SUBSET Stack /\ Valid(W') BY DEF Formed, Valid
<1>5. PICK del \in BOOLEAN : del = (kind = "Delete") OBVIOUS
<1>6. /\ run'.number = run.number + 1 /\ run'.kind = kind /\ run'.status = "RUNNING"
      /\ run'.wf = wf /\ run'.wait = {} /\ run'.at = at
  BY <1>2
<1>7. Deletes' = del BY <1>5, <1>6 DEF Deletes
<1>8. ASSUME NEW b \in DOMAIN wf.branch
      PROVE  /\ b \in Branch /\ Chain(b, W') \subseteq State
             /\ wf.branch[b].start \in Chain(b, W')
             /\ \A r \in Chain(b, W') : ~Reached(del, wf.branch[b].start, r)
  <2>1. b \in Branch /\ Chain(b, W') # {} /\ Leads(wf.branch[b], Chain(b, W'), del)
    BY <1>4, <1>5, PlanLeads
  <2>. QED BY <1>4, <2>1, ChainIs DEF Leads
<1>9. /\ DOMAIN at = DOMAIN wf.branch
      /\ \A b \in DOMAIN at : at[b] = IF b = "root" THEN wf.branch[b].start ELSE "none"
  BY <1>1
<1>10. "root" \in DOMAIN wf.branch BY <1>4, BranchesAre
<1>11. at \in [DOMAIN at -> Place] /\ DOMAIN at \in SUBSET Branch
  <2>1. \A b \in DOMAIN at : b \in Branch /\ at[b] \in Place
    BY <1>8, <1>9 DEF Place
  <2>. QED BY <1>1, <1>9, <2>1
<1>12. run' \in RunRecord
  <2>1. run.number + 1 \in 0 .. MaxExec BY StackWorkflowAssumption
  <2>2. at \in UNION {[D -> Place] : D \in SUBSET Branch} BY <1>11
  <2>. QED BY <1>2, <2>1, <2>2 DEF RunRecord, Kind
<1>13. Typed' BY <1>3, <1>12 DEF StackInv, Typed
<1>14. Planned' BY <1>5, <1>6, <1>7 DEF Planned
<1>15. Placed'
  <2>1. \A b \in DOMAIN at : at[b] \in Chain(b, W') \cup {"none", End}
    BY <1>8, <1>9
  <2>2. at["root"] \in Chain("root", W') /\ at["root"] # "none"
    BY <1>8, <1>9, <1>10, StatesDiffer
  <2>3. PipelineStacks \in Chain("root", W') BY <1>4, ChainOfStack
  <2>4. ~Reached(del, at["root"], PipelineStacks) BY <1>8, <1>9, <1>10, <2>3
  <2>5. \A b \in (DOMAIN at) \ {"root"} : at[b] = "none" BY <1>9
  <2>. QED BY <1>6, <1>7, <1>9, <2>1, <2>2, <2>4, <2>5 DEF Placed, Others
<1>16. \A s \in W' : ~Passed(s)'
  <2>1. ASSUME NEW s \in W', NEW b \in DOMAIN at, s \in Members[b], Reached(del, at[b], s)
        PROVE  FALSE
    <3>1. s \in Chain(b, W') BY <2>1 DEF Chain
    <3>2. at[b] # "none" BY <1>4, <2>1, StatesDiffer DEF Reached
    <3>. QED BY <1>8, <1>9, <2>1, <3>1, <3>2
  <2>. QED BY <1>6, <1>7, <2>1 DEF Passed
<1>17. Known' BY <1>3 DEF StackInv, Known, Exists
<1>18. Ordered'
  <2>. SUFFICES ASSUME ~overlooked' PROVE Ordered' BY DEF Ordered
  <2>1. starved = {} /\ blank = {}
        /\ \A r \in W : \A t \in Dependents(r) :
              Exists(t) => (Exists(r) /\ status[r] # "deleting")
    BY <1>3 DEF StackInv, Ordered
  <2>2. ASSUME NEW r \in W', NEW t \in Dependents(r)', Exists(t)
        PROVE  Exists(r) /\ status[r] # "deleting"
    <3>1. t \in W' BY <2>2 DEF Dependents
    <3>2. t \in W BY <1>4, <2>2, <3>1 DEF StackInv, Known
    <3>3. Registry \in W BY DEF StackInv, Formed, Valid, Always
    <3>4. r \in W
      <4>1. r = Registry \/ t \in Later(r) BY <2>2 DEF Dependents
      <4>2. Later("Reporting") = {} BY DEF Later, Registry
      <4>. QED BY <3>3, <4>1, <4>2
    <3>5. t \in Dependents(r) BY <2>2, <3>2 DEF Dependents
    <3>. QED BY <2>1, <2>2, <3>4, <3>5
  <2>. QED BY <1>3, <2>1, <2>2 DEF Ordered, Exists
<1>19. Fed' BY <1>3, <1>5, <1>6, <1>7, <1>16 DEF Fed
<1>20. Undone' BY <1>6, <1>16 DEF Undone
<1>21. Upgraded' BY <1>3, <1>6, <1>16 DEF Upgraded
<1>. QED BY <1>13, <1>14, <1>15, <1>17, <1>18, <1>19, <1>20, <1>21 DEF StackInv

LEMMA CreateRequest == ASSUME StackInv, Create PROVE StackInv'
<1>1. /\ saved \in Workflow /\ saved.branch = Branches(W) /\ Valid(W)
      /\ saved.type = [s \in Stack |-> "Stack"] /\ saved.action = [s \in Stack |-> "Create"]
  BY SavedFacts
<1>2. UNCHANGED <<saved, behind, untagged>> /\ Begins("Create", saved) /\ run.number = 0
  BY DEF Create, itemVars, versionVars
<1>3. W' = W BY <1>2 DEF W, StacksOf, States
<1>4. Formed' BY <1>2, <1>3 DEF StackInv, Formed
<1>5. 0 \in 0 .. MaxExec - 1 BY StackWorkflowAssumption
<1>6. \A s \in Stack : saved.type[s] = "Stack" /\ saved.action[s] = "Create" BY <1>1
<1>7. behind' \subseteq Stack /\ untagged' \subseteq Stack BY <1>2 DEF StackInv, Typed
<1>8. \A s \in W : s \in Stack BY <1>1 DEF Valid
<1>. QED BY <1>1, <1>2, <1>3, <1>4, <1>5, <1>6, <1>7, <1>8, BeginsStep DEF Kind

\* What a request that keeps the saved workflow has to show.
LEMMA SameShape ==
    ASSUME StackInv, NEW kind \in Kind \ {"Upgrade"}, NEW wf \in Workflow,
           Begins(kind, wf), run.number \in 1 .. MaxExec - 1,
           UNCHANGED <<saved, behind, untagged>>,
           wf.branch = IF kind = "Delete" THEN Turned(W) ELSE saved.branch,
           \A s \in Stack : kind = "Delete" <=> wf.action[s] = "Delete",
           kind = "Delete" => \A s \in Stack : wf.type[s] = "Stack",
           ~Overlooks(kind, wf) /\ kind # "Delete" =>
               \A s \in W : wf.type[s] = "Pass" => status[s] \in Settled
    PROVE  StackInv'
<1>1. W' = W BY DEF W, StacksOf, States
<1>2. Formed' BY <1>1 DEF StackInv, Formed
<1>3. behind' \subseteq Stack /\ untagged' \subseteq Stack BY DEF StackInv, Typed
<1>4. run.number \in 0 .. MaxExec - 1 BY StackWorkflowAssumption
<1>5. saved.branch = Branches(W) BY SavedFacts
<1>. QED BY <1>1, <1>2, <1>3, <1>4, <1>5, BeginsStep

LEMMA UpdateAppRequest == ASSUME StackInv, UpdateApp PROVE StackInv'
<1>1. /\ saved \in Workflow /\ saved.branch = Branches(W) /\ W \in SUBSET Stack
      /\ saved.type = [s \in Stack |-> "Stack"] /\ saved.action = [s \in Stack |-> "Create"]
  BY SavedFacts
<1>2. PICK wf : wf = AppWorkflow(saved) OBVIOUS
<1>3. PICK type, act :
        /\ type = [s \in Stack |-> IF s \in AppStack THEN "Stack" ELSE "Pass"]
        /\ act = [s \in Stack |-> IF s \in AppStack THEN "Update" ELSE saved.action[s]]
  OBVIOUS
<1>4. wf = [saved EXCEPT !.type = type, !.action = act] BY <1>1, <1>2, <1>3 DEF AppWorkflow, Workflow
<1>5. /\ type \in [Stack -> {"Stack", "Pass"}]
      /\ act \in [Stack -> {"Create", "Update", "Upgrade", "Delete"}]
      /\ \A s \in Stack : act[s] # "Delete"
  BY <1>1, <1>3
<1>6. wf \in Workflow /\ wf.branch = saved.branch /\ wf.type = type /\ wf.action = act
  BY <1>1, <1>4, <1>5 DEF Workflow
<1>7. StacksOf(wf) = W BY <1>1, <1>6, StacksOfShape
<1>8. ~Overlooks("UpdateApp", wf) => \A s \in W : wf.type[s] = "Pass" => status[s] \in Settled
  BY <1>7 DEF Overlooks
<1>9. /\ Begins("UpdateApp", wf) /\ UNCHANGED <<saved, behind, untagged>>
      /\ run.number \in 1 .. MaxExec - 1
  BY <1>2 DEF UpdateApp, Requested, versionVars
<1>. QED BY <1>5, <1>6, <1>8, <1>9, SameShape DEF Kind

LEMMA DeleteRequest == ASSUME StackInv, Delete PROVE StackInv'
<1>1. /\ saved \in Workflow /\ saved.branch = Branches(W) /\ W \in SUBSET Stack
      /\ saved.type = [s \in Stack |-> "Stack"]
  BY SavedFacts
<1>2. PICK wf : wf = DeleteWorkflow(saved, NewPrefix) OBVIOUS
<1>3. PICK act, prefix : act = [s \in Stack |-> "Delete"] /\ prefix = NewPrefix OBVIOUS
<1>4. /\ Begins("Delete", wf) /\ UNCHANGED <<saved, behind, untagged>>
      /\ run.number \in 1 .. MaxExec - 1
  BY <1>2 DEF Delete, Requested, versionVars
<1>5. prefix \in Execution
  BY <1>3, <1>4, StackWorkflowAssumption DEF NewPrefix, Execution
<1>6. [b \in DOMAIN saved.branch |-> Reversed(saved.branch[b])] = Turned(W)
  BY <1>1 DEF Turned
<1>7. wf = [saved EXCEPT !.branch = Turned(W), !.action = act, !.prefix = prefix]
  BY <1>2, <1>3, <1>6 DEF DeleteWorkflow
<1>8. Turned(W) \in BranchMap BY <1>1 DEF BranchMap
<1>9. /\ wf \in Workflow /\ wf.branch = Turned(W) /\ wf.type = saved.type
      /\ wf.action = act
  BY <1>1, <1>3, <1>5, <1>7, <1>8 DEF Workflow
<1>10. \A s \in Stack : wf.action[s] = "Delete" /\ wf.type[s] = "Stack"
  BY <1>1, <1>3, <1>9
<1>. QED BY <1>4, <1>9, <1>10, SameShape DEF Kind

LEMMA RetryRequest == ASSUME StackInv, Retry PROVE StackInv'
<1>1. /\ saved \in Workflow /\ saved.branch = Branches(W) /\ W \in SUBSET Stack
      /\ saved.type = [s \in Stack |-> "Stack"] /\ saved.action = [s \in Stack |-> "Create"]
  BY SavedFacts
<1>2. PICK wf : wf = RetryWorkflow(saved, NewPrefix) OBVIOUS
<1>3. PICK type, act, prefix :
        /\ type = [s \in Stack |-> IF s \in RetryStacks THEN "Stack" ELSE "Pass"]
        /\ act = [s \in Stack |-> IF s \in RetryStacks THEN RetryAction(s) ELSE saved.action[s]]
        /\ prefix = NewPrefix
  OBVIOUS
<1>4. /\ Begins("Retry", wf) /\ UNCHANGED <<saved, behind, untagged>>
      /\ run.number \in 1 .. MaxExec - 1
  BY <1>2 DEF Retry, Requested, itemVars, versionVars
<1>5. prefix \in Execution
  BY <1>3, <1>4, StackWorkflowAssumption DEF NewPrefix, Execution
<1>6. wf = [saved EXCEPT !.type = type, !.action = act, !.prefix = prefix]
  BY <1>1, <1>2, <1>3 DEF RetryWorkflow, Retried, Workflow
<1>7. \A s : RetryAction(s) \in {"Create", "Update", "Upgrade"} BY DEF RetryAction
<1>8. /\ type \in [Stack -> {"Stack", "Pass"}]
      /\ act \in [Stack -> {"Create", "Update", "Upgrade", "Delete"}]
      /\ \A s \in Stack : act[s] # "Delete"
  BY <1>1, <1>3, <1>7
<1>9. wf \in Workflow /\ wf.branch = saved.branch /\ wf.type = type /\ wf.action = act
  BY <1>1, <1>5, <1>6, <1>8 DEF Workflow
<1>10. StacksOf(wf) = W BY <1>1, <1>9, StacksOfShape
<1>11. ASSUME ~Overlooks("Retry", wf), NEW s \in W, wf.type[s] = "Pass"
       PROVE  status[s] \in Settled
  <2>1. s \notin RetryStacks BY <1>1, <1>3, <1>9, <1>11
  <2>2. status[s] \notin {"none", "rollback"} \cup Broken
    BY <1>1, <2>1 DEF RetryStacks
  <2>3. status[s] \notin InProgress BY <1>10, <1>11 DEF Overlooks
  <2>4. status[s] \in {"none"} \cup InProgress \cup Broken \cup Settled
    BY <1>1 DEF StackInv, Typed
  <2>. QED BY <2>2, <2>3, <2>4
<1>. QED BY <1>4, <1>8, <1>9, <1>11, SameShape DEF Kind

\* What updateWorkflowReporting makes of the stacks.
Widened(shape, first) ==
    IF first = PipelineStacks /\ "DataModelingRedshift" \in shape
    THEN shape \cup {"Reporting"} ELSE shape

LEMMA WidenedIs ==
    ASSUME NEW shape \in SUBSET Stack, Valid(shape), NEW first
    PROVE  /\ Valid(Widened(shape, first)) /\ shape \subseteq Widened(shape, first)
           /\ Widened(shape, first) \ shape \subseteq {"Reporting"}
           /\ Widened(shape, first) \in SUBSET Stack
    BY DEF Widened, Valid, Stack

\* The steps of w are those of wf, or create a stack.
StepsOf(w, wf) ==
    \A s \in Stack :
        \/ w.type[s] = wf.type[s] /\ w.action[s] = wf.action[s]
        \/ w.type[s] = "Stack" /\ w.action[s] = "Create"

LEMMA WithReportingIs ==
    ASSUME NEW shape \in SUBSET Stack, NEW wf \in Workflow, NEW first,
           wf.branch = Branches(shape)
    PROVE  /\ WithReporting(wf, first).branch = Branches(Widened(shape, first))
           /\ WithReporting(wf, first) \in Workflow
           /\ WithReporting(wf, first).prefix = wf.prefix
           /\ StepsOf(WithReporting(wf, first), wf)
<1>1. CASE ~(first = PipelineStacks /\ "DataModelingRedshift" \in shape)
  <2>1. ~(BranchFound(wf, first) /\ "DataModelingRedshift" \in States(wf, "processing"))
    <3>1. ASSUME "processing" \in DOMAIN wf.branch
          PROVE  States(wf, "processing") = Chain("processing", shape)
      <4>1. wf.branch["processing"] = Linked(Chain("processing", shape))
        BY <3>1, BranchesAre
      <4>. QED BY <4>1 DEF States, Linked
    <3>2. "DataModelingRedshift" \in Chain("processing", shape)
             => "DataModelingRedshift" \in shape
      BY DEF Chain, PipelineStacks
    <3>. QED BY <1>1, <3>1, <3>2 DEF BranchFound
  <2>2. WithReporting(wf, first) = wf /\ StepsOf(wf, wf)
    BY <2>1 DEF WithReporting, StepsOf
  <2>3. Widened(shape, first) = shape BY <1>1 DEF Widened
  <2>. QED BY <2>2, <2>3
<1>2. CASE first = PipelineStacks /\ "DataModelingRedshift" \in shape
  <2>1. PICK wide : wide = shape \cup {"Reporting"} OBVIOUS
  <2>2. Widened(shape, first) = wide BY <1>2, <2>1 DEF Widened
  <2>3. wide \in SUBSET Stack BY <2>1 DEF Stack
  <2>4. "DataModelingRedshift" \in Chain("processing", shape)
    BY <1>2 DEF Chain, Members
  <2>5. /\ "processing" \in DOMAIN wf.branch
        /\ wf.branch["processing"] = Linked(Chain("processing", shape))
    BY <2>4, BranchesAre DEF Branch
  <2>6. States(wf, "processing") = Chain("processing", shape)
    BY <2>5 DEF States, Linked
  <2>7. Chain("processing", shape) \cup {"Reporting"} = Chain("processing", wide)
        /\ \A b \in Branch \ {"processing"} : Chain(b, shape) = Chain(b, wide)
    BY <2>1 DEF Chain, Members, Branch, PipelineStacks, Registry
  <2>8. PICK branch : branch = [wf.branch EXCEPT !["processing"] = Linked(Chain("processing", wide))]
    OBVIOUS
  <2>9. branch = Branches(wide)
    <3>1. DOMAIN wf.branch = {c \in Branch : Chain(c, shape) # {}} BY BranchesAre
    <3>2. {c \in Branch : Chain(c, shape) # {}} = {c \in Branch : Chain(c, wide) # {}}
      BY <2>4, <2>7
    <3>3. \A b \in DOMAIN wf.branch : b # "processing" =>
             wf.branch[b] = Linked(Chain(b, wide))
      BY <2>7, <3>1, BranchesAre
    <3>4. wf.branch = [b \in DOMAIN wf.branch |-> wf.branch[b]] BY DEF Branches
    <3>5. branch = [b \in DOMAIN wf.branch |->
                      IF b = "processing" THEN Linked(Chain("processing", wide))
                      ELSE wf.branch[b]]
      BY <2>8, <3>4
    <3>6. branch = [b \in DOMAIN wf.branch |-> Linked(Chain(b, wide))]
      BY <3>3, <3>5
    <3>. QED BY <3>1, <3>2, <3>6 DEF Branches
  <2>10. PICK type, act : /\ type = [wf.type EXCEPT !["Reporting"] = "Stack"]
                          /\ act = [wf.action EXCEPT !["Reporting"] = "Create"]
    OBVIOUS
  <2>11. WithReporting(wf, first) = [wf EXCEPT !.branch = branch, !.type = type, !.action = act]
    BY <1>2, <2>4, <2>5, <2>6, <2>7, <2>8, <2>10 DEF WithReporting, BranchFound, Workflow
  <2>12. /\ type \in [Stack -> {"Stack", "Pass"}]
         /\ act \in [Stack -> {"Create", "Update", "Upgrade", "Delete"}]
         /\ \A s \in Stack : (type[s] = wf.type[s] /\ act[s] = wf.action[s])
                            \/ (type[s] = "Stack" /\ act[s] = "Create")
    <3>1. /\ wf.type \in [Stack -> {"Stack", "Pass"}]
          /\ wf.action \in [Stack -> {"Create", "Update", "Upgrade", "Delete"}]
      BY DEF Workflow
    <3>2. /\ type \in [Stack -> {"Stack", "Pass"}]
          /\ \A s \in Stack : type[s] = IF s = "Reporting" THEN "Stack" ELSE wf.type[s]
      BY <2>10, <3>1
    <3>3. /\ act \in [Stack -> {"Create", "Update", "Upgrade", "Delete"}]
          /\ \A s \in Stack : act[s] = IF s = "Reporting" THEN "Create" ELSE wf.action[s]
      BY <2>10, <3>1
    <3>4. ASSUME NEW s \in Stack
          PROVE  \/ type[s] = wf.type[s] /\ act[s] = wf.action[s]
                 \/ type[s] = "Stack" /\ act[s] = "Create"
      <4>1. CASE s = "Reporting" BY <3>2, <3>3, <4>1
      <4>2. CASE s # "Reporting" BY <3>2, <3>3, <4>2
      <4>. QED BY <4>1, <4>2
    <3>. QED BY <3>2, <3>3, <3>4
  <2>13. branch \in BranchMap BY <2>3, <2>9 DEF BranchMap
  <2>14. PICK w : w = WithReporting(wf, first) OBVIOUS
  <2>15. /\ w.branch = branch /\ w.prefix = wf.prefix /\ w.type = type /\ w.action = act
         /\ w \in Workflow
    BY ZenonT(60), <2>11, <2>12, <2>13, <2>14 DEF Workflow
  <2>. QED BY <2>2, <2>9, <2>12, <2>14, <2>15 DEF StepsOf
<1>. QED BY <1>1, <1>2

LEMMA UpdateRequest ==
    ASSUME StackInv, NEW edited, NEW enables \in BOOLEAN, NEW tags \in BOOLEAN, NEW first,
           Update(edited, enables, tags, first)
    PROVE  StackInv'
<1>1. /\ saved \in Workflow /\ saved.branch = Branches(W) /\ W \in SUBSET Stack /\ Valid(W)
      /\ saved.type = [s \in Stack |-> "Stack"] /\ saved.action = [s \in Stack |-> "Create"]
  BY SavedFacts
<1>2. PICK some, prefix : some = edited \cap StacksOf(saved) /\ prefix = NewPrefix OBVIOUS
<1>3. PICK changed : changed = UpdateWorkflow(saved, some, prefix) OBVIOUS
<1>4. PICK shape : shape = IF enables THEN Widened(W, first) ELSE W OBVIOUS
<1>5. Valid(shape) /\ W \subseteq shape /\ shape \ W \subseteq {"Reporting"}
      /\ shape \in SUBSET Stack
  BY <1>1, <1>4, WidenedIs
<1>. DEFINE With(wf) == IF enables THEN WithReporting(wf, first) ELSE wf
<1>6. ASSUME NEW wf \in Workflow, wf.branch = Branches(W)
      PROVE  /\ With(wf).branch = Branches(shape) /\ With(wf) \in Workflow
             /\ StepsOf(With(wf), wf)
  <2>1. CASE enables BY <1>1, <1>4, <1>6, <2>1, WithReportingIs
  <2>2. CASE ~enables BY <1>4, <1>6, <2>2 DEF StepsOf
  <2>. QED BY <2>1, <2>2
<1>7. PICK new : new = StacksOf(With(saved)) \ StacksOf(saved) OBVIOUS
<1>8. PICK wf : wf = IF tags THEN WithTags(With(changed), new) ELSE With(changed) OBVIOUS
<1>9. /\ Begins("Update", wf) /\ UNCHANGED <<behind, untagged>>
      /\ run.number \in 1 .. MaxExec - 1
      /\ saved' = [With(saved) EXCEPT !.prefix = prefix]
  BY <1>2, <1>3, <1>7, <1>8 DEF Update, Requested, versionVars
<1>10. prefix \in Execution
  BY <1>2, <1>9, StackWorkflowAssumption DEF NewPrefix, Execution
<1>11. PICK passed, type, act :
        /\ passed = {s \in Stack : StatusByName(s) \in InProgress
                                    \/ (StatusByName(s) \in Settled /\ s \notin some)}
        /\ type = [s \in Stack |-> IF s \in passed THEN "Pass" ELSE "Stack"]
        /\ act = [s \in Stack |-> IF s \in some \/ StatusByName(s) \in Broken
                                  THEN "Update" ELSE saved.action[s]]
  OBVIOUS
<1>12. changed = [saved EXCEPT !.type = type, !.action = act, !.prefix = prefix]
  BY <1>1, <1>3, <1>11 DEF UpdateWorkflow, Workflow
<1>13. /\ type \in [Stack -> {"Stack", "Pass"}]
       /\ act \in [Stack -> {"Create", "Update", "Upgrade", "Delete"}]
       /\ \A s \in Stack : act[s] \in {"Create", "Update"}
  BY <1>1, <1>11
<1>14. /\ changed \in Workflow /\ changed.branch = Branches(W)
       /\ changed.type = type /\ changed.action = act
  BY <1>1, <1>10, <1>12, <1>13 DEF Workflow
<1>15. /\ With(changed) \in Workflow /\ With(changed).branch = Branches(shape)
       /\ \A s \in Stack : /\ With(changed).action[s] \in {"Create", "Update"}
                           /\ With(changed).type[s] = "Pass" => s \in passed
  <2>1. /\ With(changed).branch = Branches(shape) /\ With(changed) \in Workflow
        /\ StepsOf(With(changed), changed)
    BY <1>6, <1>14
  <2>. HIDE DEF With
  <2>. QED BY <1>11, <1>13, <1>14, <2>1 DEF StepsOf
<1>16. /\ wf \in Workflow /\ wf.branch = Branches(shape)
       /\ \A s \in Stack : /\ wf.action[s] \in {"Create", "Update"}
                           /\ wf.type[s] = "Pass" => s \in passed
  <2>. HIDE DEF With
  <2>1. CASE tags
    <3>1. PICK w : w = With(changed) OBVIOUS
    <3>2. wf = [w EXCEPT !.type = [s \in Stack |-> "Stack"],
                         !.action = [s \in Stack |-> IF s \in new THEN "Create" ELSE "Update"]]
      BY <1>8, <2>1, <3>1 DEF WithTags
    <3>. QED BY <1>15, <3>1, <3>2 DEF Workflow
  <2>2. CASE ~tags BY <1>8, <1>15, <2>2
  <2>. QED BY <2>1, <2>2
<1>17. saved'.branch = Branches(shape) /\ saved' = Generated(shape, prefix)
  <2>1. /\ With(saved).branch = Branches(shape) /\ With(saved) \in Workflow
        /\ \A s \in Stack : With(saved).type[s] = "Stack" /\ With(saved).action[s] = "Create"
    <3>1. /\ With(saved).branch = Branches(shape) /\ With(saved) \in Workflow
          /\ StepsOf(With(saved), saved)
      BY <1>1, <1>6
    <3>. HIDE DEF With
    <3>. QED BY <1>1, <3>1 DEF StepsOf
  <2>. HIDE DEF With
  <2>2. PICK w : w = With(saved) OBVIOUS
  <2>3. w.type = [s \in Stack |-> "Stack"] /\ w.action = [s \in Stack |-> "Create"]
    BY <2>1, <2>2 DEF Workflow
  <2>4. saved' = [branch |-> Branches(shape), type |-> [s \in Stack |-> "Stack"],
                  action |-> [s \in Stack |-> "Create"], prefix |-> prefix]
    BY <1>9, <2>1, <2>2, <2>3 DEF Workflow
  <2>. QED BY <2>4 DEF Generated, Branches
<1>18. StacksOf(saved') = shape BY <1>5, <1>17, StacksOfShape
<1>19. W' = shape BY <1>18 DEF W, StacksOf, States
<1>20. saved'.prefix = prefix BY <1>17 DEF Generated
<1>21. Formed' BY <1>5, <1>10, <1>17, <1>19, <1>20 DEF Formed
<1>22. StacksOf(wf) = shape BY <1>5, <1>16, StacksOfShape
<1>23. ASSUME ~Overlooks("Update", wf), NEW s \in shape, wf.type[s] = "Pass"
       PROVE  status[s] \in Settled
  <2>1. s \in Stack /\ s \in passed BY <1>5, <1>16, <1>23
  <2>2. status[s] \in InProgress \cup Settled
    BY <1>11, <2>1 DEF StatusByName, InProgress, Settled
  <2>3. status[s] \notin InProgress BY <1>22, <1>23 DEF Overlooks
  <2>. QED BY <2>2, <2>3
<1>24. behind' \subseteq Stack /\ untagged' \subseteq Stack
  BY <1>9 DEF StackInv, Typed
<1>25. run.number \in 0 .. MaxExec - 1 BY <1>9, StackWorkflowAssumption
<1>26. \A s \in Stack : "Update" = "Delete" <=> wf.action[s] = "Delete" BY <1>16
<1>. HIDE DEF With
<1>. QED BY <1>5, <1>9, <1>16, <1>19, <1>21, <1>23, <1>24, <1>25, <1>26, BeginsStep DEF Kind

LEMMA UpgradeRequest == ASSUME StackInv, Upgrade PROVE StackInv'
<1>1. /\ saved \in Workflow /\ saved.branch = Branches(W) /\ W \in SUBSET Stack /\ Valid(W)
  BY SavedFacts
<1>2. PICK shape : shape = W \cup (IF reporting /\ "DataModelingRedshift" \in W
                                  THEN {"Reporting"} ELSE {})
  OBVIOUS
<1>3. Valid(shape) /\ W \subseteq shape /\ shape \ W \subseteq {"Reporting"}
      /\ shape \in SUBSET Stack
  BY <1>1, <1>2 DEF Valid, Stack
<1>4. PICK prefix : prefix = NewPrefix OBVIOUS
<1>5. PICK generated : generated = Generated(shape, prefix) OBVIOUS
<1>6. PICK existing : existing = {s \in W : status[s] # "none"} OBVIOUS
<1>7. PICK wf : wf = UpgradeWorkflow(saved, generated) OBVIOUS
<1>8. /\ Begins("Upgrade", wf) /\ Requested({"Active"}) /\ saved' = generated
      /\ behind' = existing /\ untagged' = existing
  BY <1>2, <1>4, <1>5, <1>6, <1>7 DEF Upgrade, W
<1>9. run.number \in 1 .. MaxExec - 1 /\ run.status # "RUNNING" /\ PipelineStatusType = "Active"
  BY <1>8 DEF Requested, Resting
<1>10. prefix \in Execution
  BY <1>4, <1>9, StackWorkflowAssumption DEF NewPrefix, Execution
<1>11. generated = [branch |-> Branches(shape), type |-> [s \in Stack |-> "Stack"],
                    action |-> [s \in Stack |-> "Create"], prefix |-> prefix]
  BY <1>5 DEF Generated, Branches
<1>12. PICK act : act = [s \in Stack |-> IF s \in W THEN "Upgrade" ELSE "Create"] OBVIOUS
<1>13. wf = [generated EXCEPT !.action = act] BY <1>7, <1>12 DEF UpgradeWorkflow, W
<1>14. Branches(shape) \in BranchMap BY <1>3 DEF BranchMap
<1>15. /\ wf \in Workflow /\ wf.branch = Branches(shape) /\ wf.action = act
       /\ wf.type = [s \in Stack |-> "Stack"]
  <2>1. wf = [branch |-> Branches(shape), type |-> [s \in Stack |-> "Stack"],
              action |-> act, prefix |-> prefix]
    BY <1>11, <1>13
  <2>. QED BY <1>10, <1>12, <1>14, <2>1 DEF Workflow
<1>16. StacksOf(saved') = shape BY <1>3, <1>8, <1>11, StacksOfShape
<1>17. W' = shape BY <1>16 DEF W, StacksOf, States
<1>18. saved'.prefix = prefix BY <1>8, <1>11
<1>19. Formed' BY <1>3, <1>5, <1>8, <1>10, <1>17, <1>18 DEF Formed
<1>20. ASSUME NEW s \in existing PROVE status[s] = "complete"
  <2>1. run.status = "SUCCEEDED"
    <3>1. run.status \in {"none", "RUNNING", "SUCCEEDED", "FAILED"} BY RunFields DEF StackInv, Typed
    <3>2. run.status # "none" BY <1>9 DEF StackInv, Placed
    <3>3. run.status # "FAILED" BY <1>9 DEF PipelineStatusType
    <3>. QED BY <1>9, <3>1, <3>2, <3>3
  <2>2. PICK found : found = {status[r] : r \in StacksOf(saved)} OBVIOUS
  <2>3. found \cap (Broken \cup {"rollback"}) = {}
    BY <1>9, <2>1, <2>2 DEF PipelineStatusType
  <2>4. found \cap InProgress = {}
    BY <1>9, <2>1, <2>2, <2>3 DEF PipelineStatusType
  <2>5. status[s] \in found /\ status[s] # "none" BY <1>6, <1>20, <2>2 DEF W
  <2>6. status[s] \in {"none"} \cup InProgress \cup Broken \cup Settled
    BY <1>1, <1>6, <1>20 DEF StackInv, Typed
  <2>. QED BY <2>3, <2>4, <2>5, <2>6 DEF Settled
<1>21. \A s \in Stack : wf.type[s] = "Stack" /\ wf.action[s] # "Delete" BY <1>12, <1>15
<1>22. \A s \in shape : wf.type[s] # "Pass" BY <1>3, <1>21
<1>23. behind' \subseteq Stack /\ untagged' \subseteq Stack BY <1>1, <1>6, <1>8
<1>24. \A s \in behind' : /\ s \in W' /\ s \in untagged'
                          /\ wf.action[s] = "Upgrade" /\ status[s] = "complete"
  BY <1>1, <1>3, <1>6, <1>8, <1>12, <1>15, <1>17, <1>20
<1>25. run.number \in 0 .. MaxExec - 1 BY <1>9, StackWorkflowAssumption
<1>. QED BY <1>3, <1>8, <1>15, <1>17, <1>19, <1>21, <1>22, <1>23, <1>24, <1>25, BeginsStep
     DEF Kind

-----------------------------------------------------------------------------
(* The theorems.                                                           *)

LEMMA InitHolds == StackWorkflowInit => StackInv
<1>. SUFFICES ASSUME StackWorkflowInit PROVE StackInv OBVIOUS
<1>1. PICK shape \in Shapes : saved = Generated(shape, 1) BY DEF StackWorkflowInit
<1>2. shape \in SUBSET Stack /\ Valid(shape)
  BY <1>1, StackWorkflowAssumption DEF Valid
<1>3. saved = [branch |-> Branches(shape), type |-> [s \in Stack |-> "Stack"],
               action |-> [s \in Stack |-> "Create"], prefix |-> 1]
  BY <1>1 DEF Generated, Branches
<1>4. W = shape BY <1>2, <1>3, StacksOfShape DEF W
<1>5. 1 \in Execution BY StackWorkflowAssumption DEF Execution
<1>6. Branches(shape) \in BranchMap BY <1>2 DEF BranchMap
<1>7. saved \in Workflow BY <1>3, <1>5, <1>6 DEF Workflow
<1>8. PICK none : none = [b \in {} |-> "none"] OBVIOUS
<1>9. run = [number |-> 0, kind |-> "Create", status |-> "none", wf |-> saved,
             at |-> none, wait |-> {}]
  BY <1>8 DEF StackWorkflowInit
<1>10. DOMAIN none = {} /\ none \in [{} -> Place] BY <1>8
<1>11. run \in RunRecord
  <2>1. none \in UNION {[D -> Place] : D \in SUBSET Branch} BY <1>10
  <2>2. 0 \in 0 .. MaxExec BY StackWorkflowAssumption
  <2>. QED BY <1>7, <1>9, <2>1, <2>2 DEF RunRecord
<1>12. Typed BY <1>11 DEF StackWorkflowInit, Typed
<1>13. Formed BY <1>1, <1>2, <1>3, <1>4, <1>5 DEF Formed
<1>14. ~Deletes BY <1>9 DEF Deletes
<1>15. Planned BY <1>3, <1>4, <1>9, <1>14 DEF Planned
<1>16. Placed BY <1>9, <1>10 DEF Placed
<1>17. \A s \in Stack : status[s] = "none" BY DEF StackWorkflowInit
<1>18. Known BY <1>17 DEF Known, Exists, Settled
<1>19. Ordered
  <2>1. W \subseteq Stack /\ \A r \in W : Dependents(r) \subseteq W
    BY <1>2, <1>4 DEF Dependents
  <2>. QED BY <1>17, <2>1 DEF StackWorkflowInit, Ordered, Exists
<1>20. Fed
  <2>1. \A s \in W : run.wf.type[s] = "Stack" BY <1>2, <1>3, <1>4, <1>9
  <2>2. \A s \in W : ~Passed(s) BY <1>9, <1>10 DEF Passed
  <2>. QED BY <2>1, <2>2 DEF Fed
<1>21. Undone /\ Upgraded BY <1>9, <1>14 DEF Undone, Upgraded
<1>. QED BY <1>12, <1>13, <1>15, <1>16, <1>18, <1>19, <1>20, <1>21 DEF StackInv

LEMMA StepKeeps == StackInv /\ [StackWorkflowNext]_workflowVars => StackInv'
<1>. SUFFICES ASSUME StackInv, [StackWorkflowNext]_workflowVars PROVE StackInv'
  OBVIOUS
<1>1. CASE Requests
  <2>1. CASE Create BY <2>1, CreateRequest
  <2>2. CASE UpdateApp BY <2>2, UpdateAppRequest
  <2>3. CASE Upgrade BY <2>3, UpgradeRequest
  <2>4. CASE Delete BY <2>4, DeleteRequest
  <2>5. CASE Retry BY <2>5, RetryRequest
  <2>6. ASSUME NEW edited \in Edits, NEW enables \in BOOLEAN, NEW tags \in BOOLEAN,
               NEW first \in FirstKeys, Update(edited, enables, tags, first)
        PROVE  StackInv'
    BY <2>6, UpdateRequest
  <2>. QED BY <1>1, <2>1, <2>2, <2>3, <2>4, <2>5, <2>6 DEF Requests
<1>2. CASE StateMachine
  <2>1. CASE Enter \/ Join BY <2>1, ParallelStep
  <2>2. CASE Breaks \/ Succeeds BY <2>2, EndsStep
  <2>3. ASSUME NEW b, NEW s,
               \/ PassStack(b, s) \/ CreateStack(b, s) \/ UpdateStack(b, s)
               \/ UpgradeStack(b, s) \/ DeleteStack(b, s)
               \/ CallFails(b, s) \/ Finish(b, s)
        PROVE  StackInv'
    <3>1. CASE PassStack(b, s) BY <3>1, PassStep
    <3>2. CASE CreateStack(b, s) BY <3>2, CreateStep
    <3>3. CASE UpdateStack(b, s) BY <3>3, ChangeStep DEF UpdateStack
    <3>4. CASE UpgradeStack(b, s) BY <3>4, ChangeStep DEF UpgradeStack
    <3>5. CASE DeleteStack(b, s) BY <3>5, DeleteStep
    <3>6. CASE CallFails(b, s) BY <3>6, EndsStep
    <3>7. CASE Finish(b, s) BY <3>7, FinishStep
    <3>. QED BY <2>3, <3>1, <3>2, <3>3, <3>4, <3>5, <3>6, <3>7
  <2>. QED BY <1>2, <2>1, <2>2, <2>3 DEF StateMachine
<1>3. CASE \E s \in Stack : StackDone(s) \/ StackFails(s) BY <1>3, StackStep
<1>4. CASE UNCHANGED workflowVars
  <2>1. Typed' /\ Formed' /\ Planned' /\ Placed'
    BY <1>4 DEF workflowVars, itemVars, versionVars, StackInv, Typed, Formed, Planned, Placed,
       W, StacksOf, States, Deletes, Passed, Dependents, Exists, Others
  <2>2. Known' /\ Ordered' /\ Fed'
    BY <1>4 DEF workflowVars, itemVars, versionVars, StackInv, Known, Ordered, Fed,
       W, StacksOf, States, Deletes, Passed, Dependents, Exists, Others
  <2>3. Undone' /\ Upgraded'
    BY <1>4 DEF workflowVars, itemVars, versionVars, StackInv, Undone, Upgraded,
       W, StacksOf, States, Deletes, Passed, Dependents, Exists, Others
  <2>. QED BY ONLY <2>1, <2>2, <2>3 DEF StackInv
<1>. QED BY <1>1, <1>2, <1>3, <1>4 DEF StackWorkflowNext

LEMMA Invariance == StackWorkflowSpec => []StackInv
  BY InitHolds, StepKeeps, PTL DEF StackWorkflowSpec

\* Whatever the pipeline consists of, whichever parameters are updated, and
\* however many executions and failures there are, a stack exists only while
\* those it is created after exist, and none is deployed with an empty value
\* for an output: a step is taken only when all that the stack depends on was
\* passed by the same execution, and left its outputs under its prefix.
THEOREM OutputsAreThere == StackWorkflowSpec => []DependenciesHold
<1>1. StackInv => DependenciesHold
  <2>. SUFFICES ASSUME StackInv, ~overlooked PROVE InOrder /\ blank = {}
    BY DEF DependenciesHold
  <2>1. blank = {} /\ \A r \in W : \A t \in Dependents(r) : Exists(t) => Exists(r)
    BY DEF StackInv, Ordered
  <2>2. saved.branch = Branches(W) /\ W \in SUBSET Stack BY SavedFacts
  <2>3. ASSUME NEW b \in DOMAIN saved.branch, NEW r \in States(saved, b),
               NEW s, s = saved.branch[b].next[r]
        PROVE  /\ s \in Stack /\ Exists(s) => Exists(r)
               /\ r = Registry /\ ~Exists(r) => \A t \in StacksOf(saved) : ~Exists(t)
    <3>1. b \in Branch /\ saved.branch[b] = Linked(Chain(b, W)) BY <2>2, BranchesAre
    <3>2. r \in Chain(b, W) /\ Chain(b, W) \in SUBSET Members[b]
          /\ Chain(b, W) \ {PipelineStacks} \subseteq W
      BY <2>2, <3>1, ChainIs DEF States, Linked
    <3>3. ASSUME s \in Stack, Exists(s) PROVE Exists(r)
      <4>1. s \in Chain(b, W) /\ s \in Later(r)
        BY <2>3, <3>1, <3>2, <3>3, NextIs, StatesDiffer DEF State
      <4>2. r # PipelineStacks /\ r # Registry
        BY <3>3, <4>1, StatesDiffer DEF Later, PipelineStacks, Registry
      <4>3. r \in W /\ s \in W BY <3>2, <3>3, <4>1, <4>2, StatesDiffer
      <4>4. s \in Dependents(r) BY <4>1, <4>2, <4>3 DEF Dependents
      <4>. QED BY <2>1, <3>3, <4>3, <4>4
    <3>4. ASSUME r = Registry, ~Exists(r), NEW t \in StacksOf(saved) PROVE ~Exists(t)
      <4>1. Registry \in W /\ t \in W
        BY <3>4 DEF StackInv, Formed, Valid, Always, W
      <4>2. t # Registry => t \in Dependents(Registry) BY <4>1 DEF Dependents
      <4>. QED BY <2>1, <3>4, <4>1, <4>2
    <3>. QED BY <3>3, <3>4
  <2>4. InOrder BY <2>3 DEF InOrder
  <2>. QED BY <2>1, <2>4
<1>. QED BY <1>1, Invariance, PTL

\* An execution that succeeds has passed every stack of the pipeline: a deletion
\* then leaves none, any other request leaves none out, and an upgrade leaves
\* none behind but what it rolled back.
THEOREM NothingLeftOut == StackWorkflowSpec => []NoneForgotten
<1>1. StackInv => NoneForgotten
  <2>. SUFFICES ASSUME StackInv, run.status = "SUCCEEDED"
                PROVE  /\ Deletes => \A s \in W : ~Exists(s)
                       /\ ~Deletes /\ ~overlooked => \A s \in W : Exists(s)
                       /\ run.kind = "Upgrade" /\ ~overlooked =>
                             \A s \in behind : status[s] = "rollback"
    BY DEF NoneForgotten, Deletes, W
  <2>1. W \in SUBSET Stack BY SavedFacts
  <2>2. "root" \in DOMAIN run.at /\ run.at["root"] = End
        /\ DOMAIN run.at = DOMAIN run.wf.branch
    BY DEF StackInv, Placed
  <2>3. \A b \in DOMAIN run.at : run.at[b] = End
    BY <2>2, StatesDiffer DEF StackInv, Placed, Others, Reached, State
  <2>4. ASSUME NEW s \in W PROVE Passed(s)
    <3>1. PICK b \in Branch : s \in Chain(b, W) BY <2>1, ChainOfStack
    <3>2. b \in DOMAIN run.at BY <2>1, <2>2, <3>1, BranchesAre DEF StackInv, Planned
    <3>3. s \in Members[b] BY <2>1, <3>1, ChainIs
    <3>. QED BY <2>3, <3>2, <3>3 DEF Passed, Reached
  <2>5. Deletes => \A s \in W : ~Exists(s) BY <2>4 DEF StackInv, Undone
  <2>6. ~Deletes /\ ~overlooked => \A s \in W : Exists(s)
    BY <2>4 DEF StackInv, Fed, Exists, Settled
  <2>7. run.kind = "Upgrade" => \A s \in behind : status[s] = "rollback"
    BY <2>4 DEF StackInv, Upgraded
  <2>. QED BY <2>5, <2>6, <2>7
<1>. QED BY <1>1, Invariance, PTL
==============================================================================
