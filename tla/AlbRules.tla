------------------------------ MODULE AlbRules ------------------------------
(***************************************************************************)
(* The rules of the ingestion load balancer.  A custom resource keeps the  *)
(* rules of the listener in step with its properties: the applications,    *)
(* the path, the host and the secret of the endpoint.  CloudFormation      *)
(* calls it to create, update and delete; any call to the load balancer    *)
(* may fail, and with it the operation, and CloudFormation then calls it   *)
(* again with the properties swapped, until the update is rolled back.     *)
(*                                                                         *)
(* An operation runs in steps.  A step looks at the rules there are and    *)
(* lists the calls it will make; the calls are made one by one.            *)
(***************************************************************************)
EXTENDS Integers, SequencesExt

CONSTANTS
    AppId,      \* applications
    Path,       \* paths of the endpoint
    Host,       \* domain names
    Secret,     \* secrets of the OIDC provider
    NoHost, NoSecret,
    RuleLimit,  \* the most rules a listener takes
    MaxUpdates, \* bound: updates
    MaxErrors   \* bound: calls that fail

\* An endpoint has another path than the rules of the load balancer's own: the
\* parameter's pattern refuses '/*', and who sets the path leaves '/ping' and
\* '/login' alone.  No application is named as one of the other rules here.
ASSUME AlbRulesAssumption ==
    /\ IsFiniteSet(AppId) /\ AppId \cap {"none", "any"} = {}
    /\ Path \cap {"none", "ping", "/*", "/login"} = {}
    /\ NoHost \notin Host /\ NoSecret \notin Secret
    /\ RuleLimit \in Nat /\ MaxUpdates \in Nat /\ MaxErrors \in Nat

VARIABLES
    rules,    \* rule of each priority
    stage,    \* what CloudFormation does with the resource
    old,      \* OldResourceProperties of the last update
    want,     \* ResourceProperties of the last operation
    step,     \* where the handler is
    calls,    \* the calls that the step has yet to make
    halved,   \* applications that have lost one rule of two (history)
    updates, errors

albVars == <<rules, stage, old, want, step, calls, halved, updates, errors>>

Priority == 1..(4 + 2 * Cardinality(AppId))
AppPriority == {n \in Priority : n > 4}

\* clickStreamSDK stays as it is; an endpoint without a host name, or without
\* a secret, is another listener.
Properties == [sdk : BOOLEAN, apps : SUBSET AppId, path : Path,
               host : Host \cup {NoHost}, secret : Secret \cup {NoSecret}]

SameListener(c, d) ==
    /\ c.sdk = d.sdk
    /\ (c.host = NoHost) = (d.host = NoHost)
    /\ (c.secret = NoSecret) = (d.secret = NoSecret)

NoRule == [app |-> "none", path |-> "none", host |-> NoHost, secret |-> NoSecret]

Forward(c, a, path) == [app |-> a, path |-> path, host |-> c.host, secret |-> c.secret]

\* The rules that are not for an application: everything is answered with
\* 400, everything is forwarded, and the login of the OIDC provider.
FixedResponse == [app |-> "any", path |-> "/*", host |-> NoHost, secret |-> NoSecret]
DefaultForward(c) == Forward(c, "any", c.path)
DefaultPing(c) == Forward(c, "any", "ping")
AuthLogin(c) == [app |-> "any", path |-> "/login", host |-> NoHost, secret |-> c.secret]

Rule == [app : AppId \cup {"none", "any"}, path : Path \cup {"none", "ping", "/*", "/login"},
         host : Host \cup {NoHost}, secret : Secret \cup {NoSecret}]

CreateRule(n, rule) == [do |-> "create", at |-> n, rule |-> rule]
ModifyRule(n, rule) == [do |-> "modify", at |-> n, rule |-> rule]
DeleteRule(n) == [do |-> "delete", at |-> n, rule |-> NoRule]

Call == [do : {"create", "modify", "delete"}, at : Priority, rule : Rule]

Existing(S) == {n \in S : rules[n] # NoRule}

\* The numbers of S, the lowest first: the i-th has i - 1 below it.
InOrder(S) ==
    [i \in 1..Cardinality(S) |-> CHOOSE n \in S : Cardinality({m \in S : m < n}) = i - 1]

ForEach(S, Of(_)) == [i \in 1..Cardinality(S) |-> Of(InOrder(S)[i])]

Steps == {"begin", "default", "path", "ping", "secret", "apps", "reset", "remove", "clear",
          "fallback"}

AlbInit ==
    /\ rules = [n \in Priority |-> NoRule]
    /\ stage = "Create"
    /\ want \in Properties
    /\ want.host = NoHost => want.secret = NoSecret
    /\ old = want
    /\ step = "begin"
    /\ calls = << >>
    /\ halved = {}
    /\ updates = 0
    /\ errors = 0

Running == stage \in {"Create", "Update", "Rollback", "Delete"}

Error ==
    /\ errors < MaxErrors
    /\ errors' = errors + 1

-----------------------------------------------------------------------------
(* The calls of each step, by the rules that it finds.                     *)

\* createDefaultForwardRule, createAuthLogindRule
DefaultCalls ==
    << CreateRule(2, DefaultForward(want)), CreateRule(3, DefaultPing(want)) >> \o
    (IF want.secret = NoSecret THEN << >> ELSE << CreateRule(4, AuthLogin(want)) >>)

\* Mutant: only the path is replaced, the host of the rule stays.
PathCallsKeepHost ==
    ForEach({n \in Existing(Priority) : rules[n].path = old.path},
            LAMBDA n : ModifyRule(n, [rules[n] EXCEPT !.path = want.path]))

\* updateEndpointPathAndHostHeader: rules of the old path get the new path and
\* host, then those of the ping path the new host.
PathCalls ==
    IF want.path = old.path /\ want.host = old.host THEN << >>
    ELSE ForEach({n \in Existing(Priority) : rules[n].path = old.path},
                 LAMBDA n : ModifyRule(n, [rules[n] EXCEPT !.path = want.path,
                                                           !.host = want.host]))

PingCalls ==
    IF want.host = old.host THEN << >>
    ELSE ForEach({n \in Existing(Priority) : rules[n].path = "ping"},
                 LAMBDA n : ModifyRule(n, [rules[n] EXCEPT !.host = want.host]))

SecretCalls ==
    IF want.secret = old.secret THEN << >>
    ELSE ForEach({n \in Existing(Priority) : rules[n].secret # NoSecret},
                 LAMBDA n : ModifyRule(n, [rules[n] EXCEPT !.secret = want.secret]))

ExistingAppIds == {rules[n].app : n \in Existing(AppPriority)}

\* Mutant: a priority that has been given out is given out again.
CreatePriorityTwice(i) == InOrder(AppPriority \ Existing(AppPriority))[(i + 1) \div 2]

\* The i-th lowest priority that is free.
CreatePriority(i) == InOrder(AppPriority \ Existing(AppPriority))[i]

\* Two rules for each application that has none.
AppCalls ==
    LET missing == SetToSeq(want.apps \ ExistingAppIds)
    IN [i \in 1..(2 * Len(missing)) |->
          CreateRule(CreatePriority(i),
                     Forward(want, missing[(i + 1) \div 2],
                             IF i % 2 = 1 THEN want.path ELSE "ping"))]

\* Without applications every request is answered with 400.
ResetCalls ==
    IF want.apps # {} THEN << >>
    ELSE (IF rules[1] = NoRule THEN << CreateRule(1, FixedResponse) >> ELSE << >>) \o
         (IF Existing({2, 3}) = {}
          THEN << CreateRule(2, DefaultForward(want)), CreateRule(3, DefaultPing(want)) >>
          ELSE << >>)

\* Mutant: rules of applications that were there before are removed.
RemovedRulesOfOld == {n \in Existing(AppPriority) : rules[n].app \in old.apps}

\* getDeleteAppIdRules
RemovedRules == {n \in Existing(AppPriority) : rules[n].app \notin want.apps}

\* Rules of removed applications, then the rules for no application.
RemoveCalls ==
    (IF stage \in {"Create", "Delete"} THEN << >> ELSE ForEach(RemovedRules, DeleteRule)) \o
    (IF want.apps = {} THEN << >> ELSE ForEach(Existing(1..3), DeleteRule))

ClearCalls == ForEach(Existing(Priority), DeleteRule)

Calls(s) ==
    CASE s = "default" -> DefaultCalls
      [] s = "path" -> PathCalls
      [] s = "ping" -> PingCalls
      [] s = "secret" -> SecretCalls
      [] s = "apps" -> AppCalls
      [] s = "reset" -> ResetCalls
      [] s = "remove" -> RemoveCalls
      [] s = "clear" -> ClearCalls
      [] OTHER -> << >>

\* The handler's steps, in their order.
FirstStep ==
    CASE stage = "Create" -> "default"
      [] stage \in {"Update", "Rollback"} -> "path"
      [] OTHER -> IF want.sdk THEN "reset" ELSE "clear"

After(s) ==
    CASE s = "begin" -> FirstStep
      [] s = "path" -> "ping"
      [] s = "ping" -> "secret"
      [] s \in {"default", "secret"} -> IF want.sdk THEN "apps" ELSE "fallback"
      [] s = "apps" -> "reset"
      [] s = "reset" -> "remove"
      [] s = "remove" -> IF stage = "Delete" THEN "clear" ELSE "fallback"
      [] OTHER -> "fallback"

-----------------------------------------------------------------------------
(* The handler.                                                            *)

NextStep ==
    /\ Running
    /\ calls = << >> /\ step # "fallback"
    /\ step' = After(step)
    /\ calls' = Calls(After(step))
    /\ UNCHANGED <<rules, stage, old, want, halved, updates, errors>>

\* The load balancer refuses a rule whose priority is taken, or one too many.
Refused(call) ==
    /\ call.do = "create"
    /\ rules[call.at] # NoRule \/ Cardinality(Existing(Priority)) >= RuleLimit

RulesAfter(call) == [rules EXCEPT ![call.at] = call.rule]

RulesOf(a, table) == {n \in AppPriority : table[n].app = a}

StillHalved == {a \in halved : Cardinality(RulesOf(a, rules)) = 1}

MakeCall ==
    /\ Running
    /\ calls # << >> /\ ~Refused(Head(calls))
    /\ rules' = RulesAfter(Head(calls))
    /\ calls' = Tail(calls)
    /\ UNCHANGED <<stage, old, want, step, halved, updates, errors>>

\* modifyFallbackRule is the last call.
Finish ==
    /\ Running
    /\ calls = << >> /\ step = "fallback"
    /\ stage' = CASE stage = "Update" -> "Updated"
                  [] stage = "Delete" -> "Gone"
                  [] OTHER -> "Settled"
    /\ halved' = IF stage = "Update" THEN halved ELSE StillHalved
    /\ UNCHANGED <<rules, old, want, step, calls, updates, errors>>

-----------------------------------------------------------------------------
(* CloudFormation.                                                         *)

Begin(s) ==
    /\ stage' = s
    /\ step' = "begin"
    /\ calls' = << >>

\* What follows a failure: a listener that was to be created is deleted, an
\* update is rolled back, a deletion is tried again.
Fail ==
    CASE stage = "Create" -> Begin("Gone") /\ UNCHANGED <<old, want>>
      [] stage = "Update" -> Begin("Rollback") /\ old' = want /\ want' = old
      [] stage = "Rollback" -> Begin("RollbackFailed") /\ UNCHANGED <<old, want>>
      [] OTHER -> Begin("Delete") /\ UNCHANGED <<old, want>>

\* A failure between the two rules of an application that is removed, or that
\* returns in a rollback.
HalvedBy(table) ==
    IF step = "remove" \/ stage = "Rollback"
    THEN halved \cup {a \in AppId : Cardinality(RulesOf(a, table)) = 1}
    ELSE halved

CallRefused ==
    /\ Running
    /\ calls # << >> /\ Refused(Head(calls))
    /\ Fail
    /\ halved' = HalvedBy(rules)
    /\ UNCHANGED <<rules, updates, errors>>

\* Any call fails, to the secret or the listener too; the load balancer may
\* have carried it out.
CallFails ==
    /\ Running /\ Error
    /\ \/ rules' = rules
       \/ calls # << >> /\ ~Refused(Head(calls)) /\ rules' = RulesAfter(Head(calls))
    /\ halved' = HalvedBy(rules')
    /\ Fail
    /\ UNCHANGED updates

\* Another resource of the stack fails, after this one has been updated.
StackFails ==
    /\ Error
    /\ stage = "Updated"
    /\ Begin("Rollback") /\ old' = want /\ want' = old
    /\ UNCHANGED <<rules, halved, updates>>

StackSettles ==
    /\ stage = "Updated"
    /\ stage' = "Settled"
    /\ halved' = StillHalved
    /\ UNCHANGED <<rules, old, want, step, calls, updates, errors>>

Update(c) ==
    /\ updates < MaxUpdates
    /\ stage = "Settled"
    /\ c # want /\ SameListener(c, want)
    /\ Begin("Update") /\ old' = want /\ want' = c
    /\ updates' = updates + 1
    /\ UNCHANGED <<rules, halved, errors>>

\* An operator continues a rollback that failed.
ContinueRollback ==
    /\ stage = "RollbackFailed"
    /\ Begin("Rollback")
    /\ UNCHANGED <<rules, old, want, halved, updates, errors>>

Delete ==
    /\ stage \in {"Settled", "RollbackFailed"}
    /\ Begin("Delete")
    /\ UNCHANGED <<rules, old, want, halved, updates, errors>>

AlbNext ==
    \/ NextStep \/ MakeCall \/ Finish
    \/ CallRefused \/ CallFails
    \/ StackFails \/ StackSettles
    \/ \E c \in Properties : Update(c)
    \/ ContinueRollback \/ Delete

AlbSpec == AlbInit /\ [][AlbNext]_albVars

-----------------------------------------------------------------------------
(* What the rules promise.                                                 *)

\* Both rules of application a, as the properties c have them, and no other.
Routed(a, c) ==
    /\ Cardinality(RulesOf(a, rules)) = 2
    /\ \A path \in {c.path, "ping"} : \E n \in AppPriority : rules[n] = Forward(c, a, path)

\* When an operation has ended, be it an update that was rolled back from any
\* point, an application is routed to the endpoint if and only if it is
\* registered, with the path, host and secret of the properties; nothing else
\* is forwarded.  (An application whose removal, or whose return in a rollback,
\* failed between its two rules is taken for complete and stays halved.)
RoutesSettled ==
    stage = "Settled" =>
        /\ want.sdk =>
              /\ \A a \in AppId \ halved :
                    IF a \in want.apps THEN Routed(a, want) ELSE RulesOf(a, rules) = {}
              /\ (rules[1] # NoRule) = (want.apps = {})
              /\ want.apps # {} => rules[2] = NoRule /\ rules[3] = NoRule
        /\ ~want.sdk => rules[2] = DefaultForward(want) /\ rules[3] = DefaultPing(want)
        /\ rules[4] = IF want.secret = NoSecret THEN NoRule ELSE AuthLogin(want)

\* No update interrupts an application that it keeps: at every instant, through
\* failures and rollbacks, its endpoint is there, under the old path and host
\* or under the new ones, and is not answered with 400.
KeptApps ==
    want.sdk /\ stage \in {"Update", "Updated", "Rollback", "RollbackFailed"} =>
        \A a \in (old.apps \cap want.apps) \ halved :
            /\ rules[1] = NoRule
            /\ \E n \in AppPriority : /\ rules[n].app = a
                                     /\ \/ rules[n].path = old.path /\ rules[n].host = old.host
                                        \/ rules[n].path = want.path /\ rules[n].host = want.host

\* A rule is created under a priority that is free, and a rollback, which may
\* create again the rules of an application that the update removed, does not
\* find the listener full.  (It may when an application, or the pair of rules
\* for no application, was halved and is now created whole.)
CreatesSucceed ==
    Running /\ calls # << >> /\ Refused(Head(calls)) =>
        /\ rules[Head(calls).at] = NoRule
        /\ stage = "Rollback" /\ Head(calls).at \in AppPriority => halved # {}
=============================================================================
