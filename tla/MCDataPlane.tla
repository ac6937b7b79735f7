----------------------------- MODULE MCDataPlane -----------------------------
(* The way of the data up to the load: the rules that let it in, the jobs     *)
(* that process it, and the schemas it is loaded into.  They share no state,  *)
(* so each behaviour is one of one of them, the others being at rest.         *)
EXTENDS DataJobs, AlbRules, AppSchemas

CONSTANTS a1, a2, x1, x2, h1, h2, k1, k2, q1

VARIABLE part  \* what runs

(* Names are alike: the first properties have the first of each kind.  The   *)
(* listener is a plain one, or has a host and a secret.                       *)
FirstNames ==
    /\ want.apps \in {{}, {a1}, {a1, a2}}
    /\ want.path = x1
    /\ <<want.host, want.secret>> \in {<<NoHost, NoSecret>>, <<h1, k1>>}

(* The host and the secret change together, if at all. *)
Together == (want'.host # want.host) = (want'.secret # want.secret)

(* At rest: a listener without applications. *)
NoListener ==
    /\ ~want.sdk /\ want.apps = {} /\ want.host = NoHost

PlaneInit ==
    /\ Init /\ AlbInit /\ FirstNames /\ SchemaInit
    /\ part \in {"jobs", "rules", "schemas"}
    /\ part # "rules" => NoListener

InJobs(A) == part = "jobs" /\ A /\ UNCHANGED <<part, albVars, schemaVars>>
InRules(A) == part = "rules" /\ A /\ UNCHANGED <<part, vars, schemaVars>>
InSchemas(A) == part = "schemas" /\ A /\ UNCHANGED <<part, vars, albVars>>

PlaneNext ==
    \/ InJobs(Next)
    \/ InRules(AlbNext /\ Together)
    \/ InSchemas(SchemaNext)

planeVars == <<part, vars, albVars, schemaVars>>

(* Fairness and SchemaFairness, each when its part runs. *)
PlaneFairness ==
    /\ WF_planeVars(InJobs(Tick))
    /\ \A o \in Object : WF_planeVars(InJobs(Appear(o)))
    /\ WF_planeVars(InJobs(Invoke))
    /\ WF_planeVars(InJobs(Submitter))
    /\ \A j \in Job : /\ WF_planeVars(InJobs(JobSucceeds(j) \/ JobFails(j)))
                      /\ WF_planeVars(InJobs(HandleFailure(j)))
    /\ \A a \in Schema :
          WF_planeVars(InSchemas(\E i \in DOMAIN runs[a] : RunProceeds(a, i)))

PlaneSpec == PlaneInit /\ [][PlaneNext]_planeVars /\ PlaneFairness
=============================================================================
