SPECIFICATION Spec
CONSTANTS
    ing = ing
    kafka = kafka
    Stack = {ing}
    Needs <- Branches
    AppStack = {ing}
    App = {a1}
    Client = {c1}
    Worker = {w1}
    Time = {t0, t1, t2, t3, t4, t5, t6, t7}
    Kinds = {"create", "force"}
    MaxExec = 1
    MaxAbrupt = 0
    MaxRetry = 0
    MaxMishaps = 1
    Serial = FALSE
    Prompt = FALSE
    Lag = TRUE
CHECK_DEADLOCK FALSE
INVARIANTS
    ReadyForApps
