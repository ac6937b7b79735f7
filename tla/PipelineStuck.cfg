SPECIFICATION Spec
CONSTANTS
    ing = ing
    kafka = kafka
    Stack = {ing}
    Needs <- Branches
    AppStack = {ing}
    App = {a1}
    Client = {c1}
    Worker = {w1}
    Time = {t0, t1, t2, t3, t4, t5, t6, t7}
    Kinds = {"create", "refresh"}
    MaxExec = 1
    MaxAbrupt = 0
    MaxRetry = 3
    MaxMishaps = 0
    Serial = TRUE
    Prompt = TRUE
    Lag = FALSE
CHECK_DEADLOCK FALSE
INVARIANTS
    SettledStatus
