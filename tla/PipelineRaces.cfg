SPECIFICATION Spec
CONSTANTS
    ing = ing
    kafka = kafka
    Stack = {ing}
    Needs <- Branches
    AppStack = {ing}
    App = {a1}
    Client = {c1, c2}
    Worker = {w1}
    Time = {t0, t1, t2, t3, t4, t5, t6, t7, t8, t9, t10}
    Kinds = {"create", "refresh", "update"}
    MaxExec = 2
    MaxAbrupt = 0
    MaxRetry = 1
    MaxMishaps = 0
    Serial = FALSE
    Prompt = TRUE
    Lag = FALSE
CHECK_DEADLOCK FALSE
SYMMETRY Clients
INVARIANTS
    TypeOK
    NoEditLost
