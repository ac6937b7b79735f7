SPECIFICATION LiveSpec
CONSTANTS
    ing = ing
    kafka = kafka
    Stack = {ing, kafka}
    Needs <- Chain
    AppStack = {ing}
    App = {a1}
    Client = {c1}
    Worker = {w1, w2}
    Time = {t0, t1, t2, t3, t4, t5, t6, t7, t8, t9, t10, t11, t12}
    Kinds = {"create", "app", "upgrade", "retry", "delete", "remove"}
    MaxExec = 3
    MaxAbrupt = 2
    MaxRetry = 3
    MaxMishaps = 1
    Serial = TRUE
    Prompt = TRUE
    Lag = FALSE
CHECK_DEADLOCK FALSE
INVARIANTS
    SettledStatus
    OneExecution
    DeletedOnlyWhenGone
    AppsDeployed
PROPERTIES
    Settles
