CONSTANTS
    Shapes <- WithRedshift
    Edits <- OneEdit
    FirstKeys <- AnyKey
    MaxExec = 3
    MaxMishaps = 1
SPECIFICATION StackWorkflowSpec
CHECK_DEADLOCK FALSE
INVARIANTS
    DependenciesHold
    NoneForgotten
