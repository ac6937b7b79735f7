SPECIFICATION Spec
CONSTANTS
  e1 = e1  e2 = e2  t1 = t1  t2 = t2
  f1 = f1  f2 = f2  a1 = a1  a2 = a2
  Exec = {e1, e2}
  Table = {t1, t2}
  App = {a1, a2}
  File = {f1, f2}
  TableOf <- SameTable
  AppOf <- TwoApps
  Limit = 2
  MaxRetry = 1
  MaxMishaps = 2
  PromptStop = TRUE
  BoundedLag = FALSE
  Snapshot = FALSE
INVARIANTS OneLoaderPerTable InFlightOnLedger
SYMMETRY Executions
