----------------------------- MODULE MCLoadData -----------------------------
(* Small instances of the load-data workflow for TLC.                      *)
EXTENDS LoadData, TLC

CONSTANTS e1, e2, t1, t2, f1, f2, a1, a2

\* One table and two files of one application: contention of executions.
SameTable == f1 :> t1 @@ f2 :> t1
SameApp == f1 :> a1 @@ f2 :> a1

\* Two tables.
TwoTables == f1 :> t1 @@ f2 :> t2

\* Two files of different applications: one table load makes two manifests.
TwoApps == f1 :> a1 @@ f2 :> a2

\* Executions are interchangeable, and so are files of one table and one
\* application (used by runs without liveness).
Executions == Permutations(Exec)
ExecutionsAndFiles == Executions \cup Permutations(File)
=============================================================================
