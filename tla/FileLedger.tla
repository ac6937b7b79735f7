----------------------------- MODULE FileLedger -----------------------------
(***************************************************************************)
(* What the ledger of files to load promises, whatever fails: a file is    *)
(* recorded when it becomes known, may be loaded any number of times, may  *)
(* be recorded again, and is dropped only when a load of it is done.       *)
(***************************************************************************)
CONSTANT File

VARIABLES
    known,     \* files announced so far
    recorded,  \* files on the ledger
    done       \* files a load was done of

vars == <<known, recorded, done>>

Init == known = {} /\ recorded = {} /\ done = {}

Record(f) ==
    /\ known' = known \cup {f}
    /\ recorded' = recorded \cup {f}
    /\ UNCHANGED done

Load(S) ==
    /\ S \subseteq known
    /\ done' = done \cup S
    /\ UNCHANGED <<known, recorded>>

Drop(S) ==
    /\ S \subseteq done
    /\ recorded' = recorded \ S
    /\ UNCHANGED <<known, done>>

Next ==
    \/ \E f \in File : Record(f)
    \/ \E S \in SUBSET File : Load(S) \/ Drop(S)

Spec == Init /\ [][Next]_vars

\* No known file is neither recorded nor done.
NothingLost == known \subseteq recorded \cup done
=============================================================================
