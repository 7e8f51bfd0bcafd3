-------------------------- MODULE MCWorkerDispatch --------------------------
(***************************************************************************)
(* Instances of WorkerDispatch for TLC.                                    *)
(***************************************************************************)
EXTENDS WorkerDispatch

CONSTANTS t1, t2, w1, w2

TwoWorkers == <<w1, w2>>

\* Each thread dispatches one task.
OneEach == [th \in Thread |-> 1]

\* Tasks that both workers fit, or the second one only.
BothFit == {{w1, w2}, {w2}}
=============================================================================
