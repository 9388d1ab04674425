------------------------------- MODULE MCKernel -------------------------------
(* The compile of a test to a kernel: what Bazel takes for up to date between two
   actions, and what the persistent worker does within them.  Init picks one; the other
   stands at its start. *)
EXTENDS MCKernelAction, MCKernelWorker

VARIABLE part

FirstSources == [f \in Kept \cup Prunable \cup {Dill} |-> 0]
SomeRequest == CHOOSE r \in Requests : TRUE

KernelInit ==
    \/ part = "action" /\ request = SomeRequest /\ Init /\ WorkerInit
    \/ part = "worker" /\ disk = FirstSources /\ declared = {} /\ Init /\ WorkerInit

KernelNext ==
    /\ UNCHANGED part
    /\ \/ part = "action" /\ Next /\ UNCHANGED vars
       \/ part = "worker" /\ WorkerNext /\ UNCHANGED actionVars

(* The fairness is the worker's: see WorkerFairSpec. *)
KernelSpec ==
    /\ KernelInit /\ [][KernelNext]_<<part, actionVars, vars>>
    /\ WF_vars(WorkerStep) /\ \A t \in Temps : WF_vars(RemoverRuns(t))
=============================================================================
