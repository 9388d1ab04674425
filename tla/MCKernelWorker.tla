---------------------------- MODULE MCKernelWorker ----------------------------
(* KernelWorker on a file in a directory, and a file that takes the directory's
   name; two sandboxes; three import dills, one more than the worker keeps. *)
EXTENDS KernelWorker

CONSTANTS b1, b2, k1, k2, k3, t1, t2

MCSmall   == {<<"d">>, <<"d", "x">>}
MCPaths   == MCSmall \cup {<<"d", "y">>}
MCBases   == {b1, b2}
MCOneBase == {b1}
MCOneKey  == {k1}
MCKeys    == {k1, k2, k3}
MCTemps   == {t1, t2}
=============================================================================
