---------------------------- MODULE MCKernelAction ----------------------------
(* KernelAction for one test: the bootstrap imports the test, the test imports
   a helper in one version and not in the other; the helper is in the source
   tree, in the output tree, or in both, and imports a package library of the
   import dill. *)
EXTENDS KernelAction

CONSTANTS boot, test, helper, app

MCUris     == {boot, test, helper, app}
MCInSeed   == {app}
MCKept     == {<<"bin", boot>>}
MCPrunable == {<<"src", test>>, <<"src", helper>>, <<"bin", helper>>}
MCVersions == {0, 1}
MCImports ==
    [f \in Files |-> [v \in MCVersions |->
        CASE f[2] = boot              -> {test}
          [] f[2] = test /\ v = 0     -> {app}
          [] f[2] = test /\ v = 1     -> {app, helper}
          [] f[2] = helper            -> IF v = 0 THEN {app} ELSE {test}
          [] OTHER                    -> {}]]
=============================================================================
