------------------------------ MODULE MCAnalysis ------------------------------
(* What Bazel evaluates of a Flutter project, and what that leaves for its actions: the
   lock and its second reader, the hub of a lock, and a test's working directory.  Init
   picks one; the others stand at the start of an input of theirs. *)
EXTENDS MCPubLock, MCPubHub, MCTestLauncher

VARIABLE part

AHub == CHOOSE h \in GraphProjects : TRUE
ATest == CHOOSE t \in MCTests : t.dirs = <<>>

AnalysisInit ==
    /\ ScanInit
    /\ \/ part = "lock" /\ Init /\ HubStart(AHub) /\ LauncherStart(ATest)
       \/ part = "hub" /\ Start(Pub) /\ HubInit /\ LauncherStart(ATest)
       \/ part = "launcher" /\ Start(Pub) /\ HubStart(AHub) /\ LauncherInit

AnalysisNext ==
    /\ UNCHANGED part
    /\ \/ part = "lock" /\ PathNext /\ UNCHANGED <<hubVars, launcherVars>>
       \/ part = "hub" /\ HubNext /\ UNCHANGED <<vars, scanVars, launcherVars>>
       \/ part = "launcher" /\ LauncherNext /\ UNCHANGED <<vars, scanVars, hubVars>>

analysisVars == <<part, vars, scanVars, hubVars, launcherVars>>
AnalysisSpec == AnalysisInit /\ [][AnalysisNext]_analysisVars
=============================================================================
