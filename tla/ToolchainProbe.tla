---------------------------- MODULE ToolchainProbe ----------------------------
(* android_toolchain_probe.py: one scenario, from the command line to its verdict.
   Each runs Bazel on a consumer module under an output base, which keeps a server;
   what a scenario made for itself it has to stop and remove again, however it ends,
   but when it is killed.

   A world is what Bazel would do: scenario and given, the output base that the command
   line names ("none", "fresh" or "used"); environment, the Android variables that are
   set; coreRefers, whether core sources name the Android module; repos and leftover,
   the repositories that the core consumer's build fetches under an environment and
   those that a used base has; graph, the core module's dependencies as a tree of
   [name, deps]; fetch, how fetching the NDK without its variable ends; lock, what
   module resolution writes under an environment. *)
EXTENDS Integers, Sequences, FiniteSets, SequencesExt

CONSTANTS
    Worlds,
    Forbidden,          \* RULESET_ANDROID_REPO_MARKERS: repositories core must not fetch
    CoreModules         \* CORE_MODULE_SUBTREE

\* The modules named in a tree, down to a depth that no walk over CoreModules exceeds.
MentionedBy(mentions) == mentions \cup UNION {ToSet(m.deps) : m \in mentions}
Mentions(tree) ==
    LET down[n \in 0..Cardinality(CoreModules) + 1] ==
            IF n = 0 THEN ToSet(tree) ELSE MentionedBy(down[n - 1])
    IN  down
TreeNames(tree) == {m.name : m \in Mentions(tree)[Cardinality(CoreModules) + 1]}

(* The core module has finitely many modules below it; a graph's dependencies are lists;
   fetching the NDK ends in one of three ways. *)
ASSUME ProbeAssumption ==
    /\ IsFiniteSet(CoreModules)
    /\ \A w \in Worlds :
          /\ w.fetch \in {"named", "unnamed", "fetched"}
          /\ w.scenario \in {"core-isolation", "missing-ndk", "lock-portability", "analysis",
                             "inventory", "compile-probe"}
          /\ w.graph \in Seq(ToSet(w.graph))
          /\ \A n \in 0..Cardinality(CoreModules) + 1 :
                \A m \in Mentions(w.graph)[n] : m.deps \in Seq(ToSet(m.deps))

VARIABLES
    world,
    step,               \* where the scenario is, "done" or "killed"
    verdict,            \* "none", "passed", "failed"
    why,                \* what it failed for
    base,               \* the output bases that have a directory, that have a server, and
                        \* whose server would not stop: [dir, server, unstopped]
    repos,              \* what is under the scenario's base
    names, unvisited,   \* the modules met, and the stack of those to visit
    locks               \* the locks resolved so far

probeVars == <<world, step, verdict, why, base, repos, names, unvisited, locks>>

Bases == {"default", "given", "temporary", "unset", "set"}
Isolated == {"core-isolation", "missing-ndk"}
OutputBase ==
    IF world.given # "none" THEN "given"
    ELSE IF world.scenario \in Isolated THEN "temporary" ELSE "default"

ProbeStart(w) ==
    /\ world = w /\ step = "start" /\ verdict = "none" /\ why = "none"
    /\ base = [dir    |-> {"default"} \cup (IF w.given = "used" THEN {"given"} ELSE {}),
               server |-> IF w.given = "used" THEN {"given"} ELSE {}, unstopped |-> {}]
    /\ repos = IF w.given = "used" THEN w.leftover ELSE {}
    /\ names = {} /\ unvisited = <<>> /\ locks = <<>>
ProbeInit == \E w \in Worlds : ProbeStart(w)

Judge(ok, reason) ==
    /\ verdict' = IF ok THEN "passed" ELSE "failed"
    /\ why' = IF ok THEN "none" ELSE reason

ServerUp(b) == base' = [base EXCEPT !.dir = @ \cup {b}, !.server = @ \cup {b}]

\* _shutdown_output_base: a shutdown that fails is passed over.
AskToStop(b) ==
    \/ base' = [base EXCEPT !.server = @ \ {b}]
    \/ base' = [base EXCEPT !.unstopped = @ \cup {b}]

\* The environment a scenario gives to Bazel.
CoreEnvironment == {}
WithoutNdk == world.environment \ {"ANDROID_NDK_HOME"}

(* Mutant: a base that holds earlier work will do. *)
AnyBase == TRUE

FreshBase == OutputBase = "temporary" \/ repos = {}

CheckFresh ==
    /\ step = "start" /\ world.scenario \in Isolated
    /\ LET refers == world.scenario = "core-isolation" /\ world.coreRefers
       IN  /\ IF refers /\ OutputBase = "given" THEN UNCHANGED base
              ELSE base' = [base EXCEPT !.dir = @ \cup {OutputBase}]
           /\ IF ~refers /\ FreshBase
              THEN step' = "bazel" /\ UNCHANGED <<verdict, why>>
              ELSE step' = "finally" /\ Judge(FALSE, IF refers THEN "references" ELSE "base")
    /\ UNCHANGED <<world, repos, names, unvisited, locks>>

CoreBuild ==
    /\ step = "bazel" /\ world.scenario = "core-isolation"
    /\ ServerUp(OutputBase)
    /\ repos' = repos \cup world.repos[CoreEnvironment]
    /\ IF repos' \cap Forbidden = {}
       THEN step' = "mod" /\ UNCHANGED <<verdict, why>>
       ELSE step' = "finally" /\ Judge(FALSE, "repositories")
    /\ UNCHANGED <<world, names, unvisited, locks>>

ReadGraph ==
    /\ step = "mod" /\ step' = "graph"
    /\ unvisited' = world.graph
    /\ UNCHANGED <<world, verdict, why, base, repos, names, locks>>

\* The build or `mod graph` fails, or leaves nothing to read: no external directory, no
\* JSON, no single core node.
BazelFails ==
    /\ step \in {"bazel", "mod"} /\ world.scenario = "core-isolation"
    /\ ServerUp(OutputBase)
    /\ step' = "finally" /\ Judge(FALSE, "bazel")
    /\ UNCHANGED <<world, repos, names, unvisited, locks>>

\* The module graph is walked from the end; a module's dependencies are those of the
\* node of it that comes up first.
VisitModule ==
    /\ step = "graph" /\ unvisited # <<>>
    /\ LET node == Last(unvisited)
       IN  /\ names' = names \cup {node.name}
           /\ unvisited' = Front(unvisited) \o (IF node.name \in names THEN <<>> ELSE node.deps)
    /\ UNCHANGED <<world, step, verdict, why, base, repos, locks>>

JudgeSubtree ==
    /\ step = "graph" /\ unvisited = <<>>
    /\ step' = "finally" /\ Judge(names = CoreModules, "subtree")
    /\ UNCHANGED <<world, base, repos, names, unvisited, locks>>

FetchNdk ==
    /\ step = "bazel" /\ world.scenario = "missing-ndk"
    /\ ServerUp(OutputBase)
    /\ step' = "finally" /\ Judge(world.fetch = "named", world.fetch)
    /\ UNCHANGED <<world, repos, names, unvisited, locks>>

Shutdown ==
    /\ step = "finally" /\ step' = "cleanup"
    /\ AskToStop(OutputBase)
    /\ UNCHANGED <<world, verdict, why, repos, names, unvisited, locks>>

\* A directory that cannot be removed is a failure of the scenario's own.
CleanUp(dirs, next) ==
    \/ /\ base' = [base EXCEPT !.dir = @ \ dirs]
       /\ step' = next /\ UNCHANGED <<verdict, why>>
    \/ /\ base.dir \cap dirs # {} /\ UNCHANGED base
       /\ step' = "done" /\ Judge(FALSE, "cleanup")

RemoveTemporary ==
    /\ step = "cleanup"
    /\ CleanUp({"temporary"}, "done")
    /\ UNCHANGED <<world, repos, names, unvisited, locks>>

-----------------------------------------------------------------------------
\* lock-portability makes its own bases, whatever the command line names.
StartLocks ==
    /\ step = "start" /\ world.scenario = "lock-portability"
    /\ IF "ANDROID_NDK_HOME" \in world.environment
       THEN step' = "resolve" /\ UNCHANGED <<verdict, why>>
       ELSE step' = "done" /\ Judge(FALSE, "environment")
    /\ UNCHANGED <<world, base, repos, names, unvisited, locks>>

LockBase == IF locks = <<>> THEN "unset" ELSE "set"
LockEnvironment == IF locks = <<>> THEN WithoutNdk ELSE world.environment

ResolveLock ==
    /\ step = "resolve" /\ step' = "stop"
    /\ ServerUp(LockBase)
    /\ \/ UNCHANGED <<verdict, why>>
       \/ Judge(FALSE, "bazel")
    /\ UNCHANGED <<world, repos, names, unvisited, locks>>

StopServer ==
    /\ step = "stop" /\ step' = IF verdict = "none" THEN "read" ELSE "remove"
    /\ AskToStop(LockBase)
    /\ UNCHANGED <<world, verdict, why, repos, names, unvisited, locks>>

ReadLock ==
    /\ step = "read"
    /\ \/ /\ locks' = Append(locks, world.lock[LockEnvironment])
          /\ step' = IF locks = <<>> THEN "resolve" ELSE "remove"
          /\ UNCHANGED <<verdict, why>>
       \/ step' = "remove" /\ Judge(FALSE, "no lock") /\ UNCHANGED locks
    /\ UNCHANGED <<world, base, repos, names, unvisited>>

RemoveScratch ==
    /\ step = "remove"
    /\ CleanUp({"unset", "set"}, IF verdict = "none" THEN "compare" ELSE "done")
    /\ UNCHANGED <<world, repos, names, unvisited, locks>>

CompareLocks ==
    /\ step = "compare" /\ step' = "done"
    /\ Judge(locks[1] = locks[2] /\ locks[2] \cap {"variable", "path"} = {}, "lock")
    /\ UNCHANGED <<world, base, repos, names, unvisited, locks>>

-----------------------------------------------------------------------------
\* The scenarios that look at the configured repositories, on the server there is.
RunPlain ==
    /\ step = "start" /\ world.scenario \in {"analysis", "inventory", "compile-probe"}
    /\ step' = "done" /\ ServerUp(OutputBase)
    /\ \E ok \in BOOLEAN : Judge(ok, world.scenario)
    /\ UNCHANGED <<world, repos, names, unvisited, locks>>

Kill ==
    /\ step \notin {"done", "killed"} /\ step' = "killed"
    /\ UNCHANGED <<world, verdict, why, base, repos, names, unvisited, locks>>

ProbeNext ==
    \/ CheckFresh \/ CoreBuild \/ ReadGraph \/ VisitModule \/ JudgeSubtree \/ FetchNdk
    \/ BazelFails \/ Shutdown \/ RemoveTemporary \/ StartLocks \/ ResolveLock
    \/ StopServer \/ ReadLock \/ RemoveScratch \/ CompareLocks \/ RunPlain \/ Kill

ProbeSpec == ProbeInit /\ [][ProbeNext]_probeVars

-----------------------------------------------------------------------------
(* The state keeps its types, and a server's output base is there as long as it runs,
   unless it would not stop (_shutdown_output_base). *)
ProbeTypeOK ==
    /\ verdict \in {"none", "passed", "failed"} /\ (verdict = "failed") = (why # "none")
    /\ base.dir \subseteq Bases /\ base.server \subseteq base.dir \cup base.unstopped
    /\ step = "done" => verdict # "none"
    /\ Len(locks) <= 2

\* The output bases whose server a scenario has to stop.
ToStop == IF world.scenario \in Isolated THEN {OutputBase} ELSE {"unset", "set"}

(* A scenario that ends by itself has asked every server it is to stop: the one that is
   left is one that would not stop.  A directory of its making is left only by a scenario
   that failed because it could not remove it, whichever of its other steps failed. *)
NothingLeftRunning ==
    step = "done" =>
        /\ base.server \cap ToStop \subseteq base.unstopped
        /\ base.dir \cap {"temporary", "unset", "set"} # {} => why = "cleanup"

DepNames(m) == {d.name : d \in ToSet(m.deps)}
\* Every mention of a module has the same dependencies.
MentionsAgree(tree) ==
    \A m, n \in Mentions(tree)[Cardinality(CoreModules)] :
        m.name = n.name => DepNames(m) = DepNames(n)

(* core-isolation passes only when the core consumer, without Android variables, fetches
   nothing forbidden, the core module depends on nothing but listed modules, and each of
   those is mentioned somewhere with dependencies that are all listed; so that, where a
   module has its dependencies wherever it is mentioned, the tree is exactly the list.
   lock-portability passes only when the lock is the same with and without the NDK's
   variable (run_core_isolation, run_lock_portability). *)
PassMeansIsolation ==
    step = "done" /\ verdict = "passed" =>
        /\ world.scenario = "core-isolation" =>
              /\ world.repos[{}] \cap Forbidden = {}
              /\ {m.name : m \in ToSet(world.graph)} \subseteq CoreModules
              /\ \A name \in CoreModules :
                    \E m \in Mentions(world.graph)[Cardinality(CoreModules)] :
                        m.name = name /\ DepNames(m) \subseteq CoreModules
              /\ MentionsAgree(world.graph) => TreeNames(world.graph) = CoreModules
        /\ world.scenario = "lock-portability" =>
              \A e \in SUBSET {"ANDROID_HOME"} : e \subseteq world.environment
                  /\ world.environment \subseteq e \cup {"ANDROID_NDK_HOME"} =>
                     world.lock[e] = world.lock[e \cup {"ANDROID_NDK_HOME"}]

(* core-isolation holds against the consumer only what the consumer fetched: what an
   earlier build left under a base is never taken for its doing (_fresh_output_base). *)
BlamesTheConsumer == why = "repositories" => world.repos[{}] \cap Forbidden # {}

(* The verdict is the consumer's, and what a scenario made is gone when it ends. *)
ProbesMeanIt ==
    /\ ProbeTypeOK /\ NothingLeftRunning
    /\ PassMeansIsolation /\ BlamesTheConsumer
=============================================================================
