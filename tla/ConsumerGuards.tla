---------------------------- MODULE ConsumerGuards ----------------------------
(* Two checks of the consumer module that plant a defect in its checked-in files, ask
   Bazel what becomes of it, and put the files back: consumer_rules_check.py empties
   the conventional shrink rules, plugin_graph_guard.py --selftest adds a target with
   a missing source.  Either may be killed between two steps and started again over
   what it left, and both may run at once.

   A consumer is what Bazel would say of the module: specs, the shrink rules generated
   for the plugins without any; r8 and unshrunk, the R8 actions of two apps, each
   [roots, sets] with sets a function from ids to [paths, children]; kept, whether R8
   keeps the probe's class without the rules; missing, how it takes a missing source;
   graphs, the repositories of the labels of the apps and of the planted cross-hub app;
   registrants, the plugins each mode's registrant calls (a bag); imported, the plugins
   that the release registrant imports; edges, the kinds of labels that depend directly
   on each native target. *)
EXTENDS Integers, FiniteSets

CONSTANTS
    Consumers,
    Conventional, Custom,       \* the rule files that have to reach R8
    FirstRepos, SecondRepos,    \* the repositories of each project's plugins
    ReleaseCalls, DevCalls,     \* the plugins registered in release, and in debug only
    Kills                       \* bound: how many times a check is killed

ASSUME GuardsAssumption ==
    /\ Kills \in Nat
    /\ \A c \in Consumers : c.missing \in {"named", "unnamed", "accepted"}

VARIABLES
    consumer,
    rules,          \* the conventional rules: whole or emptied
    plants,         \* how many times the missing target is in BUILD.bazel
    dex,            \* whether the APK built last has the probe's class
    shrink,         \* consumer_rules_check.py: [at, original, wrong]
    guard,          \* plugin_graph_guard.py: [at, original, answer]
    kills

guardsVars == <<consumer, rules, plants, dex, shrink, guard, kills>>

GuardsStart(c) ==
    /\ consumer = c
    /\ rules = "whole" /\ plants = 0 /\ dex = "none"
    /\ shrink = [at |-> "idle", original |-> "whole", wrong |-> FALSE]
    /\ guard = [at |-> "idle", original |-> 0, answer |-> "none"]
    /\ kills = 0
GuardsInit == \E c \in Consumers : GuardsStart(c)

\* _input_paths: the paths of the depsets that an action's roots lead to; an id
\* without a depset leads nowhere.
DepSets(a) ==
    {i \in DOMAIN a.sets :
        \A s \in SUBSET DOMAIN a.sets :
            /\ a.roots \cap DOMAIN a.sets \subseteq s
            /\ \A j \in s : a.sets[j].children \cap DOMAIN a.sets \subseteq s
            => i \in s}
InputPaths(actions) ==
    UNION {UNION {a.sets[i].paths : i \in DepSets(a)} : a \in actions}

\* Two targets of one name: the package does not load.
Loads == plants < 2

\* What R8 leaves of the class that only the conventional rules name.
Dex(text) ==
    IF consumer.kept \/ (text = "whole" /\ Conventional \in InputPaths(consumer.r8))
    THEN "kept" ELSE "stripped"

ShrinkTo(at) == shrink' = [shrink EXCEPT !.at = at]
ShrinkStep(from, to, ok) ==
    /\ shrink.at = from /\ ShrinkTo(IF ok THEN to ELSE "failed")
    /\ UNCHANGED <<consumer, rules, plants, dex, guard, kills>>

StartShrink ==
    /\ shrink.at \in {"idle", "killed"}
    /\ shrink' = [at |-> "specs", original |-> "whole", wrong |-> FALSE]
    /\ UNCHANGED <<consumer, rules, plants, dex, guard, kills>>

CheckSpecs == ShrinkStep("specs", "inputs", consumer.specs = {})
CheckInputs ==
    ShrinkStep("inputs", "first", Loads /\ {Conventional, Custom} \subseteq InputPaths(consumer.r8))

\* A build that fails, in Bazel or because the package does not load, leaves the APK.
BuildDex(built) ==
    \/ built /\ Loads /\ dex' = Dex(rules)
    \/ ~built /\ UNCHANGED dex

FirstBuild ==
    /\ shrink.at = "first"
    /\ \E built \in BOOLEAN :
          /\ BuildDex(built)
          /\ ShrinkTo(IF built /\ dex' = "kept" THEN "plant" ELSE "failed")
    /\ UNCHANGED <<consumer, rules, plants, guard, kills>>

EmptyRules ==
    /\ shrink.at = "plant"
    /\ shrink' = [shrink EXCEPT !.at = "planted", !.original = rules]
    /\ rules' = "empty"
    /\ UNCHANGED <<consumer, plants, dex, guard, kills>>

StillKept(d) == d = "kept"

(* Mutant: a planted build that fails ends the check at once. *)
PlantedBuildOrFail ==
    /\ shrink.at = "planted"
    /\ \E built \in BOOLEAN :
          /\ BuildDex(built)
          /\ shrink' = [shrink EXCEPT !.at = IF built THEN "restore" ELSE "failed",
                           !.wrong = ~built \/ StillKept(dex')]
    /\ UNCHANGED <<consumer, rules, plants, guard, kills>>

\* The finally clause runs whether the planted build failed, kept the class or not.
PlantedBuild ==
    /\ shrink.at = "planted"
    /\ \E built \in BOOLEAN :
          /\ BuildDex(built)
          /\ shrink' = [shrink EXCEPT !.at = "restore", !.wrong = ~built \/ StillKept(dex')]
    /\ UNCHANGED <<consumer, rules, plants, guard, kills>>

RestoreRules ==
    /\ shrink.at = "restore"
    /\ rules' = shrink.original
    /\ ShrinkTo("rebuild")
    /\ UNCHANGED <<consumer, plants, dex, guard, kills>>

RestoredBuild ==
    /\ shrink.at = "rebuild"
    /\ \E built \in BOOLEAN :
          /\ BuildDex(built)
          /\ ShrinkTo(IF built /\ ~shrink.wrong /\ dex' = "kept" THEN "unshrunk" ELSE "failed")
    /\ UNCHANGED <<consumer, rules, plants, guard, kills>>

CheckUnshrunk ==
    ShrinkStep("unshrunk", "passed", Loads /\ InputPaths(consumer.unshrunk) = {})

KillShrink ==
    /\ shrink.at \notin {"idle", "passed", "failed", "killed"}
    /\ kills < Kills /\ kills' = kills + 1
    /\ ShrinkTo("killed")
    /\ UNCHANGED <<consumer, rules, plants, dex, guard>>

-----------------------------------------------------------------------------
GuardTo(at) == guard' = [guard EXCEPT !.at = at]
GuardStep(from, to, ok) ==
    /\ guard.at = from /\ GuardTo(IF ok THEN to ELSE "failed")
    /\ UNCHANGED <<consumer, rules, plants, dex, shrink, kills>>

\* With --selftest, or only the check.
StartGuard ==
    /\ guard.at \in {"idle", "killed"}
    /\ \E at \in {"plant", "graphs"} :
          guard' = [at |-> at, original |-> 0, answer |-> "none"]
    /\ UNCHANGED <<consumer, rules, plants, dex, shrink, kills>>

PlantTarget ==
    /\ guard.at = "plant"
    /\ guard' = [guard EXCEPT !.at = "query", !.original = plants]
    /\ plants' = plants + 1
    /\ UNCHANGED <<consumer, rules, dex, shrink, kills>>

QueryPlanted ==
    /\ guard.at = "query"
    /\ guard' = [guard EXCEPT !.at = "restore",
                     !.answer = IF Loads THEN consumer.missing ELSE "unnamed"]
    /\ UNCHANGED <<consumer, rules, plants, dex, shrink, kills>>

RestoreTarget ==
    /\ guard.at = "restore"
    /\ plants' = guard.original
    /\ GuardTo("rejected")
    /\ UNCHANGED <<consumer, rules, dex, shrink, kills>>

RejectedByName(answer) == answer = "named"

CheckRejected == GuardStep("rejected", "empty", RejectedByName(guard.answer))

\* A query that selects nothing succeeds, and is refused for returning no labels.
CheckEmpty == GuardStep("empty", "cross", Loads)

GraphOf(app) == consumer.graphs[app]

Apart(first, second) ==
    GraphOf(first) \cap SecondRepos = {} /\ GraphOf(second) \cap FirstRepos = {}
HasMarkers(first, second) ==
    FirstRepos \subseteq GraphOf(first) /\ SecondRepos \subseteq GraphOf(second)

\* check with the planted app has to refuse it, and for its crossing, not for a
\* marker that is missing.
CheckCross ==
    GuardStep("cross", "graphs",
        Loads /\ HasMarkers("cross", "second") /\ ~Apart("cross", "second"))

GraphsIsolated == HasMarkers("first", "second") /\ Apart("first", "second")

CheckGraphs == GuardStep("graphs", "registrants", Loads /\ GraphsIsolated)

\* Each plugin of a mode is registered once, and nothing else; a release does not even
\* import what is for development.
Registers(mode, plugins) ==
    consumer.registrants[mode] = [p \in plugins |-> 1]
CheckRegistrants ==
    GuardStep("registrants", "edges",
        /\ Registers("debug", ReleaseCalls \cup DevCalls)
        /\ Registers("release", ReleaseCalls)
        /\ consumer.imported \cap DevCalls = {})
CheckEdges ==
    GuardStep("edges", "passed",
        \A t \in DOMAIN consumer.edges :
            "native" \in consumer.edges[t] /\ "dart" \notin consumer.edges[t])

KillGuard ==
    /\ guard.at \notin {"idle", "passed", "failed", "killed"}
    /\ kills < Kills /\ kills' = kills + 1
    /\ GuardTo("killed")
    /\ UNCHANGED <<consumer, rules, plants, dex, shrink>>

GuardsNext ==
    \/ StartShrink \/ CheckSpecs \/ CheckInputs \/ FirstBuild \/ EmptyRules \/ PlantedBuild
    \/ RestoreRules \/ RestoredBuild \/ CheckUnshrunk \/ KillShrink
    \/ StartGuard \/ PlantTarget \/ QueryPlanted \/ RestoreTarget \/ CheckRejected
    \/ CheckEmpty \/ CheckCross \/ CheckGraphs \/ CheckRegistrants \/ CheckEdges \/ KillGuard

GuardsSpec == GuardsInit /\ [][GuardsNext]_guardsVars

-----------------------------------------------------------------------------
(* The state keeps its types: a check that is not killed has put the files back when
   it ends, whichever of its builds failed. *)
GuardsTypeOK ==
    /\ rules \in {"whole", "empty"} /\ dex \in {"none", "kept", "stripped"}
    /\ plants \in 0..(kills + 1) /\ kills \in 0..Kills
    /\ kills = 0 =>
          /\ rules = "empty" => shrink.at \in {"planted", "restore"}
          /\ plants > 0 => guard.at \in {"query", "restore"}

(* When the rules check passes, R8 keeps the class by the conventional rules and by
   nothing else, the rules are back, the APK is one built with them, and the plain
   app is not shrunk: also after a run that was killed with the rules emptied, and
   beside a graph guard at work (_check_rule_dependent_dex, main). *)
RulesCheckMeansIt ==
    shrink.at = "passed" =>
        /\ Dex("whole") = "kept" /\ Dex("empty") = "stripped"
        /\ Custom \in InputPaths(consumer.r8) /\ InputPaths(consumer.unshrunk) = {}
        /\ rules = "whole" /\ dex = "kept"

(* When the guard passes with --selftest, Bazel has refused the missing source by its
   name, the guard has refused a graph that crosses projects, and no planted target
   is left in the BUILD file, this run's or an earlier one's (_check_query_failure,
   selftest). *)
SelftestMeansIt ==
    guard.at = "passed" /\ guard.answer # "none" =>
        /\ consumer.missing = "named" /\ plants = 0
        /\ consumer.graphs["cross"] \cap SecondRepos # {}
              \/ consumer.graphs["second"] \cap FirstRepos # {}

(* Neither check passes over a defect it did not see rejected, or leaves one behind,
   alone, killed and started again, or beside the other. *)
GuardsMeanIt == GuardsTypeOK /\ RulesCheckMeansIt /\ SelftestMeansIt
=============================================================================
