-------------------------------- MODULE MCTools --------------------------------
(* One instance of the tools' modules: Init picks the tool that runs, and the
   others stand at the start of an input of theirs. *)
EXTENDS NativeAssets, LibEntry, MCApkTable, CiGate, ConsumerGuards, ToolchainProbe,
        PubspecFacts, TLC

VARIABLE tool

-----------------------------------------------------------------------------
(* merge_native_assets.py, check_native_assets.py: up to three bundles of one or two
   paths; one or two ABIs; jars in their right place, in none and in another's. *)
F == <<"absolute", "f">>
G == <<"absolute", "g">>
S == <<"system", "g">>
Same  == {[p \in {"p"} |-> 1]}
Trees == [{"p"} -> {1, 2}] \cup [{"p", "q"} -> {1}]
Slots == [{} -> {{}}] \cup [{"arm"} -> {{}, {F}, {F, G}}] \cup [{"x86"} -> {{F}, {S}}]
         \cup [{"arm", "x86"} -> {{F}, {F, S}}]
FewSlots == [{"arm"} -> {{F}}] \cup [{"x86"} -> {{F}}]
AssetManifests(formats, slots) == {Missing} \cup [format : formats, assets : slots]
Two   == [1..2 -> [tree : Same, manifest : AssetManifests({Absent, 1}, Slots)]]
Three == [1..3 -> [tree : Same, manifest : AssetManifests({Absent, 1, 2}, FewSlots)]]
Bare  == [1..3 -> [tree : Trees, manifest : {Missing}]]
MCBundleLists == {<<>>} \cup Two \cup Three \cup Bare

Jar(abi, kind, libs) == [abi |-> abi, kind |-> kind, libs |-> libs]
ArmF == <<"arm", "f">>
ArmG == <<"arm", "g">>
X86F == <<"x86", "f">>
Jars == { <<>>,
          <<Jar("arm", "engine", {ArmF})>>,
          <<Jar("arm", "engine", {ArmF}), Jar("arm", "engine", {ArmG})>>,
          <<Jar("arm", "engine", {}), Jar("arm", "recipe", {ArmF})>>,
          <<Jar("arm", "recipe", {ArmG}), Jar("x86", "engine", {X86F})>>,
          <<Jar("x86", "engine", {X86F}), Jar("arm", "engine", {ArmF})>>,
          <<Jar("x86", "engine", {ArmF})>> }
MCJarLists == [abis : {{"arm"}, {"arm", "x86"}}, jars : Jars, required : {{}, {"engine"}}]

-----------------------------------------------------------------------------
(* lib_entry.py: three candidates, one of them generated and one a part at will, and a
   file of another package, with every import of at most two of the others, cycles,
   missing files and unknown packages among them. *)
FileA == <<"app", "a">>
FileB == <<"app", "b">>
Generated == <<"out", "g">>
FileD == <<"dep", "d">>
MCWeb == <<"web">>
PackageA == <<"package", "app", "a">>
PackageB == <<"package", "app", "b">>
Uris == {MCWeb, <<"relative", "a">>, PackageB, <<"package", "dep", "d">>}
FewUris == {u \in SUBSET Uris : Cardinality(u) <= 2}
Library(uris) == [part |-> FALSE, uris |-> uris]
MCProjects ==
    { [source |-> (FileA :> Library(a)) @@ (FileB :> [part |-> bp, uris |-> b])
                  @@ (FileD :> Library(d)) @@ (Generated :> Library(g)),
       config |-> ("dep" :> "dep") @@ ("app" :> "old"), package |-> "app", lib |-> "app",
       candidates |-> {FileA, FileB, Generated}] :
      a \in FewUris, b \in FewUris, bp \in BOOLEAN,
      d \in {{}, {MCWeb}, {PackageB}, {<<"package", "gone", "x">>, PackageA}},
      g \in {{}, {PackageA, <<"dart">>}, {<<"relative", "a">>}} }

-----------------------------------------------------------------------------
(* matrix_gate.py: two OSes, one hyphenated as in ci.yml, two examples; tables that
   agree, lack an example, or say another digest; kernels that agree, differ, or are
   not there; and matrices that lack an example or hyphenate one. *)
Mac == <<"mac", "15">>
Linux == <<"linux">>
DemoJob == <<"demo">>
OtherJob == <<"other">>
Split == <<"de", "mo">>
CiJobs == {Mac, Linux} \X {DemoJob, OtherJob, Split}
CiRow(e) == [Row1 EXCEPT !.example = e]
CiRec(e, digest) == RecordedRow(CiRow(e), digest)
CiTables(n) == { <<CiRec(DemoJob, n), CiRec(OtherJob, n)>>, <<CiRec(DemoJob, n)>>,
                 <<CiRec(DemoJob, n), CiRec(OtherJob, 0)>> }
KernelsOf(d) == [j \in CiJobs |-> IF j = <<Linux, OtherJob>> THEN d ELSE j[2]]
MCPipelines ==
    [oses : {{Mac, Linux}},
     examples : {{DemoJob, OtherJob}, {DemoJob}, {DemoJob, Split}},
     table : {<<CiRow(DemoJob), CiRow(OtherJob)>>},
     tables : {(Mac :> a) @@ (Linux :> b) : a \in CiTables(1), b \in CiTables(2)},
     built : {[j \in CiJobs |-> <<CiRec(j[2], IF j[1] = Mac THEN 1 ELSE 2)>>]},
     kernels : {KernelsOf(OtherJob), KernelsOf(DemoJob), KernelsOf(NoDigests)}]

-----------------------------------------------------------------------------
(* consumer_rules_check.py and plugin_graph_guard.py: a consumer as it should be, and
   one each with every defect that a check looks for. *)
Sets == (1 :> [paths |-> {"a"}, children |-> {2, 9}])
        @@ (2 :> [paths |-> {"conv"}, children |-> {1}])
        @@ (3 :> [paths |-> {"cust"}, children |-> {}])
R8Action(roots) == [roots |-> roots, sets |-> Sets]
Good ==
    [specs |-> {}, r8 |-> {R8Action({1, 3})}, unshrunk |-> {}, kept |-> FALSE,
     missing |-> "named",
     graphs |-> ("first" :> {"pub", "sdk"}) @@ ("second" :> {"cpub", "sdk"})
                @@ ("cross" :> {"pub", "cpub"}),
     registrants |-> ("debug" :> ("p" :> 1 @@ "d" :> 1)) @@ ("release" :> ("p" :> 1)),
     imported |-> {"p"}, edges |-> ("standard" :> {"native"})]
MCConsumers ==
    {Good, [Good EXCEPT !.kept = TRUE], [Good EXCEPT !.specs = {"x"}]}
    \cup {[Good EXCEPT !.r8 = r] : r \in {{R8Action({1}), R8Action({3})}, {R8Action({3})}}}
    \cup {[Good EXCEPT !.unshrunk = {R8Action({3})}]}
    \cup {[Good EXCEPT !.missing = m] : m \in {"unnamed", "accepted"}}
    \cup {[Good EXCEPT !.graphs["cross"] = g] : g \in {{"cpub"}, {"pub"}}}
    \cup {[Good EXCEPT !.graphs["second"] = {"pub", "cpub"}],
          [Good EXCEPT !.registrants["release"] = "p" :> 2],
          [Good EXCEPT !.imported = {"p", "d"}],
          [Good EXCEPT !.edges["standard"] = {"native", "dart"}]}

-----------------------------------------------------------------------------
(* android_toolchain_probe.py: each scenario under every output base and environment
   it depends on, with the worlds it has to pass and to fail in. *)
Node(name, deps) == [name |-> name, deps |-> deps]
NodeC == Node("c", <<>>)
NodeB == Node("b", <<NodeC>>)
Home == "ANDROID_HOME"
Ndk == "ANDROID_NDK_HOME"
Envs == SUBSET {Home, Ndk}
CleanRepos == [e \in Envs |-> IF e = {} THEN {"core"} ELSE {"core", "androidsdk"}]
World ==
    [scenario |-> "core-isolation", given |-> "none", environment |-> {Home, Ndk},
     coreRefers |-> FALSE, repos |-> CleanRepos, leftover |-> {"core", "androidsdk"},
     graph |-> <<Node("a", <<NodeB>>), NodeB>>, fetch |-> "named",
     lock |-> [e \in Envs |-> {}]]
\* In the last two trees the walk meets b first where it has no dependencies; in one of
\* them that hides a module from it.
BareB == Node("b", <<>>)
ModuleTrees ==
    { World.graph, <<Node("a", <<BareB>>), NodeB>>,
      <<Node("a", <<>>), NodeB, Node("d", <<>>)>>, <<NodeB>>,
      <<NodeB, Node("a", <<BareB>>)>>,
      <<NodeC, Node("b", <<Node("e", <<>>)>>), Node("a", <<BareB>>)>> }
Locks ==
    { [e \in Envs |-> {}], [e \in Envs |-> {"path"}],
      [e \in Envs |-> IF Ndk \in e THEN {"digest"} ELSE {}], [e \in Envs |-> e \cap {Home}] }
Given == {"none", "fresh", "used"}
MCWorlds ==
    { [World EXCEPT !.given = g, !.coreRefers = r, !.graph = t, !.repos = x,
          !.environment = e] :
      g \in Given, r \in BOOLEAN, t \in ModuleTrees, e \in Envs,
      x \in {CleanRepos, [e \in Envs |-> {"androidndk"}]} }
    \cup {[World EXCEPT !.scenario = "missing-ndk", !.environment = {Home, Ndk},
              !.given = g, !.fetch = f] : g \in Given, f \in {"named", "unnamed", "fetched"}}
    \cup {[World EXCEPT !.scenario = "lock-portability", !.environment = e, !.lock = l] :
          e \in Envs, l \in Locks}
    \cup {[World EXCEPT !.scenario = s, !.environment = {}, !.given = g] :
          s \in {"analysis", "inventory", "compile-probe"}, g \in {"none", "used"}}

-----------------------------------------------------------------------------
(* read_pubspec.py, check_bundle_pubspec.py, inject_version.py: pubspecs whose version
   and refused keys stand where they count and where they do not, and manifests that
   bind, rename or lack the namespace or say a version already. *)
L(indent, key, value) ==
    [indent |-> indent, key |-> key, plain |-> TRUE,
     value |-> IF value = "" THEN <<>> ELSE <<value>>]
V(name, plus, code) == [name |-> name, plus |-> plus, code |-> code]
AppName == L(0, "name", "app")
VersionLine(v) == [L(0, "version", "") EXCEPT !.value = <<v>>]
FlutterKey == L(0, "flutter", "")
Comment == L(0, "", "")
Transformers(indent) == L(indent, "transformers", "")
V17 == VersionLine(V("1", TRUE, "7"))
V1 == VersionLine(V("1", FALSE, ""))
MCPubspecs ==
    { <<AppName, V17>>, <<AppName, V1>>,
      <<VersionLine(V("2", TRUE, "7")), AppName, FlutterKey, L(2, "assets", ""), Comment,
        Transformers(4)>>,
      <<L(0, "dependencies", ""), [VersionLine(V("9", FALSE, "")) EXCEPT !.indent = 2],
        AppName, V17, Transformers(2)>>,
      <<AppName, [V1 EXCEPT !.plain = FALSE], FlutterKey, L(2, "assets", "")>>,
      <<L(0, "name", "My"), V17>>, <<AppName, VersionLine(V("1", TRUE, "x"))>>,
      <<AppName, VersionLine(V("", TRUE, "1"))>>,
      <<FlutterKey, L(2, "uses", "x"), L(0, "other", ""), Transformers(2), AppName>> }
Manifest(tag, prefix, attributes) ==
    [tag |-> tag, prefix |-> prefix, attributes |-> attributes]
MCManifests ==
    { Manifest(TRUE, "android", {<<"android", "label", "x">>}),
      Manifest(TRUE, "a", {<<"tools", "versionCode", "3">>}),
      Manifest(TRUE, "android", {<<"android", "versionName", "3">>}),
      Manifest(TRUE, "", {}), Manifest(FALSE, "", {}) }

-----------------------------------------------------------------------------
OneBundleList == <<>>
OneJarList == [abis |-> {"arm"}, jars |-> <<>>, required |-> {}]
OneProject ==
    [source |-> (FileA :> Library({})), config |-> ("app" :> "old"), package |-> "app",
     lib |-> "app", candidates |-> {FileA}]
OneCheckout == [table |-> <<Row1, Row2>>, golden |-> Whole, upsets |-> 1]
OnePipeline ==
    [oses |-> {Mac}, examples |-> {DemoJob}, table |-> <<CiRow(DemoJob)>>,
     tables |-> (Mac :> <<>>), built |-> [j \in CiJobs |-> <<>>],
     kernels |-> KernelsOf(NoDigests)]
OneWorld == [World EXCEPT !.scenario = "analysis", !.environment = {}]

Tools == {"assets", "entry", "apks", "ci", "guards", "probe", "pubspec"}

ToolsInit ==
    /\ tool \in Tools
    /\ IF tool = "assets" THEN AssetsInit ELSE AssetsStart(OneBundleList, OneJarList)
    /\ IF tool = "entry" THEN EntryInit ELSE EntryStart(OneProject)
    /\ IF tool = "apks" THEN ApkInit ELSE ApkStart(OneCheckout)
    /\ IF tool = "ci" THEN CiInit ELSE CiStart(OnePipeline)
    /\ IF tool = "guards" THEN GuardsInit ELSE GuardsStart(Good)
    /\ IF tool = "probe" THEN ProbeInit ELSE ProbeStart(OneWorld)
    /\ IF tool = "pubspec" THEN FactsInit
       ELSE FactsStart(<<AppName, V1>>, Manifest(FALSE, "", {}))

Runs(name, vars) == IF tool = name THEN TRUE ELSE UNCHANGED vars

ToolsNext ==
    /\ UNCHANGED tool
    /\ Runs("assets", assetsVars) /\ Runs("entry", entryVars) /\ Runs("apks", apkVars)
    /\ Runs("ci", ciVars) /\ Runs("guards", guardsVars) /\ Runs("probe", probeVars)
    /\ Runs("pubspec", factsVars)
    /\ \/ tool = "assets" /\ AssetsNext
       \/ tool = "entry" /\ EntryNext
       \/ tool = "apks" /\ ApkNext
       \/ tool = "ci" /\ CiNext
       \/ tool = "guards" /\ GuardsNext
       \/ tool = "probe" /\ ProbeNext
       \/ tool = "pubspec" /\ FactsNext

toolsVars ==
    <<tool, assetsVars, entryVars, apkVars, ciVars, guardsVars, probeVars, factsVars>>
ToolsSpec == ToolsInit /\ [][ToolsNext]_toolsVars
=============================================================================
