# Verification of rules_flutter

TLA+ models of rules_flutter, the Bazel rules that build and test Flutter
applications (`src/rules_flutter_core`, `src/rules_flutter_android`), checked
with TLC on small instances and, for the properties that matter most, proved
with TLAPS for every instance.

`P/` below is `src/rules_flutter_core/flutter/private/`, `D/` is
`P/test/driver/`, `A/` is `src/rules_flutter_android/flutter/private/`, `C/` is
`src/tools/ci/`.

1. [The system](#1-the-system): the components, their state and their hazards
2. [Modules](#2-modules): which module models what, and how it maps to the code
3. [Runs](#3-runs): what TLC checks, the bounds, the fairness
4. [Proofs](#4-proofs): what holds for every instance, and why
5. [Findings](#5-findings): where the code and what is said of it disagree
6. [Limits](#6-limits): what is not modelled, and why
7. [Plan](#7-plan): what comes next

## 1. The system

Most of rules_flutter is Starlark that Bazel evaluates once, at analysis: it
declares files and actions and keeps no state. What runs, waits, fails and
starts again is the testing half, and that is where the models begin. The
other programs are Python: build actions that read a lock, a pubspec, the imports
of a package or the native assets of an app, and CI tools that change the
checkout, keep output bases or compare what several jobs have built. They are
small, and run over files that others edit, leave half-written or plant.

```
 flutter_test (flutter_test.bzl)
   |  dart_test_kernel (rules.bzl) ---- Bazel's action cache
   |      '-- WorkRequest --> test-kernel worker (driver.dart)
   |                            view of links, seeds, remover process
   '-- launcher --> flutter_tester, one isolate
          host driver (host.dart)  <-- SIGTERM, Bazel's files
            driver core (core.dart) <-- channel --> package:test_api
 device test (device_test.bzl)
   app on a device: device driver (device.dart) + driver core
      '-- print lines --> log --> capture --> device decoder
```

| Component | Source | State it keeps | Operations | Hard behaviour | Correct when |
|---|---|---|---|---|---|
| Driver core | `D/core.dart`, `results.dart` | chosen tests, cases, the run being drained and its result | load, choose, visit, run hook, run test, drain | messages of several runs interleave with the core's awaits; failed hooks; abandoned runs | each chosen test runs once, in order, between its hooks, and the report is the listener's verdict |
| Host driver | `D/host.dart`, `guard.dart` | `finishing`, late errors, what runs now, report file, premature-exit file | SIGTERM handler, onComplete, write report, flush and exit | signals, kills, `exit()` and failing writes between any two steps; the asynchronous flush | Bazel never passes a test that did not pass, and a failure has its reason in the report |
| Golden comparator | `D/host.dart` | none | name a golden, a failure image, an update | none | updates stay in the workspace |
| JUnit writer | `D/junit.dart` | none | format, escape, shorten paths | none | well-formed XML |
| Device driver | `D/device.dart`, `settings.dart` | event number, outcomes, settings file, outputs directory | prepare, emit events, finish | a launch dies anywhere; a settings file outlives its launch | runs what the runner asked for, or fails under a name the runner sees |
| Device decoder | `D/device_decoder.dart`, `frame.dart` | chunks per event, footers | reassemble, parse, cross-check | lost, cut, repeated and reordered lines of several runs | a report is complete or an error |
| Test-kernel worker | `P/test_kernel_driver/driver.dart` | seeds (two, by last use), view (links, directories), remover | serve a request: mirror the view, find the seed, compile, answer | requests that break half-way; sandboxes that change; kills | a compile reads its declared inputs and nothing else |
| Test kernel action | `P/rules.bzl` (`_declare_prune`, `_test_kernel_driver_action`, `_dart_test_kernel_impl`), `driver.dart` (`_writeUnused`) | Bazel's cache entry with its unused list | build, prune | the list is of a past state, the check of the present one | an output taken from the cache is the one a compile would write |
| Compiler selection | `P/rules.bzl`, `test_kernel_driver.bzl`, `pins.bzl` | none | choose worker or frontend_server | none | a pin for every released SDK |
| Test launcher | `P/flutter_test.bzl`, `test_metadata.bzl` | mirror of the package, joined kernel | find the test config, materialize, join, run | entries that are both linked and made; pruned sources that are read at run time | the test sees its declared files and no others |
| Pub lock | `P/pub_lock_parser.bzl`, `pub_lock.bzl`, `dart_registrant.bzl` | reader state (section, package, description); hub entries | read, classify, close the dependencies, write the hub | state carried from line to line; cycles; `..` | fails closed on what it does not model; the hub is the lock |
| App rules | `P/rules.bzl`, `core.bzl`, `debug_core.bzl`, `hook_packages.bzl`, `pubspec.bzl`, `toolchain.bzl`, `abis.bzl` | none | declare kernels by tier, snapshots, bundles | each library in exactly one dill | no library twice, none missing |
| Build-action scripts | `P/lib_entry.py`, `read_pubspec.py`, `check_bundle_pubspec.py`, `A/inject_version.py`, `P/tester_assets.dart` | parsed imports, two searches; the files of facts, each as old as its own inputs | parse, search, write an entrypoint; split a pubspec, refuse, inject | import cycles, parts, missing files; one fact rebuilt and the other not | an entrypoint of all that compiles and nothing else; the manifest says the version |
| Native-asset tools | `P/merge_native_assets.py`, `A/check_native_assets.py`, `A/ApkCheck.java` | merged manifest, libraries seen | compare bundles, merge, check | a manifest that is both read and written; bundles without one; keys that come twice | what the VM opens on an ABI lies in that ABI's directory |
| Android plugins | `A/plugins.bzl`, `recipe.bzl`, `registrant.bzl`, `maven.bzl` | generated targets | resolve plugins, read Gradle files, generate | overrides against metadata; order of dependencies | each plugin once, with its dependencies |
| Android app | `A/android_app.bzl`, `android_inputs_rules.bzl`, `native_files.bzl`, `abis.bzl` | none | split by mode and ABI, package | transitions | one mode for an app |
| SDK repositories | `P/repo.bzl`, `toolchain_repo.bzl`, `A/ndk.bzl` | repository contents | locate, fetch | I/O | pinned by hash |
| CI tools | `C/`, `src/rules_flutter_core/tools/ci` | the recorded table, planted files, output bases and servers, artifacts | record and check APK rows, gate a matrix, plant a defect and see it refused | minutes between reading and writing; kills with a defect planted; jobs that fail beside jobs that pass | green means what it says, and nothing planted stays |

Components interact in four ways. *Messages*: the listener and the core over a
stream channel; Bazel and the worker over stdin and stdout; the device and the
decoder over a log that loses lines. *Files*: the settings file from the runner
to the device, the report and the premature-exit file from the host driver to
Bazel, the unused list from the compile to Bazel. *Shared state*: the view, which
one request leaves to the next. *Callbacks*: the sink and `onComplete`, by which
the core writes through the host or the device driver. The Python tools interact
by files alone: the lock is read by two readers, the facts of a pubspec by three
scripts, the table of APK digests by every invocation in a checkout and by the
gate of another job.

Everything in this code that is hard to test is listed in `PROJECT.json` under
`hazards`, at its line, with the properties that watch it. Hazards without a
property carry the reason.

## 2. Modules

```
SuiteTree <- DriverCore <- HostDriver <- MCHostDriver          (EXTENDS)
             DriverCore <- MCDriverCore
             DriverCore -- INSTANCE CaseLog WITH log <- cases  (refinement)
KernelAction <- MCKernelAction      KernelWorker <- MCKernelWorker
MCKernelAction, MCKernelWorker <- MCKernel
DeviceDecoder <- DeviceRun <- MCDeviceRun
DeviceFrames <- MCDeviceFrames
PubLock <- PathDeps <- MCPubLock
PubspecReader <- PubHub <- MCPubHub
TestLauncher <- MCTestLauncher
MCPubLock, MCPubHub, MCTestLauncher <- MCAnalysis
Selection <- SuiteTree, ApkRows, NativeAssets      ApkRows <- ApkTable, CiGate
ApkTable <- MCApkTable
NativeAssets, LibEntry, MCApkTable, CiGate, ConsumerGuards, ToolchainProbe,
             PubspecFacts <- MCTools
X <- XProofs   for DriverCore, HostDriver
             DriverCoreProofs <- DriverVerdictProofs, HostDriverProofs
             KernelAction, KernelWorker <- KernelProofs
             DeviceRun, DeviceFrames <- DeviceProofs
             PathDeps, PubHub, TestLauncher <- PubProofs
             LibEntry, ConsumerGuards, CiGate, NativeAssets, PubspecFacts, ApkTable,
             ToolchainProbe <- ToolProofs
             SequenceLemmas <- DriverCoreProofs, DeviceProofs, PubProofs, ToolProofs
```

`PROJECT.json` maps every definition to its lines. A definition that a comment
calls *Mutant* is a plausible mistake in the definition that follows it; no
specification uses it. It is there to show that a property would notice.

### The driver core: `SuiteTree`, `DriverCore`, `CaseLog`

`SuiteTree` is the suite the listener sends: groups, leaves, declared entries
and hooks, with the pure part of the core over it. `ChosenBy` is `_choose`
(filter, then the rounded shard slice of `collect`'s order), `HasChosen` is
`_hasChosen`. `Rounded` is Dart's `round()` for the quotients that occur: halves
go up, and the float quotient is taken as exact. A quotient that is not may move a test to
the neighbouring shard and loses none: a shard ends at the very product its neighbour begins at.
`ChosenOnly` says both of what is chosen: the shards split what the filter leaves, and no
test but a chosen one and no hook but of a group that holds a chosen test runs or is reported.

`DriverCore` has two actors. The **core** is one action per stretch of code
between two awaits. `agenda` is what is left of the recursion of `_visit`: a
group is replaced by its calls (`CallsOf`), a failed setUpAll drops its group's
entries and keeps the tearDownAll (`AgendaAfterFailure`), and `Drain...` are the
cases of `_drain`'s switch. Loading, hooks, tests, skips, `spawnHybridUri`,
strays, unknown messages and dropped messages are all there. The **listener** is
`package:test_api`, outside the repository. It is modelled from the messages the
core reads: it prints, changes a run's state as often as it likes (also after
`complete`), strays on the root channel, spawns, and completes. `wire` is the
one FIFO below all channels.

Three properties of Dart make the interleavings what they are. Awaits in the
core that need no event are microtasks, so a signal or the end of a flush comes
only where the core waits for the listener (`Yields`). A broadcast stream drops
what nobody listens to (`Dropped`). And a write to a stdout that is bound to a
pending flush throws, which ends the core (`dead`); without a host nothing
flushes and `dead` is not reached.

`CaseLog` is the abstract specification of the report: a log that only grows,
naming each position of the plan at most once and in order, a failed load alone.
`InPlanOrder` is the refinement `DriverCore => CaseLog`, with the plan computed
from the tree by `PlanOf`.

### The host driver: `HostDriver`

Composes the core with `hostMain`. `HostNext` replaces `OnComplete` of the core
by `Complete`, `CompleteThrows` and `CompleteCannotWrite`, and adds the SIGTERM
handler, its failing write, late errors of `guarded`, the end of a flush,
`exit()` in user code and SIGKILL. `ExitAfterFlush` is `_exitAfterFlush`: the
marker goes first; a second flush throws while one is pending; a stdout nobody
wrote to is flushed at once. `Write` and the rename are one step, since a
handler is not interrupted and a reader sees the renamed file only.

### The test kernel: `KernelAction`, `KernelWorker`

`KernelAction` asks the question Bazel's cache asks. A compile is an operator on
a state (`Output`, `ReadFiles`): the closure of the imports over two file system
roots, cut at the libraries of the import dill. `Unused` is `_writeUnused`.
`UpToDate` is Bazel's check: same declared files (the manifest is an input), and
the same digest for every input that the last list did not name. Edits change
contents, and add or remove the files of the glob. The worker path only: the
frontend_server action declares no list.

`KernelWorker` is the process: `handle` as the steps `unlink`, `link`, `seed`,
`compile`, `_startView` as two steps around its await. `links` and `made` are
`_links` and `_dirs`, what the worker believes; `fs` is what the directory holds.
Directories, links, removers and seeds may fail; Bazel may kill the process at
any step and start it again; the remover is a process of its own. `MCKernel` puts the
two side by side for one run: a compile in Bazel's cache, or the process that does it.

### The device: `DeviceDecoder`, `DeviceRun`, `DeviceFrames`

`DeviceDecoder` is `decodeTransport`, `_parseEvent` and `decodeStream` as
operators on a capture. A capture is a set of lines, since the decoder drops
equal copies and reads the rest in any order. `DeviceRun` is a runner (outside
the repository), the driver's `_prepare`, settings, events, footer and exit, and
a log that outlives launches and whose capture loses, cuts or doubles lines.
`DeviceFrames` is the arithmetic `DeviceDecoder` abstracts from: the search for
a number of frames, the length of every frame and what the decoder computes from
a header.

### The pub lock: `PubLock`, `PathDeps`

The reader of `pubspec.lock` and `resolve_lock`, as a state machine with one
action per branch of the loop. Its memory is the code's: `section`, `package` and
`inDescription`. A line is its indent, key and value, with `_scalar` as what it
accepts. Beside it stands what the text *says*, from indentation alone: `Owner` is
the last line before that is indented less, `FieldAt` is a line owned by a package
line, and so on. The properties compare the two. A value comes in a `style`: plain, in
single or double quotes, or with a comment behind it; `HasValue` is what `_scalar` makes
of that.

`PathDeps` is the second reader, `check_path_deps.py`: a build action that goes over
the lines of a resolved lock with a package and a path as its memory (`current`,
`path`) and asks for a declared file below each path. It EXTENDS `PubLock`, so
both readers read the same text and `ReadersAgree` compares what they found. The second
reader matches raw text: it takes off double quotes and nothing else (`Captured`), and knows
a source only where the word stands alone (`IsSourceLine`).

### The hub: `PubspecReader`, `PubHub`

`PubspecReader` holds the two readers of a `pubspec.yaml` as recursive functions along
its lines (`PluginsRead`, `DependenciesRead`): `ReadPlugin` is one turn of `pubspec_flutter_plugins`, with its stack of open keys
(`Enclosing` is what is left after the pops), and `ReadDependency` one of
`pubspec_dependencies`. Beside them stands what the text says: `PathsOf` gives each line
the keys it lies under, `PluginsSaid` and `DependenciesSaid` collect from it, and
`IsMapping` says which texts are YAML mappings at all. A comment behind a bare key is a value
to `ReadPlugin`, as it is to the code.

`PubHub` is `_pub_hub_impl`: one action per package that is placed or refused (`Walk` is
a segment of a path package's path, `PathDirs` the directories along it), the root over a package of its name, the count, one
action per round of `_plugin_dependency_graph`, and `Write`, whose record is the two
package configs, `plugins_metadata.json` and the two registrants. The rules refuse at five
places: a path that climbs out (`RefusePath`), a pubspec that is not there
(`RefusePubspec`), a package named as the root (`RefuseCount`), a section that is no block
(`RefuseSection`), a platform whose map is cut off or a `test_deps_exclude` that names what
is not locked (`RefuseWrite`). What these are compared
with is defined apart: the depth of a path, the directory that a relative path leads to,
and the least closed set of packages.

### The launcher: `TestLauncher`

The working directory of a test, from the macro's arguments to the mirror. The
analysis comes first: `_materialize_dirs`, `_find_config` one directory at a time, the
runfiles with the pruned sources that are kept. Then the script of `_materialize_script`: one
`LinkEntries` per directory on the way, one `Materialize` per listed directory, with what
`cp` does at a destination that exists, and the second attempt after a clone or a hard
link that cannot be made. The mirror is a function from paths to nodes; `ReadsAt` and
`Seen` are what a test finds through it.

### The build actions: `LibEntry`, `NativeAssets`, `PubspecFacts`

`LibEntry` is `lib_entry.py`: load the candidates, search forward over their
imports, search backward from the files that import what the VM lacks, write the
rest. One action per file taken from the queue, in any order, since the order is
the file system's. `Resolve` is `_Graph.resolve` without the text of a URI.

`NativeAssets` is `merge_native_assets.py` and then `check_native_assets.py`: bundles
compared with the first, manifests merged one by one, jars looked at one by one,
the manifest's files looked up for each ABI. The first thing that does not fit
ends it (`refused`). `Missing` is the manifest of a bundle that has none.

`PubspecFacts` is `read_pubspec.py`, `check_bundle_pubspec.py` and
`inject_version.py` as three actions of a build, each enabled when *its* inputs
changed: the injection has the facts for input and not the pubspec. Edits of both
sources come in between.

### CI: `ApkRows`, `ApkTable`, `CiGate`, `ConsumerGuards`, `ToolchainProbe`

`ApkRows` holds the functions of `example_hashes.py` on rows and tables. `ApkTable` is
the program at work: several invocations in one checkout, one action per query,
build, hash, opening and closing of the table, each of the first three failing where
Bazel may, while modules are edited, processes are killed and `apk_inventory_probe.py`
plants its app. `calls` and `named` are what the probe looks at: what its check asked of
Bazel, and whether stderr names the planted label. `CiGate` is the example
matrix of `ci.yml` and the three steps of its gate, over the same rows; a job may
fail, be cancelled and upload nothing.

`ConsumerGuards` is `consumer_rules_check.py` and the self-test of
`plugin_graph_guard.py`, both of which plant a defect in checked-in files, ask Bazel,
and put the files back; they may overlap, be killed and start again.
`ToolchainProbe` is a scenario of `android_toolchain_probe.py`, from the choice of an
output base to the removal of what it made, with Bazel failing anywhere, a server that would not
stop (`AskToStop`, which the code passes over) and a directory that cannot be removed
(`CleanUp`).

Each of these modules ends in one property, the conjunction of its named parts.
`MCTools` composes the tools for one run: its initial state picks a tool and an
input, and the others stand still.

## 3. Runs

| Run | Instance | States | Shows |
|---|---|---|---|
| `tools` | see below | 913k | what each Python tool's pass, refusal and output mean |
| `core` | 2 groups with all hooks, 3 tests, 7 options, 2 extra messages | 99k | what runs, in which order, between which hooks, what is reported; that every suite ends |
| `host` | 1 group with tearDownAll, 2 tests, 3 options, 1 extra message, 1 late error, failing writes, all four environments | 32k | what Bazel may conclude from exit code, marker and report; that the process exits |
| `host_sigterm`, `host_user_exit` | the same, without late errors and failing writes | - | two findings |
| `kernel` | 4 libraries, 3 prunable files, 2 versions, any history; or the worker: 3 paths, 2 base directories, 3 keys, 2 temporary names, failures and kills | 120k | an output taken for up to date is current, and only edits to what was read run a compile; what a compile reads, what the view holds, which seed stays, that requests are answered |
| `worker_clash` | 2 paths, 1 base, nothing fails | - | a finding |
| `record_stale` | 2 subset records over 3 rows | - | a finding |
| `device_run` | 2 launches, 2 selections, 3 run ids, 1 fault, kills | 2.2M | what decodes is all that a run said; a launch runs what was asked |
| `device_inherit` | the same, no faults, no kills | - | a finding |
| `analysis`: the lock | 2 lock files, 9750 texts up to two edits away | 80k | three variables read what the indentation says; the reader refuses what has no place, and nothing else; a resolved package has its own digest; of a lock as pub writes it the second reader finds the same path dependencies |
| `analysis`: the hub | 4 places of a lock, 10 paths, 64 dependency graphs, 499 pubspecs, 72 choices of faults | 5.6k | where packages are, what a release build has, what the readers of a pubspec read |
| `analysis`: the launcher | 222 tests over a tree of 4 levels, 15 lists of directories, 3 modes | 1.9k | the mirror is the package, real where asked; the nearest config |
| `device_frames` | frames of 16 characters, texts of 1 to 120 | 15k | the split ends, fits and is what the decoder expects |

**Bounds and why they are enough.** A tree with a group between two tests is the
smallest where order, inheritance of a skip, an empty subtree and what follows
a failed inner setUpAll can go wrong. Two extra messages are enough for a
verdict to be set and moved, or for a stray to meet an unknown message; the wire
of two lets one arrive behind another. Two shards of three tests are unequal under
rounding, and a filter leaves a group with both hooks without a chosen test. In the host one extra message lets
stdout be dirty before or after a signal. The worker has three keys against two
seeds, a directory with two files and a file at the directory's name. Two
launches are what inheriting needs; one fault may take two lines, since the
checks of the decoder are pairwise (footer and complete event, first and last
chunk). 16 characters with headers of 11 to 16 give counts of one, two and three
digits and the case where no header fits. The lock has one package of each source;
two edits (a line moved, repeated, indented, changed, then one dropped, and in the
smaller lock also moved and then one indented) are what moves a field under another package,
section or description. In the lock with a path package every value, also two of them and
also where a line has moved, stands in each style.

`analysis` is what Bazel evaluates before it builds, three parts of one run: its initial
state picks one of them and an input for it, and the others stand still. Of the hub, a lock lies at the root of a repository or below it, in the main repository or in
another module's; the paths climb to each of the levels and one further, and come back.
Six edges over three plugins and the root hold two cycles, one through the root. A block of
up to five lines deleted, shifted by up to four columns or moved anywhere puts each key of
a plugin under each other key; each key also comes with a comment for a value, and with a map
that is not closed on its line. Of refusals, every choice of a missing pubspec, an excluded
package, a cut platform and the form of a section. Of the launcher, directories and files have their parent's
name, which is where a copy into a copy, or an entry that is linked and made, would show.

In `tools`, each tool has the inputs that its checks tell apart, right and wrong in
every way they look for. Three bundles let a key, a format or the lack of a manifest
come before, between and after the others; two ABIs let a library lie in the wrong
one. Three candidates and a file of another package form every cycle of up to four
files, with a generated, a missing and an unknown one. Two invocations over three
rows of three examples of two modules are what lost updates need: one reads its
baseline, the other records, the first writes. Two systems and two examples let a
job fail beside three that pass, with a hyphen in either name. The defects of a
consumer come one at a time, since the checks are independent; two kills let both
checks leave something behind. The worlds of the probe are all combinations of output base,
environment and module tree for the two isolated scenarios, and the outcomes of
each check for the rest. The trees hold a module with and without its dependencies, met in
either order, an unlisted one, a missing one, and one that only a mention names that the
walk passes over.

**Bounds by name.** `MaxNoise` messages of a run other than its `complete`;
`MaxWire` messages in flight; `MaxLate` late errors; `MaxLaunches` and
`MaxFaults`; `Temps` temporary names (a new worker and a failed remover need a
free one); `upsets` of a checkout (edits, kills and probes); `Kills` of the consumer
checks. `MaxNoise` counts for the whole behaviour and is the only reason the
listener falls silent.

**Fairness.** The event loop runs what is ready: weak fairness of the core's
steps, of `Complete` and of `FlushEnds`. `test_api` answers `initial` and
completes every run it has started, by its timeouts: weak fairness of
`SuiteAnswers` and of each `BodyCompletes(r)`. Signals, kills, `exit()`, late
errors, prints and edits are never owed. The worker's own steps and the remover
are fair, requests are not (`KernelSpec` states it for the process it picks). `DeviceFrames` is a sequential loop, so its whole
next step is fair. The tools have no fairness: what they promise is safety, and
a CI job is not owed an end. `Completes` is false without the `complete` of a run: `_drain`
merges the run's stream with `_strays`, which is never closed, so a run that
ends without a `complete` would be waited for without end.

Runs that set `CHECK_DEADLOCK FALSE` model systems that stop: a suite that has
completed, a process that has exited, a worker or a runner that is not asked
again, a tool that has given its verdict. `worker_clash` checks deadlock.

## 4. Proofs

Every theorem holds for every value of the constants that satisfies the named
assumptions: `SuiteAssumption` and `TreeAssumption` (the suite is a tree),
`CoreAssumption` and `HostAssumption` (bounds are numbers), `WorkerAssumption`,
`ActionAssumption`, `DeviceAssumption`, `FramesAssumption` (a text is not empty), `LockAssumption`, `EntryAssumption` (the
candidates exist), `GuardsAssumption` (`Kills` is a number, Bazel's answer one of
three), `HubAssumption` (a lock is finite, names
each package once and lies in its repository, there is a pubspec of each package and of the root, and
`..` and `.` are no names), `CiAssumption` (names are not empty, and the
tables are of OSes of the matrix), `ApkAssumption` (`EXAMPLES` is not empty, the planted app is
none of it, and a row of a checked-in table begins with the example of its key and was built as it
says), `AssetsAssumption` and `FactsAssumption` (lists are
lists, maps are maps), `ScanAssumption` (`_PACKAGE` matches every name `_check_name` accepts,
and the scalar `path` is not the empty one in quotes), `LauncherAssumption` (a path is a
sequence of names, and nothing lies below a declared file), `ProbeAssumption` (core has
finitely many modules, the dependencies in a module graph are lists, and fetching the NDK
ends in one of three ways). None
bounds a size. Of `CiAssumption`: `matrix_gate.py` names the two tables itself and never
holds them against the OSes of the workflow, so an OS that leaves the matrix while its table
stays is a case the gate does not see and the theorem does not speak of.
`RootAssumption` says of the suite that it has finitely many groups and that its nodes are
the root and what it holds; that the tests a filter and a shard choose lie under the root
follows from it.

| Theorem | Says | Argument |
|---|---|---|
| `CoreTypeCorrect`, `HostTypeCorrect`, `ActionTypeCorrect` | the types | the typed agenda needs `Busy`: while a run is read the agenda is at it |
| `OneRunPerCaseCorrect` | no test or hook is started twice | `Once`: the calls on the agenda stand for disjoint parts of the tree (`Separate`), and nothing they stand for has run or been reported (`FreshFrom`). `CallsSeparate` shows that replacing a group by its calls keeps it, from `TreeAssumption` |
| `OneRunCorrect` | what runs is current, or reported as failing | a `complete` on the wire is of a run that is over (`CompleteIsTrue`), for which no run may start twice; so the core leaves a run only when it is over or has asked to spawn (`EndsOver`) |
| `VerdictCorrect` | a run that completed with a failure is reported as failing; a case passes only if its run completed with success | the last state change on the wire before a run's `complete`, or else the result the core has, is the listener's verdict (`Draining`, over the operator `Decides`): sending and reading a message keep it (`DecidesAppend`, `DecidesNew`, `DecidesTail`), and at `complete` the result is the verdict (`DecidesComplete`). It uses `IInv`, and that the core alone never meets a bound stdout (`NeverBound`) |
| `ChosenAccountedCorrect` | once the core ends, every chosen test is reported or lies under a reported setUpAll that failed, and no other test is reported | `ChosenInv`: a chosen test is reported, lies under a reported setUpAll that failed, is what the core reads now, or is still pending on the agenda (`Accounts`, `Pending`); a setUpAll on the agenda is followed by its own group's entries, so leaving them out when it fails drops only what lies under it (`EntriesFollow`, `SuffixFollows`, `CallsShape`) |
| `NoFalsePassCorrect` | what Bazel takes for a pass is a complete report without a failure, every chosen test in it | `PassInv`: a pending exit 0 is true when it is decided, and the report does not change after that (`PassStays`); a setUpAll that failed would be a failure, so every chosen test is reported itself. It assumes `~ExitsInFlush`: an `exit(0)` of user code while stdout is flushed may stand in for a failure, which is the finding of `host_user_exit` |
| `HooksBracketCorrect`, `ChosenOnlyCorrect` | a group's setUpAll comes before what it is for and its tearDownAll after; the tearDownAll of a group whose setUpAll ran is still to come; a skipped test never runs; no test but a chosen one and no hook but of a group that holds one runs or is reported; the shards split what the filter leaves | `HooksInv` speaks of the whole agenda: parts apart (`Apart`), a setUpAll in front of its group's calls (`SetUpLeads`), a tearDownAll behind them (`TearDownComes`), only calls of groups that may run (`OpenMayRun`). A step keeps it because it drops the head, replaces a group by its calls (`VisitShape`) or drops a failed group's entries (`DropsShape`). The tree lemmas (`BelowIsTransitive`, `RootHoldsAll`, `OneParent`) argue by a smallest group for which they fail, since what a group holds is strictly smaller (`EntryIsSmaller`) |
| `InterruptionNamedCorrect` | an interrupted report names what ran | `NamedInv`: while the core loads, `running` is the load, while it drains, the head of the agenda; and a stdout bound to a flush means that the report is being finished |
| `InPlanOrderCorrect` | the driver core refines `CaseLog`: the report only grows, names each position of the plan at most once and in declaration order, and a failed load stands alone | the recursion of `PlanOf` has exactly one solution, by the smallest group without one (`AllPlannable`, `PlanIsOne`), so a group's plan is its setUpAll, the plans of its entries and its tearDownAll (`PlanOfIs`), joined one after the other (`FlattenJoins`); these have names of their own, so what lies in an earlier part comes first in the plan of the group and of every group above it (`CallsOrdered`, `OrderedAbove`). `PlanInv` then says of the agenda that it is in the order of the plan and behind everything reported; a visit keeps that (`VisitPlan`), a step that reports is a step of the log at a later position (`ReportIsNext`), every other one stutters |
| `ShardsPartition` | for every suite, filter and number of shards, each filtered test is in exactly one shard | `LeavesInIs` does for the leaves what `PlanOfIs` does for the plan; entries' leaves have nothing in common, so a group's leaves are listed once (`JoinedListsOnce`, `AllListed`), and the filter keeps that (`NamedOnce`). The slices are cut at the rounded multiples of the quotient: these begin at 0, end at the number of tests and never fall (`RoundedIs`), and a shard ends where the next begins, so each place lies in one slice (`OneSlice`). `ChosenOnly` has it of the shards of a run, which the runs check |
| `FailureExplainedCorrect`, `CompleteReportStaysCorrect` | exit 1 leaves a complete report with a failing case; a complete report is final | `ReportInv`: a written report means `finishing`, a complete one that the core is at its end, and a pending exit 1 is explained already |
| `MarkerGuardsReportCorrect` | the premature-exit file goes only once the report is written | inductive as it stands: the marker is removed in the same handler, after the report |
| `PruneIsSound`, `PruneIsPrecise` | the cache never serves a stale kernel; only reads run a compile again | two states that agree on the files one of them reads have the same closure (`SameReach`), hence the same output; the unused list names none of those files (`ReadIsKeyed`) and no kept one (`DillIsKeyed`) |
| `WorkerIsHermetic`, `LinksStayReal` | a compile reads exactly its inputs | the worker's record of the view is what the view holds, at every step and after every failure; deleting what is stale and adding what is missing then leaves the inputs |
| `WorkerTypeCorrect`, `LastSeedStaysCorrect` | the types and the seed limit; two import dills that alternate are each loaded once | `SeedsInv`: no key twice, and the seed of the last compile is at the end; then a hit moves one key to the end (`HitSeeds`), and a load drops the first of more than `SeedLimit` keys, which is not the last (`MissSeeds`) |
| `DecodesTheRunCorrect` | the host's verdict is of the run that it waits for and no other; what it takes for outcomes is the first cases of the selection with the results told; a damaged, dropped or foreign line makes it fail; with nothing lost it decodes | a run id stands for a history of events (`Captured`): every frame of it in the log is one of them, open until its complete event, closed then by the cases that were told (`IsClosed`, `Ran`). The decoder takes whole frames with none missing, so it reads the history up to some event, and reading goes well only where it closes (`DecodedIsTold`); no line has the run id of the settings before that run (`SettingsAreNew`). What the decoder's loop (`CasesUpTo`) collects is followed along the history event by event (`Reports`) |
| `FramesSafeCorrect` | no frame is too long, whatever its index; the chunks are whole but the last, join to the text, and none is empty | `FramesInv`: each frame printed is the chunk of its index, and the count agrees with itself. A longer number has more digits (`DigitsGrow`, by the smallest number without), so the header of the last frame is the longest; the count is the quotient rounded up (`CeilingIs`), so all but the last chunk lie before the end of the text (`ChunkIs`) |
| `LaunchesRunWhatWasAsked` | a launch runs what the runner wrote for it, or nothing | the settings file is the one written last or absent; from the writing until the delete of its launch it is there |
| `ReaderCorrect` | for every text, the reader collects what the indentation says and refuses exactly what has no place | a line is *open* while every later line is indented more; the section, package and description in memory are those of the open lines (`SectionInv`, `PackageInv`, `DescriptionInv`), and the owner of the next line is an open one (`OpenOwns`, `OwnerIsOpen`), so memory and text agree on its place (`Place`, `Shape`) |
| `PinsCorrect` | a resolved lock has every package once, a hosted one with the digest of its own description | from the two above: what `Get` finds stands in the text (`NestedStands`), and no package has two descriptions (`OneMap`) |
| `ReadersAgreeCorrect` | of a lock as pub writes it (the description before the source, the word of a source alone, a path plain or in double quotes), the path dependencies the check asks for are those that were resolved, with their paths | `ScanInv`: the second reader remembers the last package line and the last path line since (`PackageHeld`), and has found what the `source: path` lines so far have behind them (`FoundBy`). In a lock the first reader resolved, the last package line above a field is its owner (`FieldOwner`, `NestedOwner`), and what `Get` finds is the one line that says it (`FieldRead`, `NestedRead`); so a find is a resolved path (`FoundIsPath`), and pub's order makes the path of a package the last before its source (`PathIsFound`); what is captured of a path that pub wrote is what `_scalar` makes of it (`AsPubWrites`) |
| `EntryIsExactCorrect` | for every set of libraries, the entrypoint imports exactly those that reach nothing the VM lacks | `EntryInv`: what is parsed is parsed right; forward, everything met is pending or parsed with its imports met, so at the end the met files are closed and hold all that `Compiled` can reach; backward, `web` reaches web-only URIs and holds every importer of what it holds, but of what is pending. What is met and not in `web` is closed at the end, so `Compiled(entry)` stays in it |
| `GuardsMeanItCorrect` | for every consumer and number of kills, a consumer check that passes has seen its planted defect refused, and the files are whole | `ShrinkOK`: what the rules check found of the rules it saved holds until it writes them back, and it saved whole ones if its first build kept the class. `PlantCount`, `GuardOK`: each planted target is held by the guard at work or left by a kill, and one that Bazel refused by its name was the only one, since a package with two does not load |
| `GreenMeansItCorrect` | a green gate means every recorded row was built on every OS as its table says, and the kernels are the same everywhere | `CiInv`: each job that ended well has had its rows match and its digests uploaded, an artifact is a job's own, and the gate holds what its steps have seen. An artifact's key gives the job back only because no example has a hyphen (`KeyIsJob`); what `Filtered` keeps of the rows is every row of the example (`FilteredHolds`) |
| `TableSafeCorrect`, `RunsKeepTheirWordCorrect` | the recorded table is the checkout's or has a row for every row of EXAMPLES, each of its mode and ABIs, and is empty only while it is written or when a kill tore it; none builds, passes or records over an inventory that was not EXAMPLES' own when it asked, and the check that a probe starts never gets to a build; a check that passes found each selected row once and no other, a subset record replaces its own rows, and leaves the others as it finds them unless they changed since it read them | `ApkInv` gives each invocation its loop invariant: the examples it has asked for and those left make up the selected ones (`Asking`, `StillToCome`), the rows it hashed are the first of those it selected, each under its own key (`Building`, `Records`), the baseline it began with was whole (`Accepted`). It speaks of what an invocation remembers, never of the table or the sources there are now, so the steps of others keep it (`GoesOn`). With every key in the baseline the merge is the table row by row (`MergeIs`, `WhatIsWritten`); two recorded rows of one key would both be selected, since a row begins with the example of its key (`RecordedOnce`) |
| `AssetsSafeCorrect` | the merged manifest says what every bundle says, what an APK opens is in its ABI's libraries, a refusal has a cause | `AssetsInv` gives each stage its loop invariant: what differs so far, what the manifests merged so far say (`MergedUpTo`), what the jars so far hold (`PackagedUpTo`), which ABIs were looked up |
| `FactsHoldCorrect` | the manifest says the app's version, and what cannot be bundled is refused, whatever is edited in which order | `FactsInv`: what each script left is true of the text it read, not of the one there is; the two are the same when it is up to date. A line lies under the last line at column zero above it (`UnderIsInBlock`): the lines above it and not above that line are closed under what `Above` says |
| `NothingLeftCorrect` | for every world and whatever fails, a probe that is not killed ends with a verdict, has asked every server of its own to stop, so that one is left only where the stopping failed, leaves a directory of its own only when it failed for that, and blames the consumer only for what the consumer fetched | `ProbeInv`: which directories and servers there are at each step (`BasesOK`), what is decided (`VerdictOK`), and that each lock is the one of its environment (`LocksOK`) |
| `ProbesMeanItCorrect` | also, for every world, a scenario that passes means what it says: core fetched nothing forbidden, depends on listed modules alone, and each of those is mentioned with dependencies that are all listed; where a module has the same dependencies at every mention, the tree is exactly the list. The locks are the same | `WalkInv`: each module met was met at some mention, whose dependencies are met or on the stack; so with the stack empty the met ones have such a mention, and are closed where mentions agree (`WalkEnds`); what is on the stack stands no deeper than modules were met (`VisitStays`), so the depth to which `Mentions` looks is enough |
| `LauncherSafeCorrect` | for every test and tree of its files, the mirror is the package with the listed directories real and no others, and the config is the nearest one | `LauncherInv` says of each node of the mirror which step made it: the directories on the way and the links beside them (`WaysMade`), the trees copied so far (`Real`, `Alone`). No two of these meet: the ways and what is linked are never below a listed directory (`WaysApart`), and two of those are apart, since none is nested (`DirsApart`); so nothing stands where a copy goes but what a directory of the same name left (`CopyHere`, `CopyInside`). In the finished mirror the first step of a path that leaves the ways is one link (`LinkAbove`), so each file is seen at itself and nowhere else (`SeenAre`). Upward, every config at or above the test not yet passed is at or above the directory looked at (`Looking`) |
| `ReleaseIsReachedCorrect` | for every lock and graph of its packages, the closure ends with exactly what the root reaches, and the plugin metadata and the release registrant take that | `HubInv`: what is reached is reachable (`ReachableIsClosed`); what is reached and not in the frontier has its dependencies reached; a round that leaves a frontier has added a package (`RoundsOK`), so after as many rounds as there are packages a frontier would make one package too many (`StopOK`), and what is reached is closed (`ReachedIsAll`) |
| `HubSafeCorrect` | for every lock, project and text of the pubspecs: both readers say what the indentation says; each package is where the lock puts it and both configs lead there; no path leaves its repository; each of the modelled faults refuses the hub, and nothing else does; a native dependency is a target | *Readers*: each recursion is followed line by line. The keys on the stack are those that the next line may lie under, so popping leaves its path (`Standing`, with `PathsOfIs`), and implements and the maps hold what the lines so far say (`Held`). *Paths*: the walk is the path itself as long as its depth keeps to the floor (`Inside`), `Escaped` from there on (`WalkAgrees`); `..` for what the base has beyond the common start, then the rest of the target, leads from base to target (`RelativeLeads`). *Places*: `PlacedInv` says which names are placed at each step, where, and why it was refused; the count differs from the lock's just if a package is named as the root (`LockCount`) |

The invariants are layered: a type invariant with `Busy`, `Once` over it, then
`IInv`; `HostInv` rests on the core's. Each was first checked by TLC.

**Only model-checked.** Liveness (`Completes`, `Exits`, `RequestAnswered`,
`EncodeEnds`), which this prover does not do. `VerdictReported` under the host,
where a write may throw, is not claimed. What `LeavesIn` computes over the tree is checked
and never proved; `PlanOf` is followed by `PlanOfIs`, and the decoder's loop, one over a
sequence, by `Reports`.

## 5. Findings

Each run with a violation checks one sentence of the repository.

* **`host_sigterm`**. `hostMain` and CONFORMANCE.md say that SIGTERM writes the
  report so far and exits 143. `onComplete` does not look at `finishing`: a suite
  that completes while the SIGTERM's flush is pending replaces the interrupted
  report by a complete one, its second flush throws, and the process still exits
  143 when the first flush ends.
* **`host_user_exit`**. "A call to exit() in user code leaves it behind" is false
  between the removal of the marker and the end of the flush.
* **`worker_clash`**. "Makes the view hold exactly [inputs]": an input at the path
  of an earlier directory cannot be linked, since directories are never deleted,
  and every later request with it fails until the worker ends. The same property
  breaks when making a directory failed once, since `_dirs` holds it already.
* **`device_inherit`**. "The device reads it once and deletes it, so a later launch
  never inherits it": when the outputs directory cannot be emptied, `_prepare`
  throws before it looks at the file, which stays for the next launch.
* **`record_stale`**. "`--record --only` ... replaces only that example's rows" (help text
  of example_hashes.py, and its comment "merge replaces only the selection"). The recorded
  table is read before the builds, which take minutes, and written back whole: the rows of
  other examples that another `--record` wrote in the meantime return to their old digests.

## 6. Limits

* Text is never spelled out: names, messages, reasons, stack traces, paths in
  reports, escapes and JSON are compared whole or left out.
* The set-up of `hostMain` before the suite is declared (runfiles, goldens,
  filters and shards from the environment) is the initial state. A throw there
  leaves the marker and ends the process before any of this.
* `sink.running ?? 'suite'` can hardly be `'suite'`: between two cases the core
  does not yield.
* The SIGTERM report leaves out late errors, as the code does.
* Inputs are files: no input of a request is a directory of another, and the
  import dill is not among the modelled paths, only its key. Deleting a stale
  link does not fail, since nobody else writes to the view.
* A kill between the creation of the view and the start of its remover leaves the
  directory. The model has these steps; no property forbids it.
* The front end, Bazel's cache and worker protocol, `package:test_api`, the
  runner and logcat are external: modelled from how the code uses them.
* The device model has one suite per selection instead of the driver core; both
  use the same events. One note per case, one late error, run ids unique per
  launch, faults once the app is gone.
* `ReadersAgree` is of locks as pub writes them. The second reader looks at a `source: path`
  line with the path it has read by then, so in the order source before description it
  finds nothing, and the first reader does not mind the order (`InPubsOrder`). It matches
  raw text: `source: "path"`, or one with a comment behind it, is a path dependency to the
  first reader and none to the second, and a path in single quotes or with a comment is
  read with them (`AsPubWrites`; check_path_deps.py:20-21). Pub quotes no source and uses
  double quotes where a path needs them.
* `FlutterPlugins` is what the indentation says where no comment stands in the place of a
  value (`CommentsAreNone`). `pluginClass: # c` or `implements: # c` is a value to
  pub_lock_parser.bzl:391,:404, and the model's reader stores it too. A flow map over several
  lines fails the hub below `platforms`, and is passed over elsewhere.
* `RefusesWithReason` is of the faults that `AtFault` names. A repository that cannot be
  fetched and a malformed file of another kind are not among them.
* `InventoryIsExact` is of the apps there were when an invocation asked. One that is planted
  or left behind afterwards is for the next invocation; the code asks once.
* No rule of this repository calls `check_native_assets.py`; it is composed with the
  merger as its flags describe.
* An example of EXAMPLES that no table records and no matrix builds is not gated;
  `GreenMeansIt` speaks of recorded rows.
* A file of `lib/` that is generated resolves its relative imports beside itself, in
  the output directory, as the code does; `LibEntry` follows this.
* In `PubspecFacts`, block mappings only: a flow mapping (`flutter: {...}`) is a value
  to the scripts.
* Where Bazel prints a module unexpanded, `core-isolation` takes the mention it comes upon
  first, from the end (android_toolchain_probe.py:196), and so does `VisitModule`. Where
  mentions of a module differ, the probe may miss what is below another one and pass;
  `MCTools` has a tree where it does, and `PassMeansIsolation` claims the exact tree only
  where they agree.
* A shutdown that fails is passed over by the code (`check=False`), and leaves its server.
  A directory that cannot be removed is left, and fails the scenario.
* Of `ToolchainProbe`'s scenarios that only look at the configured repositories (`analysis`,
  `inventory`, `compile-probe`) the model has the verdict and not what is looked at.
* `ApkCheck.java` (bytes of a finished APK), `tester_assets.dart` (copies),
  `cache_stats.py` (counts lines of logs) and the guards that ask Bazel one question
  are not modelled.
* In `TestLauncher` the joining of the two kernels, the environment and the update runner
  are left out. The directories are copied in any order, the code sorts them.
* A directory that is named twice (`materialize = ["a", "a/"]`; the slash is stripped)
  passes `_materialize_dirs`, which compares each with those that differ from it
  (flutter_test.bzl:483). The second `cp` finds the directory there and copies `a` into
  itself, so a test that lists `a` sees `a/a`, and where a file has that name the copy
  fails. `LauncherSafe` claims that the mirror is the package for lists without repeats.
* In `PubspecReader`, texts are mappings as pub reads them: a block scalar whose lines look
  like keys (`description: |`) is not one, and the readers, which do not know block scalars,
  would take its lines for keys. A flow map below `platforms` is read, one at `platforms` or above
  is passed over by the code.
* `PubHub` leaves out language versions, versions, the libraries of `test_deps` and the
  text of the generated files. `_pub_impl`, which refuses hub names with a hyphen, is left out.
* The components of section 1 without a module are listed in `PROJECT.json` with
  the reason.

## 7. Plan

Done, in this order: the driver core, the host around it, the kernel action, the
worker, the device, the reader of `pubspec.lock`, the Python tools of the build and
of CI, the launcher, the hub. Next:

| Step | Module | Questions | Run |
|---|---|---|---|
| 1 | `KernelTiers` | the dills of `test_deps`, the lib tier and the test: each library in exactly one of those joined, for every choice of defines; over `LibEntry` | with `analysis` |
| 2 | `Plugins` | `_flutter_plugins_impl`: overrides, package roots, the set of generated targets and its dependencies; over `PubHub` | with `analysis` |
| 3 | `HostDevice` | the driver core under the device sink, decoded: the decoded report is the core's | replaces a bound of `device_run` |
