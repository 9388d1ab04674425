------------------------------- MODULE ApkTable -------------------------------
(* example_hashes.py at work, and apk_inventory_probe.py, which plants an app that
   EXAMPLES does not list: invocations that check or record the table of APK digests
   in one checkout, each a process of its own that may be killed, while modules are
   edited under them. *)
EXTENDS ApkRows

CONSTANTS
    Checkouts,      \* [table, golden, upsets]: EXAMPLES, the recorded table, the bound
    Commands,       \* [record, only, build]: the command lines
    Invocations,
    Sources,        \* [version, abis]: what a module's source may be
    FirstSource,
    Demo,           \* the example that the probe has checked
    Planted,        \* the label of the app that the probe plants
    ProbedModule

RowOK(row) ==
    row.key # Nothing => Len(row.key) = 4 /\ row.key[1] = row.example /\ WhatItSays(row)

(* EXAMPLES is not empty.  Nothing names no example, it stands for an --only that is not
   given; no example is the app that the probe plants, and the example that it has
   checked is of the module it plants it in.  A row of the table that a checkout has
   begins with the example of its key, and was built as it says.                       *)
ASSUME ApkAssumption ==
    /\ RowCount \in Nat \ {0} /\ FirstSource \in Sources
    /\ Nothing \notin Invocations /\ Demo # Nothing
    /\ \A c \in Checkouts :
          /\ IsAList(c.table) /\ c.upsets \in Nat
          /\ \A i \in DOMAIN c.table :
                /\ c.table[i].example # Nothing /\ c.table[i].target # Planted
                /\ c.table[i].example = Demo => c.table[i].module = ProbedModule
          /\ c.golden # Nothing =>
                IsAList(c.golden) /\ \A i \in DOMAIN c.golden : RowOK(c.golden[i])

VARIABLES
    table,          \* EXAMPLES
    golden,         \* the recorded table, a sequence of rows, or Nothing
    source,         \* the source of each module
    declared,       \* the APK targets that each module declares
    outputs,        \* what each configured output holds
    run,            \* the invocations
    probe,          \* [at, child, original]
    upsets          \* how many edits, kills and probes may still happen (a bound)

apkVars == <<table, golden, source, declared, outputs, run, probe, upsets>>

Modules == {table[i].module : i \in DOMAIN table}
LabelsIn(rows) == {rows[i].target : i \in DOMAIN rows}
LabelsOf(m) == {table[i].target : i \in {j \in DOMAIN table : table[j].module = m}}
OutputOf(r) == <<r.module, r.target, r.flags>>

(* calls are the queries and builds it started, named says whether its error output has
   the planted label, and found is what it finds in the table when it opens it, at which
   the code does not look. *)
NotRun == [at |-> "idle", record |-> FALSE, only |-> Nothing, build |-> TRUE,
           baseline |-> Nothing, inventory |-> <<>>, left |-> <<>>, rows |-> <<>>,
           calls |-> <<>>, named |-> FALSE, found |-> Nothing]

ApkStart(c) ==
    /\ table = c.table /\ golden = c.golden
    /\ source = [m \in Modules |-> FirstSource]
    /\ declared = [m \in Modules |-> LabelsOf(m)]
    /\ outputs = [o \in {OutputOf(table[i]) : i \in DOMAIN table} |-> Nothing]
    /\ run = [p \in Invocations |-> NotRun]
    /\ probe = [at |-> "idle", child |-> Nothing, original |-> {}]
    /\ upsets = c.upsets
ApkInit == \E c \in Checkouts : ApkStart(c)

Upset == upsets > 0 /\ upsets' = upsets - 1

\* Invocation p goes on as r; nothing else changes but what is named.
Goes(p, r) == run' = [run EXCEPT ![p] = r]

\* What an invocation that ended has built is gone with it.
Ends(p, how) ==
    Goes(p, [run[p] EXCEPT !.at = how, !.baseline = Nothing, !.left = <<>>, !.rows = <<>>,
                           !.found = Nothing])

\* One inventory per example and module, in the order of EXAMPLES.
IsFirst(rows, i) ==
    \A j \in 1..(i - 1) :
        <<rows[j].example, rows[j].module>> # <<rows[i].example, rows[i].module>>

ExamplesOf(rows) ==
    LET first == Filtered([i \in DOMAIN rows |-> i], {i \in DOMAIN rows : IsFirst(rows, i)})
    IN  [i \in DOMAIN first |-> rows[first[i]]]

StartRun(p, c) ==
    /\ run[p].at = "idle"
    /\ LET started == [NotRun EXCEPT
               !.record = c.record, !.only = c.only, !.build = c.build,
               !.baseline = IF c.record /\ c.only # Nothing THEN golden ELSE Nothing]
           accepted == /\ c.only \in Names(table) \cup {Nothing}
                       /\ c.record /\ c.only # Nothing => ValidBaseline(table, golden)
                       /\ ValidTable(table)
       IN  Goes(p, IF accepted
                   THEN [started EXCEPT !.at = "query",
                             !.left = ExamplesOf(Selected(table, c.only))]
                   ELSE [started EXCEPT !.at = "failed", !.baseline = Nothing])
    /\ UNCHANGED <<table, golden, source, declared, outputs, upsets>>

Listed(rows, labels) == LabelsIn(rows) = labels

ToBuild(r) == [r EXCEPT !.at = "build", !.left = Selected(table, r.only)]

Asked(r) == IF r.left # <<>> THEN r ELSE ToBuild(r)

AskInventory(p) ==
    /\ run[p].at = "query"
    /\ LET r == run[p]
           asked == [r EXCEPT !.calls = Append(@, "query"),
                         !.inventory = Append(@, declared[Head(r.left).module]),
                         !.left = Tail(@)]
       IN  IF ~Listed(Selected(table, Head(r.left).example), declared[Head(r.left).module])
           THEN Goes(p, [asked EXCEPT !.at = "failed", !.left = <<>>,
                             !.named = Planted \in declared[Head(r.left).module]])
           ELSE Goes(p, Asked(asked))
    /\ UNCHANGED <<table, golden, source, declared, outputs, probe, upsets>>

\* Bazel cannot answer, and may have said something of an app that is there.
QueryFails(p) ==
    /\ run[p].at = "query"
    /\ \E says \in BOOLEAN :
          /\ says => Planted \in declared[Head(run[p].left).module]
          /\ Goes(p, [run[p] EXCEPT !.at = "failed", !.baseline = Nothing, !.left = <<>>,
                          !.calls = Append(@, "query"), !.named = says])
    /\ UNCHANGED <<table, golden, source, declared, outputs, probe, upsets>>

BuildRow(p) ==
    /\ run[p].at = "build" /\ run[p].left # <<>>
    /\ LET r == Head(run[p].left)
       IN  IF run[p].build
           THEN /\ outputs' = [outputs EXCEPT ![OutputOf(r)] = ApkOf(r, source[r.module])]
                /\ Goes(p, [run[p] EXCEPT !.at = "hash", !.calls = Append(@, "build")])
           ELSE Goes(p, [run[p] EXCEPT !.at = "hash"]) /\ UNCHANGED outputs
    /\ UNCHANGED <<table, golden, source, declared, probe, upsets>>

\* A build that Bazel cannot do ends the invocation.
BuildFails(p) ==
    /\ run[p].at = "build" /\ run[p].left # <<>> /\ run[p].build
    /\ Ends(p, "failed")
    /\ UNCHANGED <<table, golden, source, declared, outputs, probe, upsets>>

HashRow(p) ==
    /\ run[p].at = "hash"
    /\ LET r   == Head(run[p].left)
           apk == outputs[OutputOf(r)]
       IN  IF apk # Nothing /\ apk.abis = SelectedAbis(r.abi)
           THEN Goes(p, [run[p] EXCEPT !.at = "build", !.left = Tail(@),
                             !.rows = Append(@, RecordedRow(r, apk))])
           ELSE Ends(p, "failed")
    /\ UNCHANGED <<table, golden, source, declared, outputs, probe, upsets>>

\* Bazel is asked for the output before it is hashed, and for its actions afterwards.
HashFails(p) ==
    /\ run[p].at = "hash"
    /\ Ends(p, "failed")
    /\ UNCHANGED <<table, golden, source, declared, outputs, probe, upsets>>

CompareRows(p) ==
    /\ run[p].at = "build" /\ run[p].left = <<>> /\ ~run[p].record
    /\ IF TableMatches(table, golden, run[p].only, run[p].rows)
       THEN Ends(p, "passed")
       ELSE Ends(p, "failed")
    /\ UNCHANGED <<table, golden, source, declared, outputs, probe, upsets>>

RowsToWrite(r) ==
    IF r.only = Nothing THEN r.rows ELSE MergeRows(table, r.baseline, r.rows)

\* write_text: the file is emptied when it is opened, and written when it is closed.
\* Whole tables are of one length, so that the last to close leaves its own.
OpenTable(p) ==
    /\ run[p].at = "build" /\ run[p].left = <<>> /\ run[p].record
    /\ golden' = <<>>
    /\ Goes(p, [run[p] EXCEPT !.at = "open", !.found = golden])
    /\ UNCHANGED <<table, source, declared, outputs, probe, upsets>>

CloseTable(p) ==
    /\ run[p].at = "open"
    /\ golden' = RowsToWrite(run[p])
    /\ Ends(p, "recorded")
    /\ UNCHANGED <<table, source, declared, outputs, probe, upsets>>

KillRun(p) ==
    /\ run[p].at \in {"query", "build", "hash", "open"}
    /\ Upset /\ Ends(p, IF run[p].at = "open" THEN "torn" ELSE "killed")
    /\ UNCHANGED <<table, golden, source, declared, outputs, probe>>

EditModule(m) ==
    /\ Upset
    /\ \E s \in Sources : s # source[m] /\ source' = [source EXCEPT ![m] = s]
    /\ UNCHANGED <<table, golden, declared, outputs, run, probe>>

-----------------------------------------------------------------------------
\* The probe keeps the bytes of the BUILD file, adds an app to them, and writes them
\* back however the check it starts comes out.
PlantApp ==
    /\ probe.at \in {"idle", "killed"} /\ ProbedModule \in Modules
    /\ Upset
    /\ probe' = [probe EXCEPT !.at = "planted", !.original = declared[ProbedModule]]
    /\ declared' = [declared EXCEPT ![ProbedModule] = @ \cup {Planted}]
    /\ UNCHANGED <<table, golden, source, outputs, run>>

CheckPlanted(p) ==
    /\ probe.at = "planted" /\ Planted \notin probe.original
    /\ StartRun(p, [record |-> FALSE, only |-> Demo, build |-> TRUE])
    /\ probe' = [probe EXCEPT !.at = "waiting", !.child = p]

\* The probe's own query fails: for whatever reason, and always when a plant was left
\* behind, since a package with two apps of one name does not load.
ProbeGivesUp ==
    /\ probe.at = "planted"
    /\ declared' = [declared EXCEPT ![ProbedModule] = probe.original]
    /\ probe' = [probe EXCEPT !.at = "failed"]
    /\ UNCHANGED <<table, golden, source, outputs, run, upsets>>

Refused(r) == r.at # "passed" /\ r.calls = <<"query">> /\ r.named

RestoreApp ==
    /\ probe.at = "waiting"
    /\ run[probe.child].at \in {"passed", "failed", "killed"}
    /\ declared' = [declared EXCEPT ![ProbedModule] = probe.original]
    /\ probe' = [probe EXCEPT !.at = IF Refused(run[probe.child]) THEN "passed" ELSE "failed"]
    /\ UNCHANGED <<table, golden, source, outputs, run, upsets>>

KillProbe ==
    /\ probe.at \in {"planted", "waiting"}
    /\ probe' = [probe EXCEPT !.at = "killed"]
    /\ UNCHANGED <<table, golden, source, declared, outputs, run, upsets>>

RunNext(p) ==
    \/ \E c \in Commands : StartRun(p, c) /\ UNCHANGED probe
    \/ AskInventory(p) \/ QueryFails(p) \/ BuildRow(p) \/ BuildFails(p)
    \/ HashRow(p) \/ HashFails(p)
    \/ CompareRows(p) \/ OpenTable(p) \/ CloseTable(p) \/ KillRun(p)
    \/ CheckPlanted(p)

ApkNext ==
    \/ \E p \in Invocations : RunNext(p)
    \/ \E m \in Modules : EditModule(m)
    \/ PlantApp \/ ProbeGivesUp \/ RestoreApp \/ KillProbe

ApkSpec == ApkInit /\ [][ApkNext]_apkVars

-----------------------------------------------------------------------------
(* The state keeps its types: the rows of an invocation that writes are the selected
   ones, in order. *)
ApkTypeOK ==
    /\ golden = Nothing \/ \A i \in DOMAIN golden : golden[i].key # Nothing => Len(golden[i].key) = 4
    /\ source \in [Modules -> Sources] /\ upsets \in Nat
    /\ \A p \in Invocations : run[p].at = "open" =>
           [i \in DOMAIN run[p].rows |-> run[p].rows[i].key]
               = RowKeys(Selected(table, run[p].only))

(* A check that passes has found, for every configured row it selected, one recorded
   row and no other, with the digest of what this invocation hashed, and hashed what
   the row says: its mode and its ABIs (main, assert_row_coverage, collect). *)
PassesOnRecordedRows ==
    \A p \in Invocations : run[p].at # "passed" /\ run'[p].at = "passed" =>
          /\ golden # Nothing
          /\ \A i \in DOMAIN golden :
                run[p].only \in {Nothing, golden[i].example} =>
                    \E j \in DOMAIN run[p].rows : golden[i] = run[p].rows[j]
          /\ \A i \in DOMAIN table : run[p].only \in {Nothing, table[i].example} =>
                Cardinality({j \in DOMAIN golden : golden[j].key = KeyOf(table[i])}) = 1
          /\ \A j \in DOMAIN run[p].rows : WhatItSays(run[p].rows[j])

(* Whoever records, and however invocations overlap or are killed, the table is the
   one the checkout had or a row for every row of EXAMPLES in its order; it is empty
   only while an invocation writes it, or after one was killed as it did
   (validate_subset_baseline, merge, main). *)
RecordsAreWhole ==
    \/ golden \in {c.golden : c \in Checkouts}
    \/ [i \in DOMAIN golden |-> golden[i].key] = RowKeys(table)
    \/ golden = <<>> /\ \E p \in Invocations : run[p].at \in {"open", "torn"}

(* No row is recorded under a mode or for ABIs that its APK was not built with
   (configured_row_keys, apk_abis). *)
RecordsSayWhatTheyAre == golden # Nothing => \A i \in DOMAIN golden : WhatItSays(golden[i])

(* `--record --only` replaces the rows of its example by those it built.  It leaves
   every other row as it finds it if the table is then still the one that it read when
   it began (merge). *)
RecordReplacesItsOwn ==
    \A p \in Invocations : run[p].at = "open" /\ run'[p].at = "recorded" =>
          \A i \in DOMAIN table :
              LET k == KeyOf(table[i])
              IN  IF run[p].only \in {Nothing, table[i].example}
                  THEN RowFor(k, golden') = RowFor(k, run[p].rows)
                  ELSE run[p].found = run[p].baseline =>
                           RowFor(k, golden') = RowFor(k, run[p].found)

(* `--record --only` "replaces only that example's rows" (its help text and the comment
   in main): the other rows are those that the table had when it was opened, also where
   another invocation has recorded in the meantime. *)
RecordKeepsTheRest ==
    [][\A p \in Invocations : run[p].at = "open" /\ run'[p].at = "recorded" =>
          \A i \in DOMAIN table :
              LET k == KeyOf(table[i])
              IN  run[p].only \notin {Nothing, table[i].example} /\ HasRow(k, run[p].found) =>
                      RowFor(k, golden') = RowFor(k, run[p].found)]_apkVars

(* No check builds or passes, and no table is written, unless every package of a
   selected example declared exactly the apps of EXAMPLES when this invocation asked:
   none that is not listed, also not one that a killed probe left, and none too few
   (assert_target_inventory).  An app that appears later is for the next invocation. *)
InventoryIsExact ==
    \A p \in Invocations : run[p].at \in {"build", "hash", "open", "passed", "recorded"} =>
        LET asked == ExamplesOf(Selected(table, run[p].only))
        IN  run[p].inventory =
                [i \in DOMAIN asked |-> LabelsIn(Selected(table, asked[i].example))]

(* The check that a probe starts never builds or passes, however long it lasts, whoever
   kills the probe and whatever the next probe does; and a probe that passes has put
   the package back (apk_inventory_probe.py, check and main). *)
PlantStopsItsCheck ==
    /\ probe.child # Nothing =>
           /\ run[probe.child].at \in {"query", "failed", "killed"}
           /\ \A i \in DOMAIN run[probe.child].calls : run[probe.child].calls[i] = "query"
    /\ probe.at = "passed" => Planted \notin declared[ProbedModule]

(* Invocations that overlap, are killed or see edits keep the recorded table whole and
   true; none goes on over an inventory that differs from EXAMPLES, and the probe's own
   check never does. *)
TableSafe ==
    /\ ApkTypeOK
    /\ RecordsAreWhole /\ RecordsSayWhatTheyAre
    /\ InventoryIsExact /\ PlantStopsItsCheck

(* What an invocation says when it ends is so: of the rows it checked, and of those
   it wrote and kept. *)
RunsKeepTheirWord == [][PassesOnRecordedRows /\ RecordReplacesItsOwn]_apkVars
=============================================================================
