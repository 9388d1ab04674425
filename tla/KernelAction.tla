----------------------------- MODULE KernelAction -----------------------------
(* The test kernel action (rules.bzl, _dart_test_kernel_impl) and the list of
   inputs its compile did not read (_writeUnused of the test-kernel driver).

   A test takes every test/ file of its package as an input, and depends only on
   those its compile reads: Bazel, outside the repository, leaves the files of
   the unused list out of the next up-to-date check.  The model asks whether an
   output that Bazel takes for up to date is the one a compile would write now.

   A library is a URI; a file is the URI under one of the two file system roots,
   the source tree or the output tree, and the front end reads the first that
   exists.  The libraries of the import dill are loaded with it and read no
   file.  A file's version stands for its contents, which fix its imports.      *)
EXTENDS Integers, FiniteSets

CONSTANTS
    Uris,        \* library URIs
    Entry,       \* the generated bootstrap
    InSeed,      \* the URIs the import dill holds
    Kept,        \* files that are always declared: package sources, the bootstrap
    Prunable,    \* files a BUILD file may declare in prunable_srcs
    Versions,
    Imports      \* what a file imports, in each version

Roots == {"src", "bin"}
Files == Roots \X Uris
Dill  == <<"dill", Entry>>      \* the import dill

ASSUME ActionAssumption ==
    /\ Entry \in Uris \ InSeed
    /\ Kept \subseteq Files /\ Prunable \subseteq Files
    /\ Kept \cap Prunable = {} /\ <<"bin", Entry>> \in Kept
    /\ Imports \in [Files -> [Versions -> SUBSET Uris]]
    /\ \A u \in InSeed, r \in Roots : <<r, u>> \notin Prunable

VARIABLES
    disk,        \* the version of each file, and of the import dill
    declared,    \* the prunable_srcs of the target now
    entry,       \* Bazel's action cache entry
    built        \* what the last build reported, or Unbuilt

actionVars == <<disk, declared, entry, built>>

None    == [kind |-> "none"]
Unbuilt == [kind |-> "unbuilt"]
Failed  == [kind |-> "failed"]

-----------------------------------------------------------------------------
(* A compile of a state: its declared prunable files and its disk.  These
   operators take the state as arguments, since the cache holds a past one.    *)
Inputs(decl) == Kept \cup decl

(* The multi-root file system: the first root that holds the URI. *)
Resolves(u, decl) == \E r \in Roots : <<r, u>> \in Inputs(decl)
FileOf(u, decl)   == IF <<"src", u>> \in Inputs(decl) THEN <<"src", u>>
                                                       ELSE <<"bin", u>>

(* Libraries the compile reads, and those it needs at all. *)
IsRead(u, decl) == u \notin InSeed /\ Resolves(u, decl)
Closed(S, decl, d) ==
    /\ Entry \in S
    /\ \A u \in S : IsRead(u, decl) =>
          Imports[FileOf(u, decl)][d[FileOf(u, decl)]] \subseteq S
Reach(decl, d) == {u \in Uris : \A S \in SUBSET Uris : Closed(S, decl, d) => u \in S}

ReadUris(decl, d)  == {u \in Reach(decl, d) : IsRead(u, decl)}
ReadFiles(decl, d) == {FileOf(u, decl) : u \in ReadUris(decl, d)}

(* An import that resolves to nothing is an error of the compile. *)
Compiles(decl, d) ==
    \A u \in Reach(decl, d) : u \in InSeed \/ Resolves(u, decl)

(* The dill stands for what it is made from. *)
Output(decl, d) ==
    IF Compiles(decl, d)
    THEN [kind |-> "dill", seed |-> d[Dill],
          read |-> {<<f, d[f]>> : f \in ReadFiles(decl, d)}]
    ELSE Failed

(* _writeUnused attributes each source of the component that the seed does not
   hold to the first root that has it.  Mutant: always to the source tree. *)
AttributedToSource(u, decl) == {<<"src", u>>}
Attributed(u, decl) == IF Resolves(u, decl) THEN {FileOf(u, decl)} ELSE {}

(* The list: the manifest's files that are attributed to no source.  Mutant: an
   empty list. *)
NothingUnused(decl, d) == {}
Unused(decl, d) ==
    decl \ UNION {Attributed(u, decl) : u \in Reach(decl, d) \ InSeed}

-----------------------------------------------------------------------------
Init ==
    /\ disk \in [Kept \cup Prunable \cup {Dill} -> Versions]
    /\ declared \in SUBSET Prunable
    /\ entry = None /\ built = Unbuilt

(* Edits between builds: of a file's contents, and of the glob's files. *)
Edit ==
    /\ \E f \in DOMAIN disk, v \in Versions : disk' = [disk EXCEPT ![f] = v]
    /\ built' = Unbuilt
    /\ UNCHANGED <<declared, entry>>

Declare ==
    /\ \E f \in Prunable \ declared : declared' = declared \cup {f}
    /\ built' = Unbuilt
    /\ UNCHANGED <<disk, entry>>

Remove ==
    /\ \E f \in declared : declared' = declared \ {f}
    /\ built' = Unbuilt
    /\ UNCHANGED <<disk, entry>>

(* The action key but for the entry's unused files: the manifest, which lists
   the declared files and is an input itself, and the digests of the inputs. *)
UpToDate ==
    /\ entry # None
    /\ declared = entry.declared
    /\ \A f \in (Inputs(declared) \cup {Dill}) \ entry.unused :
          disk[f] = entry.disk[f]

BuildUpToDate ==
    /\ UpToDate
    /\ built' = entry.output
    /\ UNCHANGED <<disk, declared, entry>>

(* The action runs with every declared input; the entry of a failed one is
   gone. *)
BuildRuns ==
    /\ ~UpToDate
    /\ built' = Output(declared, disk)
    /\ entry' = IF Compiles(declared, disk)
                THEN [kind |-> "entry", declared |-> declared, disk |-> disk,
                      unused |-> Unused(declared, disk),
                      output |-> Output(declared, disk)]
                ELSE None
    /\ UNCHANGED <<disk, declared>>

Next == Edit \/ Declare \/ Remove \/ BuildUpToDate \/ BuildRuns

Spec == Init /\ [][Next]_actionVars

-----------------------------------------------------------------------------
(* The state keeps its types, and an entry's unused files are among its inputs. *)
ActionTypeOK ==
    /\ disk \in [Kept \cup Prunable \cup {Dill} -> Versions]
    /\ declared \subseteq Prunable
    /\ entry # None =>
          /\ entry.kind = "entry"
          /\ entry.declared \subseteq Prunable
          /\ entry.disk \in [Kept \cup Prunable \cup {Dill} -> Versions]
          /\ entry.unused \subseteq entry.declared
          /\ entry.output.kind = "dill"

(* Pruning changes no result (_writeUnused, driver.dart): what a build reports,
   run or taken from the cache, is what a compile of the present state gives. *)
PruneSound == built # Unbuilt => built = Output(declared, disk)

(* An edit to a helper re-runs only the tests that import it (the doc of
   flutter_test_suite): a build runs again after a success only when the
   import dill, a kept file, a file the last compile read or the set of
   declared files has changed. *)
PrunePrecise ==
    [][entry # None /\ BuildRuns =>
         \/ declared # entry.declared
         \/ \E f \in Kept \cup {Dill} \cup ReadFiles(entry.declared, entry.disk) :
               disk[f] # entry.disk[f]]_actionVars
=============================================================================
