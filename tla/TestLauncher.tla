----------------------------- MODULE TestLauncher -----------------------------
(* The working directory of a flutter_test (flutter_test.bzl): which config the
   bootstrap imports, which files are in the runfiles, and the launcher's mirror of
   the package, in which the materialized directories are real.

   A path is a sequence of names, from the repository's root.  A test is [test, pkg,
   srcs, prunable, data, dirs, mode]: the test file, the package's directory, the
   sources and those the kernel may leave unread, the data with the goldens, the
   directories to materialize (a list of paths below pkg), and "copy", "clone" (a copy
   on macOS, which clones if it can) or "hardlink".  A node of the mirror is a
   directory, a link to a path of the runfiles, or a file that is a copy of one or its
   hard link. *)
EXTENDS Integers, Sequences, SequencesExt

CONSTANTS
    Tests,
    ConfigName,     \* flutter_test_config.dart
    ParentName,             \* ..
    Nowhere

PathsIn(t) == {t.test, t.pkg} \cup t.srcs \cup t.data \cup t.prunable
                  \cup {t.dirs[i] : i \in DOMAIN t.dirs}
PathNames == UNION {ToSet(p) : p \in UNION {PathsIn(t) : t \in Tests}}
Path == Seq(PathNames)

Below(d, p) == IsStrictPrefix(d, p)

(* Every path is a sequence of names, and nothing lies below a declared file. *)
ASSUME LauncherAssumption ==
    \A t \in Tests :
        /\ PathsIn(t) \subseteq Path
        /\ \A f, g \in t.srcs \cup t.data \cup t.prunable : ~Below(f, g)

VARIABLES
    test,           \* what is declared
    stage,           \* "macro", "config", "analysis", "mirror", "materialize", "runs",
                    \* "refused" or "failed"
    dir, config,    \* the directory looked at, and the config found
    runfiles,
    toLink,         \* the directories on the way that are not made yet
    toCopy,         \* the places in dirs that are not materialized yet
    mirror          \* [path -> node]

launcherVars == <<test, stage, dir, config, runfiles, toLink, toCopy, mirror>>

DirectoryOf(p) == IF p = <<>> THEN <<>> ELSE Front(p)

Package == test.pkg
Declared == test.srcs \cup test.data \cup test.prunable
Dirs == {Package \o test.dirs[i] : i \in DOMAIN test.dirs}

LauncherStart(t) ==
    /\ test = t
    /\ stage = "macro" /\ dir = DirectoryOf(test.test) /\ config = Nowhere
    /\ runfiles = {} /\ toLink = {} /\ toCopy = {}
    /\ mirror = [p \in {} |-> Nowhere]
LauncherInit == \E t \in Tests : LauncherStart(t)

-----------------------------------------------------------------------------
Goes(from, to) ==
    /\ stage = from /\ stage' = to
    /\ UNCHANGED <<test, dir, config, runfiles, toLink, toCopy, mirror>>
RefuseAt(at) == Goes(at, "refused")

(* _materialize_dirs: a directory below the package, and none below another. *)
IsBelowPackage(d) == d # <<>> /\ \A i \in DOMAIN d : d[i] # ParentName

NoneNested ==
    \A i, j \in DOMAIN test.dirs :
        /\ IsBelowPackage(test.dirs[i])
        /\ ~Below(test.dirs[i], test.dirs[j])

RefuseDirs == ~NoneNested /\ RefuseAt("macro")
TakeDirs   == NoneNested /\ Goes("macro", "config")

(* _find_config: from the test's directory up, no further than the package's. *)
Outside == Package # <<>> /\ ~Below(Package, test.test)
Known   == test.srcs \cup test.prunable \cup {test.test}

RefuseOutside == Outside /\ RefuseAt("config")

FindConfig ==
    /\ stage = "config" /\ ~Outside
    /\ IF Append(dir, ConfigName) \in Known
       THEN config' = Append(dir, ConfigName) /\ stage' = "analysis" /\ UNCHANGED dir
       ELSE /\ stage' = IF dir = Package THEN "analysis" ELSE "config"
            /\ dir' = IF dir = Package THEN dir ELSE DirectoryOf(dir)
            /\ UNCHANGED config
    /\ UNCHANGED <<test, runfiles, toLink, toCopy, mirror>>

(* _launcher: a pruned source stays only where it is copied. *)
SomethingIn(d) == \E f \in Declared : Below(d, f)

Kept == {f \in test.prunable : \E d \in Dirs : Below(d, f)}

OnTheWay == {Package} \cup {d \in UNION {{SubSeq(e, 1, n) : n \in 1..Len(e)} : e \in Dirs} :
                               Below(Package, d) /\ \E e \in Dirs : Below(d, e)}

RefuseEmpty == (\E d \in Dirs : ~SomethingIn(d)) /\ RefuseAt("analysis")

Analyse ==
    /\ stage = "analysis" /\ \A d \in Dirs : SomethingIn(d)
    /\ runfiles' = test.srcs \cup test.data \cup Kept
    /\ toLink' = IF Dirs = {} THEN {} ELSE OnTheWay
    /\ toCopy' = DOMAIN test.dirs
    /\ stage' = IF Dirs = {} THEN "runs" ELSE "mirror"
    /\ UNCHANGED <<test, dir, config, mirror>>

-----------------------------------------------------------------------------
(* The script of _materialize_script. *)
Entries(d) == {SubSeq(f, 1, Len(d) + 1) : f \in {g \in runfiles : Below(d, g)}}

Dir     == [kind |-> "dir", of |-> Nowhere]
Link(p) == [kind |-> "link", of |-> p]

\* The nodes of m, and below them those of tree where there is none.
Over(m, tree) == [p \in DOMAIN m \cup DOMAIN tree |-> IF p \in DOMAIN m THEN m[p] ELSE tree[p]]

\* mkdir -p
Made(d) == [p \in {SubSeq(d, 1, n) : n \in 0..Len(d)} |-> Dir]

(* Mutant: only the directories to materialize are left out. *)
CopiedOnly == Dirs

(* What the mirror makes itself is not linked. *)
MadeHere == OnTheWay \cup Dirs

LinkEntries(d) ==
    /\ stage = "mirror" /\ d \in toLink
    /\ \A e \in toLink : Len(d) <= Len(e)
    /\ LET links == Entries(d) \ MadeHere
       IN  /\ links \cap DOMAIN mirror = {}
           /\ mirror' = Over(mirror, Over([p \in links |-> Link(p)], Made(d)))
    /\ toLink' = toLink \ {d}
    /\ stage' = IF toLink' = {} THEN "materialize" ELSE "mirror"
    /\ UNCHANGED <<test, dir, config, runfiles, toCopy>>

\* A directory of the runfiles with what it holds, and what cp -RL makes of it at dest.
TreeOf(d) == UNION {{SubSeq(f, 1, n) : n \in Len(d)..Len(f)} :
                       f \in {g \in runfiles : Below(d, g)}}

CopyOf(d, dest, kind) ==
    [p \in {dest \o SubSeq(q, Len(d) + 1, Len(q)) : q \in TreeOf(d)} |->
        LET q == d \o SubSeq(p, Len(dest) + 1, Len(p))
        IN  IF q \in runfiles THEN [kind |-> kind, of |-> q] ELSE Dir]

\* cp copies into a directory that exists.
Target(m, d) == IF d \in DOMAIN m THEN Append(d, Last(d)) ELSE d

(* No directory is to be where there is a file, and no file where a directory is. *)
CanCopy(m, d) ==
    LET tree == CopyOf(d, Target(m, d), "copy")
    IN  \A p \in DOMAIN tree \cap DOMAIN m : (tree[p] = Dir) = (m[p] = Dir)

Copied(m, d, kind) == Over(CopyOf(d, Target(m, d), kind), m)

Without(d) == [p \in {q \in DOMAIN mirror : ~IsPrefix(d, q)} |-> mirror[p]]

Turn(i) == stage = "materialize" /\ i \in toCopy

KindOf(mode) == IF mode = "hardlink" THEN "hard" ELSE "copy"

Materialize(i) ==
    /\ Turn(i)
    /\ LET d == Package \o test.dirs[i]
       IN  /\ CanCopy(mirror, d)
           /\ mirror' = Copied(mirror, d, KindOf(test.mode))
    /\ toCopy' = toCopy \ {i}
    /\ UNCHANGED <<test, stage, dir, config, runfiles, toLink>>

\* The hard links or the clones cannot be made: what there is goes, and is copied.
MaterializeAgain(i) ==
    /\ Turn(i) /\ test.mode \in {"clone", "hardlink"}
    /\ LET d == Package \o test.dirs[i]
       IN  mirror' = Copied(Without(d), d, "copy")
    /\ toCopy' = toCopy \ {i}
    /\ UNCHANGED <<test, stage, dir, config, runfiles, toLink>>

\* set -e
CopyFails(i) ==
    /\ Turn(i) /\ stage' = "failed"
    /\ test.mode = "copy" /\ ~CanCopy(mirror, Package \o test.dirs[i])
    /\ UNCHANGED <<test, dir, config, runfiles, toLink, toCopy, mirror>>

EnterMirror == toCopy = {} /\ Goes("materialize", "runs")

LauncherNext ==
    \/ RefuseDirs \/ TakeDirs \/ RefuseOutside \/ FindConfig \/ RefuseEmpty \/ Analyse
    \/ \E d \in toLink : LinkEntries(d)
    \/ \E i \in toCopy : Materialize(i) \/ MaterializeAgain(i) \/ CopyFails(i)
    \/ EnterMirror

LauncherSpec == LauncherInit /\ [][LauncherNext]_launcherVars

-----------------------------------------------------------------------------
Mirrored == stage = "runs" /\ Dirs # {}

\* What the test reads at a path of its working directory: through the link above it.
Through(p) == {q \in DOMAIN mirror : IsPrefix(q, p) /\ mirror[q].kind # "dir"}
ReadsAt(p) ==
    {mirror[q].of \o SubSeq(p, Len(q) + 1, Len(p)) : q \in Through(p)} \cap runfiles

\* The paths where there is a file to see.
Seen ==
    UNION {IF mirror[q].kind = "dir" THEN {}
           ELSE {q \o SubSeq(f, Len(mirror[q].of) + 1, Len(f)) :
                    f \in {g \in runfiles : IsPrefix(mirror[q].of, g)}} : q \in DOMAIN mirror}

(* No directory is named twice. *)
Once == \A i, j \in DOMAIN test.dirs : test.dirs[i] = test.dirs[j] => i = j

(* "The mirror holds symlinks to the package's entries", and the directories beside
   them: every file of the package that is in the runfiles is seen at its own path with
   its own content, and there is no other (_materialize_script). *)
MirrorIsThePackage ==
    Mirrored =>
        /\ Seen = {f \in runfiles : Below(Package, f)}
        /\ \A f \in Seen : ReadsAt(f) = {f}

(* "Package-relative directories to copy into the working directory as real files":
   a declared file below one is a file of the mirror, under directories of the mirror,
   also a source that the kernel may leave unread (materialize, _launcher). *)
RealWhereAsked ==
    Mirrored => \A f \in Declared : (\E d \in Dirs : Below(d, f)) =>
        /\ f \in DOMAIN mirror /\ mirror[f].kind \in {"copy", "hard"}
        /\ \A n \in Len(Package)..(Len(f) - 1) : mirror[SubSeq(f, 1, n)] = Dir

(* What is not materialized is not copied, whatever lies beside it, and an unread
   source outside is not there at all: an edit to it re-runs nothing (_launcher). *)
LinkedElsewhere ==
    Mirrored => \A f \in Declared : (\A d \in Dirs : ~Below(d, f)) =>
        /\ f \in DOMAIN mirror => mirror[f].kind = "link"
        /\ f \notin test.srcs \cup test.data => ReadsAt(f) = {}

(* The test is declared under the config nearest to it, of those that are declared at
   or above it in the package (_find_config). *)
NearestConfig ==
    LET near == {c \in Known : /\ c # <<>> /\ Last(c) = ConfigName
                               /\ IsPrefix(Front(c), DirectoryOf(test.test))
                               /\ IsPrefix(Package, Front(c))}
    IN  stage \notin {"macro", "config", "refused"} =>
            IF near = {} THEN config = Nowhere
            ELSE config \in near /\ \A c \in near : Len(c) <= Len(config)

(* Where no directory is named twice, the launcher enters the package with the
   directories real and nothing else, and no step of it fails; where one is, they are
   real as well; the config is the nearest. *)
LauncherSafe ==
    /\ NearestConfig /\ RealWhereAsked
    /\ Once => MirrorIsThePackage /\ LinkedElsewhere /\ stage # "failed"
=============================================================================
