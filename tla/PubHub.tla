-------------------------------- MODULE PubHub --------------------------------
(* pub_hub (pub_lock.bzl): the repository of one pubspec.lock.  It finds the directory of
   every package, writes the two package configs, closes the dependencies over the lock
   and says which plugins an app has.

   A directory is a sequence of segments from the execroot.  A lock is a set of packages
   [name, source, path], the path a sequence of segments.  A project is [project, floor,
   root, lock, pubspec, unread, excluded]: the lock's directory, the segments of it that are
   the lock's own repository, the name in the pubspec beside it, and the text of every
   package's pubspec, also the root's; the packages whose pubspec is not there or names no
   SDK that language_version takes, the root among them also when it has no name; and the
   names in test_deps_exclude. *)
EXTENDS PubspecReader, FiniteSets

CONSTANTS
    HubProjects,
    Up, Here,       \* .. and .
    Hub             \* the directory of the hub, below external

LockNames(h) == {p.name : p \in h.lock}
ProjectNames(h) == {h.root} \cup LockNames(h)
IsList(s) == s \in Seq(ToSet(s))

(* A lock names finitely many packages, each once; it lies in its repository; there is a
   pubspec of each package and of the root; and .. and . are no names. *)
ASSUME HubAssumption ==
    /\ Up # Here /\ {Hub, "external", ".dart_tool"} \cap {Up, Here} = {}
    /\ \A h \in HubProjects :
          /\ IsFiniteSet(h.lock) /\ \A p, q \in h.lock : p.name = q.name => p = q
          /\ IsList(h.project) /\ h.floor \in 0..Len(h.project)
          /\ (ProjectNames(h) \cup ToSet(h.project)) \cap {Up, Here} = {}
          /\ ProjectNames(h) \subseteq DOMAIN h.pubspec
          /\ \A p \in h.lock : IsList(p.path)
          /\ \A n \in DOMAIN h.pubspec : IsText(h.pubspec[n])

VARIABLES
    on,             \* the project
    step,           \* "places", "root", "close", "write", "written" or "refused"
    entries,        \* [name -> directory]
    reached, frontier, rounds,
    out             \* what is written, a record
hubVars == <<on, step, entries, reached, frontier, rounds, out>>

Nothing == <<>>
Names == DOMAIN entries
DepsOf(name) == Dependencies(on.pubspec[name])

HubStart(project) ==
    /\ on = project
    /\ step = "places" /\ entries = [n \in {} |-> <<>>]
    /\ reached = {} /\ frontier = {} /\ rounds = 0 /\ out = Nothing
HubInit == \E project \in HubProjects : HubStart(project)

-----------------------------------------------------------------------------
Refused == step' = "refused" /\ UNCHANGED <<on, entries, reached, frontier, rounds, out>>

(* A package without a pubspec, at its turn; the root's is looked for first, and its name
   last. *)
RefusePubspec ==
    /\ step = "places" /\ on.unread \cap (ProjectNames(on) \ Names) # {}
    /\ Refused

(* The directory of a package.  Hosted and SDK packages have a repository of their own. *)
Unplaced(p) == step = "places" /\ p \in on.lock /\ p.name \notin Names
AddEntry(name, dir) ==
    /\ entries' = [n \in Names \cup {name} |-> IF n = name THEN dir ELSE entries[n]]
    /\ UNCHANGED <<on, reached, frontier, rounds, out>>

PlaceInRepository(p) ==
    /\ Unplaced(p) /\ p.source \in {"hosted", "sdk"} /\ p.name \notin on.unread
    /\ AddEntry(p.name, <<"external", p.name>>) /\ UNCHANGED step

(* A path package: .. pops a segment, down to the lock's repository. *)
Escaped == <<Up>>

Walk(dir, seg) ==
    IF dir = Escaped \/ seg = Here THEN dir
    ELSE IF seg # Up THEN Append(dir, seg)
    ELSE IF Len(dir) <= on.floor THEN Escaped ELSE Front(dir)
PathDirs(p) ==
    LET dir[n \in 0..Len(p.path)] ==
            IF n = 0 THEN on.project ELSE Walk(dir[n - 1], p.path[n])
    IN  dir
PathDir(p) == PathDirs(p)[Len(p.path)]

PlaceByPath(p) ==
    /\ Unplaced(p) /\ p.source = "path" /\ PathDir(p) # Escaped /\ p.name \notin on.unread
    /\ AddEntry(p.name, PathDir(p)) /\ UNCHANGED step

RefusePath(p) == Unplaced(p) /\ p.source = "path" /\ PathDir(p) = Escaped /\ Refused

(* The root comes last, over a package of its name; then the entries are counted. *)
AddRoot ==
    /\ step = "places" /\ \A p \in on.lock : p.name \in Names
    /\ on.root \notin on.unread
    /\ AddEntry(on.root, on.project)
    /\ step' = "root"

RefuseCount == step = "root" /\ Cardinality(Names) # Cardinality(on.lock) + 1 /\ Refused

(* A dependency section that is no block, in any pubspec, or a dev one in the root's. *)
SectionsAreRead ==
    /\ \A n \in Names : IsReadable(on.pubspec[n])
    /\ IsReadableSection(on.pubspec[on.root], "dev_dependencies")

RefuseSection == step = "root" /\ ~SectionsAreRead /\ Refused

StartClosure ==
    /\ step = "root" /\ Cardinality(Names) = Cardinality(on.lock) + 1
    /\ SectionsAreRead
    /\ reached' = {on.root} /\ frontier' = {on.root} /\ rounds' = 0
    /\ step' = "close"
    /\ UNCHANGED <<on, entries, out>>

-----------------------------------------------------------------------------
(* _plugin_dependency_graph: as many rounds as there are entries, at most. *)
CloseOnce ==
    /\ step = "close" /\ rounds < Cardinality(Names) /\ frontier # {}
    /\ LET next == ((UNION {DepsOf(n) : n \in frontier}) \cap Names) \ reached
       IN  frontier' = next /\ reached' = reached \cup next
    /\ rounds' = rounds + 1
    /\ UNCHANGED <<on, step, entries, out>>

(* Mutant: only what the root names is taken. *)
StopAfterOne ==
    /\ step = "close" /\ (rounds = 1 \/ frontier = {})
    /\ step' = "write"
    /\ UNCHANGED <<on, entries, reached, frontier, rounds, out>>

StopClosure ==
    /\ step = "close" /\ (rounds = Cardinality(Names) \/ frontier = {})
    /\ step' = "write"
    /\ UNCHANGED <<on, entries, reached, frontier, rounds, out>>

-----------------------------------------------------------------------------
(* _relpath, a sequence of segments. *)
CommonLength(a, b) ==
    Max({0} \cup {n \in 1..Len(a) : n <= Len(b) /\ SubSeq(a, 1, n) = SubSeq(b, 1, n)})
Relative(base, target) ==
    LET common == CommonLength(base, target)
    IN  [i \in 1..(Len(base) - common) |-> Up] \o SubSeq(target, common + 1, Len(target))

Config(base) == [n \in Names |-> Relative(base, entries[n])]

(* _plugins_metadata, of the packages that are not the root. *)
Others == Names \ {on.root}
PlatformsOf(n) == FlutterPlugins(on.pubspec[n]).platforms
Field(info, f) == IF f \in DOMAIN info THEN info[f] ELSE ""
Implementing(info) ==
    Field(info, "pluginClass") # "" \/ Field(info, "dartPluginClass") # "" \/ Field(info, "ffiPlugin") = "true"
WithPlatform(os) == {n \in Others : os \in DOMAIN PlatformsOf(n)}
ImplementingOn(os) == {n \in WithPlatform(os) : Implementing(PlatformsOf(n)[os])}

Metadata(n, os) ==
    LET info == PlatformsOf(n)[os]
    IN  [name |-> n,
         native |-> Field(info, "pluginClass") # "" \/ Field(info, "ffiPlugin") = "true",
         dependencies |-> DepsOf(n) \cap ImplementingOn(os),
         direct |-> n \in DepsOf(on.root),
         dev |-> n \notin reached,
         implements |-> FlutterPlugins(on.pubspec[n]).implements]

Systems == UNION {DOMAIN PlatformsOf(n) : n \in Others}

(* pubspec_dart_plugins, and the registrants of a debug and a release build. *)
NativeSystems == {"android", "ios", "linux", "macos", "windows"}
DartPlugins(n) ==
    {<<n, os>> : os \in {s \in NativeSystems \cap DOMAIN PlatformsOf(n) :
                            Field(PlatformsOf(n)[s], "dartPluginClass") # ""}}

Written ==
    [hubConfig |-> Config(<<"external", Hub>>),
     projectConfig |-> Config(Append(on.project, ".dart_tool")),
     plugins |-> [os \in Systems \cup {"android"} |-> {Metadata(n, os) : n \in WithPlatform(os)}],
     debug |-> UNION {DartPlugins(n) : n \in Others},
     release |-> UNION {DartPlugins(n) : n \in Others \cap reached}]

(* A platform's map over several lines, or a package to leave out that the lock has not:
   what was written before them is discarded with the repository. *)
CanWrite ==
    /\ \A n \in Others : ~HasCutPlatform(on.pubspec[n])
    /\ on.excluded \subseteq LockNames(on)

RefuseWrite == step = "write" /\ ~CanWrite /\ Refused

Write ==
    /\ step = "write" /\ CanWrite /\ step' = "written"
    /\ out' = Written
    /\ UNCHANGED <<on, entries, reached, frontier, rounds>>

HubNext ==
    \/ \E p \in on.lock : PlaceInRepository(p) \/ PlaceByPath(p) \/ RefusePath(p)
    \/ RefusePubspec \/ AddRoot \/ RefuseCount \/ RefuseSection \/ StartClosure
    \/ CloseOnce \/ StopClosure \/ RefuseWrite \/ Write

HubSpec == HubInit /\ [][HubNext]_hubVars

-----------------------------------------------------------------------------
(* The directory a relative path leads to from dir; there is nothing above the execroot. *)
Toward(dir, seg) ==
    IF seg = Here THEN dir
    ELSE IF seg # Up THEN Append(dir, seg)
    ELSE IF dir = <<>> THEN dir ELSE Front(dir)
Passed(dir, path) ==
    LET at[n \in 0..Len(path)] == IF n = 0 THEN dir ELSE Toward(at[n - 1], path[n])
    IN  at
Resolved(dir, path) == Passed(dir, path)[Len(path)]

(* How deep the first n segments of a path lead from the project, and whether it never
   leaves the repository. *)
Depth(path, n) ==
    Len(on.project) + Cardinality({i \in 1..n : path[i] \notin {Up, Here}})
                    - Cardinality({i \in 1..n : path[i] = Up})
StaysInside(p) == \A n \in 0..Len(p.path) : Depth(p.path, n) >= on.floor

(* What is reached from the root: the least set that holds it and is closed. *)
IsClosed(set) == on.root \in set /\ \A n \in set : DepsOf(n) \cap Names \subseteq set
Reachable == {n \in Names : \A set \in SUBSET Names : IsClosed(set) => n \in set}

(* Both configs lead to the directory the lock gives, from where each lies, for every
   package of the lock and the root and for nothing else (rootUri, _relpath). *)
ConfigsLeadHome ==
    step = "written" =>
        /\ Names = {p.name : p \in on.lock} \cup {on.root}
        /\ \A n \in Names :
              /\ Resolved(<<"external", Hub>>, out.hubConfig[n]) = entries[n]
              /\ Resolved(Append(on.project, ".dart_tool"), out.projectConfig[n]) = entries[n]
        /\ \A p \in on.lock : p.source = "path" => entries[p.name] = Resolved(on.project, p.path)

(* "A `..` may not climb above the lock's own repository": no path package is taken from
   outside it, also not one whose path comes back (_pub_hub_impl). *)
PathsStayInside ==
    \A p \in on.lock : p.source = "path" /\ p.name \in Names => StaysInside(p)

(* A lock and its pubspecs are at fault when a path climbs out, a package is named as the
   root, a pubspec is not there, a section or a platform is not in a form that is read, or
   test_deps_exclude names what is not locked. *)
AtFault ==
    \/ \E p \in on.lock : p.source = "path" /\ ~StaysInside(p)
    \/ on.root \in LockNames(on)
    \/ on.unread \cap ProjectNames(on) # {}
    \/ \E n \in ProjectNames(on) : ~IsReadable(on.pubspec[n])
    \/ ~IsReadableSection(on.pubspec[on.root], "dev_dependencies")
    \/ \E n \in LockNames(on) : HasCutPlatform(on.pubspec[n])
    \/ ~(on.excluded \subseteq LockNames(on))

(* Of the faults that are modelled, each refuses the hub, whatever order the packages are
   taken in and wherever the code comes upon it, and no hub without one is refused
   (_pub_hub_impl). *)
RefusesWithReason ==
    /\ step = "refused" => AtFault
    /\ step = "written" => ~AtFault

(* What a release build has are the packages that the root reaches without its dev
   dependencies: their plugins are no dev dependencies, and their Dart plugins are in both
   registrants; the others are in the debug one alone (plugins_metadata.json,
   dart_plugin_registrant_release.dart). *)
ReleaseIsReached ==
    step = "written" =>
        /\ reached = Reachable
        /\ out.release = {d \in out.debug : d[1] \in Reachable}
        /\ \A os \in DOMAIN out.plugins : \A m \in out.plugins[os] :
              /\ m.dev = (m.name \notin Reachable)
              /\ m.direct => ~m.dev

(* A native plugin has as dependencies plugins of the same system that have code there
   (_plugins_metadata): the app-facing ones have no target. *)
DependenciesHaveTargets ==
    step = "written" =>
        \A os \in DOMAIN out.plugins : \A m \in out.plugins[os] : \A d \in m.dependencies :
            \E o \in out.plugins[os] :
                o.name = d /\ (o.native \/ <<d, os>> \in out.debug \/ os \notin NativeSystems)

(* The hub is the lock: every pubspec is read as it is indented, every package is where
   the lock says, inside its repository, and a native dependency is a target. *)
HubSafe ==
    /\ step = "root" => \A n \in DOMAIN on.pubspec : PubspecReadAsIndented(on.pubspec[n])
    /\ ConfigsLeadHome /\ PathsStayInside /\ RefusesWithReason /\ DependenciesHaveTargets
=============================================================================
