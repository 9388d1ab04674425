------------------------------- MODULE LibEntry -------------------------------
(* lib_entry.py: the libraries of a package's lib/ that one kernel can hold, and
   so the entrypoint of its lib tier.  It parses the candidates, follows their
   unconditional imports and exports breadth first, and goes back from the files
   that import what the VM lacks to everything that reaches them.

   A file is <<dir, name>>.  Its source says whether it is a part, and which
   unconditional imports and exports it has (`part` directives and conditional
   ones are not followed): Web stands for a library the VM lacks, <<"dart">> for
   any other, <<"relative", name>> is of the file's own directory and
   <<"package", p, name>> of the directory the package config has for p. *)
EXTENDS Integers, FiniteSets

CONSTANTS
    Web,
    Projects,       \* [source, config, package, lib, candidates]: what it may run on
    None

\* The candidates are inputs of the action: they exist.
ASSUME EntryAssumption == \A p \in Projects : p.candidates \subseteq DOMAIN p.source

VARIABLES
    project,        \* the sources, the package config and the candidates
    doing,          \* "load", "forward", "backward", then "written"
    imports,        \* the existing files that each parsed file imports
    webDirect,      \* the parsed files that import a web-only URI
    pending,        \* the queue of the search that runs
    met,            \* what the search forward has queued
    web,            \* what is known to reach a web-only URI
    entry           \* the files the entrypoint imports

entryVars == <<project, doing, imports, webDirect, pending, met, web, entry>>

EntryStart(p) ==
    /\ project = p /\ doing = "load"
    /\ imports = [f \in {} |-> {}] /\ webDirect = {}
    /\ pending = p.candidates
    /\ met = {} /\ web = {} /\ entry = {}
EntryInit == \E p \in Projects : EntryStart(p)

IsFile(f)  == f \in DOMAIN project.source
IsPart(f)  == project.source[f].part
UrisOf(f)  == project.source[f].uris

\* The config's directory of a package, but the candidates' for the package itself.
PackageDir(p) ==
    IF p = project.package THEN project.lib
    ELSE IF p \in DOMAIN project.config THEN project.config[p] ELSE None

Resolve(uri, from) ==
    CASE uri[1] = "package"  -> <<PackageDir(uri[2]), uri[3]>>
      [] uri[1] = "relative" -> <<from[1], uri[2]>>
      [] OTHER               -> <<None>>

ImportsOf(f) == {t \in {Resolve(u, f) : u \in UrisOf(f) \ {Web}} : IsFile(t)}

\* A file is parsed once.
Parses(f) ==
    IF f \in DOMAIN imports THEN UNCHANGED <<imports, webDirect>>
    ELSE /\ imports' = [g \in DOMAIN imports \cup {f} |->
                            IF g = f THEN ImportsOf(f) ELSE imports[g]]
         /\ webDirect' = webDirect \cup {g \in {f} : Web \in UrisOf(g)}

LoadCandidate(f) ==
    /\ doing = "load" /\ f \in pending
    /\ Parses(f) /\ pending' = pending \ {f}
    /\ UNCHANGED <<project, doing, met, web, entry>>

LibraryFiles == {f \in project.candidates : ~IsPart(f)}

SearchForward ==
    /\ doing = "load" /\ pending = {}
    /\ doing' = "forward"
    /\ pending' = LibraryFiles /\ met' = LibraryFiles
    /\ UNCHANGED <<project, imports, webDirect, web, entry>>

Follow(f) ==
    /\ doing = "forward" /\ f \in pending
    /\ Parses(f)
    /\ met' = met \cup imports'[f]
    /\ pending' = (pending \ {f}) \cup (imports'[f] \ met)
    /\ UNCHANGED <<project, doing, web, entry>>

SearchBackward ==
    /\ doing = "forward" /\ pending = {}
    /\ doing' = "backward"
    /\ web' = webDirect /\ pending' = webDirect
    /\ UNCHANGED <<project, imports, webDirect, met, entry>>

Importers(f) == {g \in DOMAIN imports : f \in imports[g]}

(* Mutant: the importers are marked, and not gone back from. *)
GoBackOnce(f) ==
    /\ doing = "backward" /\ f \in pending
    /\ web' = web \cup Importers(f)
    /\ pending' = pending \ {f}
    /\ UNCHANGED <<project, doing, imports, webDirect, met, entry>>

GoBack(f) ==
    /\ doing = "backward" /\ f \in pending
    /\ web' = web \cup Importers(f)
    /\ pending' = (pending \ {f}) \cup (Importers(f) \ web)
    /\ UNCHANGED <<project, doing, imports, webDirect, met, entry>>

WriteEntry ==
    /\ doing = "backward" /\ pending = {}
    /\ doing' = "written"
    /\ entry' = LibraryFiles \ web
    /\ UNCHANGED <<project, imports, webDirect, pending, met, web>>

EntryNext ==
    \/ \E f \in DOMAIN project.source : LoadCandidate(f) \/ Follow(f) \/ GoBack(f)
    \/ SearchForward \/ SearchBackward \/ WriteEntry

EntrySpec == EntryInit /\ [][EntryNext]_entryVars

-----------------------------------------------------------------------------
(* The state keeps its types: files are parsed once and stay parsed, and every
   search stays among the files there are. *)
EntryTypeOK ==
    /\ doing \in {"load", "forward", "backward", "written"}
    /\ imports \in [DOMAIN imports -> SUBSET DOMAIN project.source]
    /\ webDirect \subseteq DOMAIN imports
    /\ pending \subseteq DOMAIN project.source
    /\ doing = "backward" => pending \subseteq web
    /\ web \subseteq DOMAIN imports /\ entry \subseteq LibraryFiles

\* The files an entrypoint of these libraries compiles, by what they import.
Closed(s) == \A f \in s : ImportsOf(f) \subseteq s
Compiled(roots) ==
    {f \in DOMAIN project.source :
        \A s \in SUBSET DOMAIN project.source : roots \subseteq s /\ Closed(s) => f \in s}

(* Nothing that the entrypoint compiles imports what the VM lacks, whatever cycles
   the imports form and whatever the candidates that are parts import
   (_Graph.web_only, main). *)
EntryCompiles ==
    doing = "written" => \A f \in Compiled(entry) : Web \notin UrisOf(f)

(* No library is left out that could have been compiled: one that is not imported
   reaches, over existing files, one that imports what the VM lacks. *)
NothingLost ==
    doing = "written" =>
        \A f \in LibraryFiles \ entry : \E g \in Compiled({f}) : Web \in UrisOf(g)

(* Between the two searches, every file the entrypoint could reach is parsed. *)
AllParsed ==
    doing \in {"backward", "written"} => Compiled(LibraryFiles) \subseteq DOMAIN imports

(* The entrypoint imports the libraries that can be compiled, all and only, over
   import cycles, parts, packages and files that do not exist. *)
EntryIsExact == EntryTypeOK /\ AllParsed /\ EntryCompiles /\ NothingLost
=============================================================================
