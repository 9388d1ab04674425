-------------------------------- MODULE PathDeps --------------------------------
(* check_path_deps.py, the second reader of pubspec.lock: a build action that goes
   over the lines of a lock that pub_lock_parser.bzl has resolved, with a package and
   a path as its memory, and refuses path dependencies whose files are not declared.
   The two readers share nothing but the file. *)
EXTENDS PubLock

CONSTANTS
    Identifiers     \* what _PACKAGE takes for a name

\* _PACKAGE takes every name that _check_name accepts.
ASSUME ScanAssumption == PackageNames \subseteq Identifiers /\ EmptyQuotes # "path"

VARIABLES
    scanned,        \* the number of lines scanned
    current, path,  \* the last package, and the last path under it, <<>> for none
    found,          \* <<package, path>>: what it yields
    covered,        \* the paths with a declared file below them
    check           \* "scanning", "passed" or "failed"

scanVars == <<scanned, current, path, found, covered, check>>

ScanInit ==
    /\ scanned = 0 /\ current = "" /\ path = <<>> /\ found = {} /\ covered = {}
    /\ check = "scanning"

Scanning == status = "resolved" /\ check = "scanning" /\ scanned < Len(text)
Scanned  == text[scanned + 1]

IsPackageLine(l) ==
    l.form = "entry" /\ l.indent = 2 /\ l.key \in Identifiers /\ l.value = ""

(* _PATH leaves out a pair of double quotes, and takes anything else as it stands:
   single quotes, escapes and a comment stay part of the path.  It takes no "". *)
IsPathLine(l) ==
    /\ l.form = "entry" /\ l.indent = 6 /\ l.key = "path" /\ l.value # ""
    /\ l.value = EmptyQuotes => l.style = "single"
Captured(l) == IF l.style \in {"plain", "double"} THEN <<l.value>>
                                                 ELSE <<l.value, l.style>>

\* _SOURCE takes the word as it stands, and a word alone: no quotes and no comment.
IsSourceLine(l) ==
    /\ l.form = "entry" /\ l.indent = 4 /\ l.key = "source"
    /\ l.value = "path" /\ l.style = "plain"

ScanOn == scanned' = scanned + 1 /\ UNCHANGED <<covered, check, vars>>

(* Mutant: the path of the package before stays. *)
ScanPackageOnly ==
    /\ Scanning /\ IsPackageLine(Scanned) /\ ScanOn
    /\ current' = Scanned.key
    /\ UNCHANGED <<path, found>>

ScanPackage ==
    /\ Scanning /\ IsPackageLine(Scanned) /\ ScanOn
    /\ current' = Scanned.key /\ path' = <<>>
    /\ UNCHANGED found

ScanPath ==
    /\ Scanning /\ IsPathLine(Scanned) /\ ScanOn
    /\ path' = Captured(Scanned)
    /\ UNCHANGED <<current, found>>

ScanSource ==
    /\ Scanning /\ IsSourceLine(Scanned) /\ ScanOn
    /\ found' = found \cup {d \in {<<current, path>>} : current # "" /\ path # <<>>}
    /\ UNCHANGED <<current, path>>

ScanOther ==
    /\ Scanning /\ ScanOn
    /\ ~IsPackageLine(Scanned) /\ ~IsPathLine(Scanned) /\ ~IsSourceLine(Scanned)
    /\ UNCHANGED <<current, path, found>>

\* The files that path_deps declares reach some of the paths of the lock.
CheckCovered ==
    /\ status = "resolved" /\ check = "scanning" /\ scanned = Len(text)
    /\ covered' \in SUBSET ({<<e.where>> : e \in resolved} \cup {d[2] : d \in found})
    /\ check' = IF \A d \in found : d[2] \in covered' THEN "passed" ELSE "failed"
    /\ UNCHANGED <<vars, scanned, current, path, found>>

PathNext ==
    \/ Next /\ UNCHANGED scanVars
    \/ ScanPackage \/ ScanPath \/ ScanSource \/ ScanOther \/ CheckCovered

PathInit == Init /\ ScanInit

PathSpec == PathInit /\ [][PathNext]_<<vars, scanVars>>

-----------------------------------------------------------------------------
\* The keys of a package as pub writes them: its description before its source.
InPubsOrder ==
    \A i, j \in 1..Len(text) :
        NestedAt(text, i) /\ FieldAt(text, j) /\ text[j].key = "source"
            /\ PackageOfField(text, j) = PackageOfNested(text, i) => i < j

(* And its values: the word of a source alone, a path plain or in double quotes.  Of
   a source in quotes, or a path in single ones, the two readers do not agree. *)
AsPubWrites ==
    \A i \in 1..Len(text) :
        /\ FieldAt(text, i) /\ text[i].key = "source" => text[i].style = "plain"
        /\ NestedAt(text, i) /\ text[i].key = "path" => text[i].style \in {"plain", "double"}

(* Of a lock as pub writes it, the two readers agree on the path dependencies: the check
   asks for the declared files of exactly the packages that the resolver takes from a
   directory, each with its own path, so a build that passes has all of them among its
   inputs (path_dependencies, main). *)
ReadersAgree ==
    check # "scanning" /\ InPubsOrder /\ AsPubWrites =>
        LET paths == {<<e.name, <<e.where>>>> :
                         e \in {r \in resolved : r.source = "path" /\ r.where # ""}}
        IN  /\ found = paths
            /\ check = "passed" => \A d \in paths : d[2] \in covered
=============================================================================
