------------------------------ MODULE PubspecFacts ------------------------------
(* What the build takes from pubspec.yaml: read_pubspec.py splits it into files of one
   fact each, check_bundle_pubspec.py refuses what flutter_assets cannot bundle, and
   inject_version.py writes two of the facts into AndroidManifest.xml.  Each is a build
   action, run again when one of its own inputs has changed, and the sources are edited
   in between.

   A line is [indent, key, value, plain]: its value a sequence of at most one, plain,
   that there is no comment behind it.
   The lines without a key are blank or comments.  A version is [name, plus, code].  A
   manifest is [tag, prefix, attributes]: whether the tag is found, the prefix it binds
   to the Android namespace, and its attributes as <<prefix, name, value>>. *)
EXTENDS Integers, Sequences, FiniteSets

CONSTANTS
    Pubspecs, Manifests,    \* what the sources may be
    DartNames,              \* what a package: URI can address
    Numbers,                \* what is an integer, "1" among them
    Unsupported,            \* the keys of UNSUPPORTED
    NoFacts, NotInjected

ASSUME FactsAssumption ==
    /\ \A p \in Pubspecs : /\ Len(p) \in Nat /\ DOMAIN p = 1..Len(p)
                           /\ \A i \in DOMAIN p : p[i].indent \in Nat
    /\ \A m \in Manifests :
          m = [tag |-> m.tag, prefix |-> m.prefix, attributes |-> m.attributes]

VARIABLES
    lines, androidManifest,     \* the sources
    readFrom, facts,            \* the pubspec read last, and the files of its facts
    checkedFrom, bundleable,    \* the pubspec checked last, and how that came out
    injectedFrom, injected      \* what was injected last, and the manifest of it

sources   == <<lines, androidManifest>>
factsVars == <<sources, readFrom, facts, checkedFrom, bundleable, injectedFrom, injected>>

FactsStart(p, m) ==
    /\ lines = p /\ androidManifest = m
    /\ readFrom = <<>> /\ facts = NoFacts
    /\ checkedFrom = <<>> /\ bundleable = FALSE
    /\ injectedFrom = <<>> /\ injected = NotInjected
FactsInit == \E p \in Pubspecs, m \in Manifests : FactsStart(p, m)

\* The first line at column zero with the key and no more than its value.
Scalars(key) ==
    {i \in DOMAIN lines : /\ lines[i].indent = 0 /\ lines[i].key = key
                          /\ lines[i].value # <<>> /\ lines[i].plain}

TopLevel(key) == lines[CHOOSE i \in Scalars(key) : \A j \in Scalars(key) : i <= j].value[1]

VersionCode(v) == IF v.plus THEN v.code ELSE "1"

Readable ==
    /\ Scalars("version") # {} /\ Scalars("name") # {}
    /\ TopLevel("version").name # ""
    /\ VersionCode(TopLevel("version")) \in Numbers
    /\ TopLevel("name") \in DartNames

\* Both facts are known good before the first file is written.
ReadPubspec ==
    /\ readFrom # lines /\ readFrom' = lines
    /\ facts' = IF Readable
                THEN [name        |-> TopLevel("name"),
                      versionName |-> TopLevel("version").name,
                      versionCode |-> VersionCode(TopLevel("version"))]
                ELSE NoFacts
    /\ UNCHANGED <<sources, checkedFrom, bundleable, injectedFrom, injected>>

\* flutter_block: the lines since a `flutter:` at column zero, up to the next key there.
HasKey(i) == lines[i].key # ""

(* Mutant: a comment at column zero ends the block. *)
ToLineAbove(i) == {j \in 1..(i - 1) : lines[j].indent = 0}

ColumnZeroAbove(i) == {j \in 1..(i - 1) : HasKey(j) /\ lines[j].indent = 0}

InFlutterBlock(i) ==
    /\ HasKey(i) /\ lines[i].indent > 0
    /\ \E j \in ColumnZeroAbove(i) :
          /\ \A k \in ColumnZeroAbove(i) : k <= j
          /\ lines[j].key = "flutter" /\ lines[j].value = <<>>

CheckBundlePubspec ==
    /\ checkedFrom # lines /\ checkedFrom' = lines
    /\ bundleable' = ~\E i \in DOMAIN lines : InFlutterBlock(i) /\ lines[i].key \in Unsupported
    /\ UNCHANGED <<sources, readFrom, facts, injectedFrom, injected>>

VersionNames == {"versionCode", "versionName"}
Declares(m, name) == \E a \in m.attributes : a[1] = m.prefix /\ a[2] = name

Injectable(m) ==
    /\ m.tag /\ m.prefix # ""
    /\ \A name \in VersionNames : ~Declares(m, name)

\* Only the two facts and the manifest are inputs, not the pubspec.
InjectVersion ==
    /\ facts # NoFacts
    /\ LET inputs == <<facts.versionName, facts.versionCode, androidManifest>>
       IN  injectedFrom # inputs /\ injectedFrom' = inputs
    /\ injected' = IF Injectable(androidManifest)
                   THEN [androidManifest EXCEPT !.attributes = @ \cup
                            {<<androidManifest.prefix, "versionCode", facts.versionCode>>,
                             <<androidManifest.prefix, "versionName", facts.versionName>>}]
                   ELSE NotInjected
    /\ UNCHANGED <<sources, readFrom, facts, checkedFrom, bundleable>>

EditSources ==
    /\ \E p \in Pubspecs, m \in Manifests :
          /\ <<p, m>> # sources /\ (p = lines \/ m = androidManifest)
          /\ lines' = p /\ androidManifest' = m
    /\ UNCHANGED <<readFrom, facts, checkedFrom, bundleable, injectedFrom, injected>>

FactsNext == ReadPubspec \/ CheckBundlePubspec \/ InjectVersion \/ EditSources

FactsSpec == FactsInit /\ [][FactsNext]_factsVars

-----------------------------------------------------------------------------
Built ==
    /\ readFrom = lines /\ facts # NoFacts
    /\ injectedFrom = <<facts.versionName, facts.versionCode, androidManifest>>
    /\ injected # NotInjected

\* The line that a line is indented under.
Above(i, j) ==
    /\ j < i /\ HasKey(j) /\ lines[j].indent < lines[i].indent
    /\ \A k \in (j + 1)..(i - 1) : HasKey(k) => lines[k].indent >= lines[i].indent
\* What a line lies under: the line it is indented under, and what that lies under.
Holds(S, i) ==
    \A j \in DOMAIN lines : Above(i, j) \/ (\E k \in S : Above(k, j)) => j \in S
Under(i, key) ==
    \A S \in SUBSET DOMAIN lines : Holds(S, i) =>
        \E j \in S : lines[j].indent = 0 /\ lines[j].key = key /\ lines[j].value = <<>>

(* When the build is up to date, whatever was edited in which order, the manifest says
   the version that the pubspec gives the app itself and says it once, in the Android
   namespace; everything else in it is the source's (top_level, inject). *)
ManifestSaysTheVersion ==
    Built =>
        /\ \E i \in DOMAIN lines :
              /\ lines[i].indent = 0 /\ lines[i].key = "version"
              /\ \A name \in VersionNames :
                    {a[3] : a \in {b \in injected.attributes :
                                       b[1] = injected.prefix /\ b[2] = name}}
                    = {IF name = "versionName" THEN lines[i].value[1].name
                       ELSE VersionCode(lines[i].value[1])}
        /\ {a \in injected.attributes : ~(a[1] = injected.prefix /\ a[2] \in VersionNames)}
             = androidManifest.attributes

(* A bundle is built only of a pubspec without a refused key anywhere below its
   `flutter:` key, by the indentation of its lines (flutter_block). *)
RefusesWhatItCannotBundle ==
    checkedFrom = lines /\ bundleable =>
        \A i \in DOMAIN lines : HasKey(i) /\ lines[i].key \in Unsupported => ~Under(i, "flutter")

(* What is built of an edited pubspec is what the pubspec says, and what cannot be
   built is refused. *)
FactsHold == ManifestSaysTheVersion /\ RefusesWhatItCannotBundle
=============================================================================
