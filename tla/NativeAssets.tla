----------------------------- MODULE NativeAssets -----------------------------
(* The native assets of an app, from one asset bundle per ABI to the APK.

   merge_native_assets.py compares the bundles, which must be the same but for
   NativeAssetsManifest.json, and writes one manifest with every bundle's keys
   into the first.  check_native_assets.py reads that manifest against the jars
   whose lib/<abi>/ entries become the APK's libraries.  Both exit on the first
   thing that does not fit.

   A bundle's tree maps paths to contents; its manifest is Missing, or a format
   (Absent, or a number for the major version) and a function from ABIs, which
   stand for the keys their engines read, to sets of code assets <<type, file>>.
   A jar names the ABI and the kind it is declared for and holds libraries
   <<dir, file>>, dir being the ABI of the lib/<abi>/ it lies in. *)
EXTENDS Selection

CONSTANTS
    Absent,
    BundleLists,    \* the --bundle arguments, in their order
    JarLists        \* [abis, jars, required] of the check

VARIABLES
    bundles,        \* the bundles; the first is also the destination
    shipping,       \* the ABIs, the jars and the required kinds of the check
    stage,          \* what runs: "compare", "merge", "package", "lookup",
                    \* then "passed" or "refused"
    seen,           \* how many bundles, manifests or jars the loop has seen
    differing,      \* the paths in which a bundle differs from the first
    format, assets, \* the merged manifest so far
    manifest,       \* the manifest of the first bundle
    packaged,       \* <<abi, kind, file>>: the libraries of the jars
    checked         \* the ABIs whose code assets have been looked up

assetsVars == <<bundles, shipping, stage, seen, differing, format, assets,
                manifest, packaged, checked>>

NoAssets == [k \in {} |-> {}]
Missing  == [format |-> Absent]     \* the manifest that is not there

IsAMap(f) == f = [x \in DOMAIN f |-> f[x]]

ASSUME AssetsAssumption ==
    /\ \A list \in BundleLists :
          /\ IsAList(list)
          /\ \A i \in DOMAIN list :
                /\ IsAMap(list[i].tree)
                /\ list[i].manifest # Missing => IsAMap(list[i].manifest.assets)
    /\ \A ship \in JarLists :
          /\ IsAList(ship.jars)
          /\ \A i \in DOMAIN ship.jars : \A lib \in ship.jars[i].libs : lib = <<lib[1], lib[2]>>

AssetsStart(list, ship) ==
    /\ bundles = list /\ shipping = ship
    /\ stage = "compare" /\ seen = 1 /\ differing = {}
    /\ format = Absent /\ assets = NoAssets
    /\ manifest = IF list = <<>> THEN Missing ELSE list[1].manifest
    /\ packaged = {} /\ checked = {}

AssetsInit == \E list \in BundleLists, ship \in JarLists : AssetsStart(list, ship)

Becomes(s) == stage' = s /\ seen' = 0

-----------------------------------------------------------------------------
(* merge_native_assets.py                                                     *)

OnlyIn(s, t)  == DOMAIN s \ DOMAIN t
Changed(s, t) == {p \in DOMAIN s \cap DOMAIN t : s[p] # t[p]}
Differences(s, t) == OnlyIn(s, t) \cup OnlyIn(t, s) \cup Changed(s, t)

CompareBundle ==
    /\ stage = "compare" /\ seen < Len(bundles)
    /\ seen' = seen + 1
    /\ differing' = differing \cup Differences(bundles[1].tree, bundles[seen'].tree)
    /\ UNCHANGED <<bundles, shipping, stage, format, assets, manifest, packaged, checked>>

BundlesDiffer ==
    /\ stage = "compare" /\ seen >= Len(bundles)
    /\ bundles = <<>> \/ differing # {}
    /\ Becomes("refused")
    /\ UNCHANGED <<bundles, shipping, differing, format, assets, manifest, packaged, checked>>

BundlesAgree ==
    /\ stage = "compare" /\ bundles # <<>> /\ seen >= Len(bundles)
    /\ differing = {}
    /\ Becomes("merge")
    /\ UNCHANGED <<bundles, shipping, differing, format, assets, manifest, packaged, checked>>

HasManifest(b) == b.manifest # Missing
Present == Filtered(bundles, {b \in ToSet(bundles) : HasManifest(b)})
NextManifest == Present[seen + 1].manifest

(* The first format there is counts for all. *)
Fits(m) ==
    /\ format = Absent \/ m.format = format
    /\ \A k \in DOMAIN m.assets \cap DOMAIN assets : m.assets[k] = assets[k]

\* f with what g says of the keys f does not have.
With(f, g) == [k \in DOMAIN f \cup DOMAIN g |-> IF k \in DOMAIN f THEN f[k] ELSE g[k]]

MergeManifest ==
    /\ stage = "merge" /\ seen < Len(Present)
    /\ Fits(NextManifest)
    /\ format' = NextManifest.format
    /\ assets' = With(assets, NextManifest.assets)
    /\ seen' = seen + 1
    /\ UNCHANGED <<bundles, shipping, stage, differing, manifest, packaged, checked>>

ManifestsDisagree ==
    /\ stage = "merge" /\ seen < Len(Present)
    /\ ~Fits(NextManifest)
    /\ Becomes("refused")
    /\ UNCHANGED <<bundles, shipping, differing, format, assets, manifest, packaged, checked>>

\* Opened for writing only now: the first manifest is an input too.
WriteManifest ==
    /\ stage = "merge" /\ seen = Len(Present)
    /\ manifest' = IF Present = <<>> THEN manifest
                   ELSE [format |-> format, assets |-> assets]
    /\ Becomes("package")
    /\ UNCHANGED <<bundles, shipping, differing, format, assets, packaged, checked>>

-----------------------------------------------------------------------------
(* check_native_assets.py                                                     *)

NextJar == shipping.jars[seen + 1]

OfItsAbi(jar) ==
    /\ jar.abi \in shipping.abis
    /\ \A lib \in jar.libs : lib[1] = jar.abi

PackageJar ==
    /\ stage = "package" /\ seen < Len(shipping.jars)
    /\ OfItsAbi(NextJar)
    /\ packaged' = packaged \cup {<<NextJar.abi, NextJar.kind, lib[2]>> : lib \in NextJar.libs}
    /\ seen' = seen + 1
    /\ UNCHANGED <<bundles, shipping, stage, differing, format, assets, manifest, checked>>

JarMisplaced ==
    /\ stage = "package" /\ seen < Len(shipping.jars)
    /\ ~OfItsAbi(NextJar)
    /\ Becomes("refused")
    /\ UNCHANGED <<bundles, shipping, differing, format, assets, manifest, packaged, checked>>

Supplies(abi, kind) == \E p \in packaged : p[1] = abi /\ p[2] = kind
AllRequired == \A abi \in shipping.abis, kind \in shipping.required : Supplies(abi, kind)

KindMissing ==
    /\ stage = "package" /\ seen = Len(shipping.jars)
    /\ ~AllRequired
    /\ Becomes("refused")
    /\ UNCHANGED <<bundles, shipping, differing, format, assets, manifest, packaged, checked>>

\* No manifest at all: no package of the app has a code asset.
NoManifest ==
    /\ stage = "package" /\ seen = Len(shipping.jars)
    /\ AllRequired /\ manifest = Missing
    /\ Becomes("passed")
    /\ UNCHANGED <<bundles, shipping, differing, format, assets, manifest, packaged, checked>>

Understood == manifest.format \in {Absent, 1}

ReadManifest ==
    /\ stage = "package" /\ seen = Len(shipping.jars)
    /\ AllRequired /\ manifest # Missing
    /\ Becomes(IF Understood THEN "lookup" ELSE "refused")
    /\ UNCHANGED <<bundles, shipping, differing, format, assets, manifest, packaged, checked>>

(* Only absolute entries name a file the build has to supply. *)
Files(entries) == {e[2] : e \in {x \in entries : x[1] = "absolute"}}
(* Mutant: the libraries of every ABI. *)
SuppliedAnywhere(abi) == {p[3] : p \in packaged}
Supplied(abi) == {p[3] : p \in {q \in packaged : q[1] = abi}}
HasSlot(abi)   == manifest.assets = NoAssets \/ abi \in DOMAIN manifest.assets
FilesOf(abi) ==
    IF abi \in DOMAIN manifest.assets THEN Files(manifest.assets[abi]) ELSE {}

LookUp(abi) ==
    /\ stage = "lookup" /\ abi \in shipping.abis \ checked
    /\ HasSlot(abi) /\ FilesOf(abi) \subseteq Supplied(abi)
    /\ checked' = checked \cup {abi}
    /\ UNCHANGED <<bundles, shipping, stage, seen, differing, format, assets, manifest, packaged>>

LookUpFails(abi) ==
    /\ stage = "lookup" /\ abi \in shipping.abis \ checked
    /\ ~(HasSlot(abi) /\ FilesOf(abi) \subseteq Supplied(abi))
    /\ Becomes("refused")
    /\ UNCHANGED <<bundles, shipping, differing, format, assets, manifest, packaged, checked>>

AllLookedUp ==
    /\ stage = "lookup" /\ checked = shipping.abis
    /\ Becomes("passed")
    /\ UNCHANGED <<bundles, shipping, differing, format, assets, manifest, packaged, checked>>

AssetsNext ==
    \/ CompareBundle \/ BundlesDiffer \/ BundlesAgree
    \/ MergeManifest \/ ManifestsDisagree \/ WriteManifest
    \/ PackageJar \/ JarMisplaced \/ KindMissing \/ NoManifest \/ ReadManifest
    \/ \E abi \in shipping.abis : LookUp(abi) \/ LookUpFails(abi)
    \/ AllLookedUp

AssetsSpec == AssetsInit /\ [][AssetsNext]_assetsVars

-----------------------------------------------------------------------------
(* The state keeps its types: what has been seen is within the input, what is
   packaged comes from the jars, and only ABIs that ship are looked up. *)
AssetsTypeOK ==
    /\ bundles \in BundleLists /\ shipping \in JarLists
    /\ stage \in {"compare", "merge", "package", "lookup", "passed", "refused"}
    /\ seen \in 0..(Len(bundles) + Len(shipping.jars) + 1)
    /\ \A p \in packaged :
         /\ p[1] \in shipping.abis
         /\ \E i \in DOMAIN shipping.jars :
              /\ p[1] = shipping.jars[i].abi /\ p[2] = shipping.jars[i].kind
              /\ \E lib \in shipping.jars[i].libs : lib[2] = p[3]
    /\ checked \subseteq shipping.abis

Merged == stage \in {"package", "lookup", "passed"}

(* A merged bundle is every ABI's: whatever two bundles differ in, whichever has
   a file the other lacks, stops the merge (compare, main). *)
OneTree ==
    Merged => \A i, j \in DOMAIN bundles : bundles[i].tree = bundles[j].tree

(* The merged manifest says of every key what each bundle that has the key said,
   and has no other keys, although the first bundle's manifest is both read and
   written, some bundles have none, and the same key may come twice (merge). *)
EachKeepsItsOwn ==
    Merged =>
        /\ \A i \in DOMAIN bundles :
             HasManifest(bundles[i]) =>
                 /\ manifest # Missing
                 /\ \A k \in DOMAIN bundles[i].manifest.assets :
                      /\ k \in DOMAIN manifest.assets
                      /\ manifest.assets[k] = bundles[i].manifest.assets[k]
        /\ manifest # Missing =>
             \A k \in DOMAIN manifest.assets :
                 \E i \in DOMAIN bundles :
                     HasManifest(bundles[i]) /\ k \in DOMAIN bundles[i].manifest.assets

(* The bundles that name a format name the same one, and the merged manifest
   names it: keys are never kept under a format that is not theirs (merge). *)
OneFormat ==
    Merged =>
        \A i \in DOMAIN bundles :
            HasManifest(bundles[i]) /\ bundles[i].manifest.format # Absent
                => manifest.format = bundles[i].manifest.format

(* Merger and check together: a library that the bundle of any ABI makes the Dart
   VM dlopen on an ABI that ships lies in that ABI's own directory of a jar, and so
   does a library of every required kind; an ABI that ships without a slot ships
   with no code asset anywhere. *)
InLib(abi, file) ==
    \E i \in DOMAIN shipping.jars : <<abi, file>> \in shipping.jars[i].libs
NothingToOpenIsMissing ==
    stage = "passed" =>
        \A abi \in shipping.abis :
            /\ \A i \in DOMAIN bundles :
                 HasManifest(bundles[i]) /\ bundles[i].manifest.assets # NoAssets =>
                     \E j \in DOMAIN bundles :
                         /\ HasManifest(bundles[j])
                         /\ abi \in DOMAIN bundles[j].manifest.assets
                         /\ \A e \in bundles[j].manifest.assets[abi] :
                              e[1] = "absolute" => InLib(abi, e[2])
            /\ \A kind \in shipping.required :
                 \E i \in DOMAIN shipping.jars, lib \in UNION {shipping.jars[k].libs :
                                                           k \in DOMAIN shipping.jars} :
                     /\ shipping.jars[i].abi = abi /\ shipping.jars[i].kind = kind
                     /\ lib \in shipping.jars[i].libs /\ lib[1] = abi

(* What is refused has a cause, in whatever order bundles and jars come: there is
   no bundle, two bundles differ, disagree or name other formats; a jar is not of
   a shipped ABI or holds another's library; a kind, a slot or a library is
   missing; or the format is unknown. *)
DisagreeOn(m, n) ==
    \/ m.format # n.format
    \/ \E k \in DOMAIN m.assets \cap DOMAIN n.assets : m.assets[k] # n.assets[k]
UnfitBundles ==
    \/ bundles = <<>>
    \/ \E i, j \in DOMAIN bundles :
         \/ bundles[i].tree # bundles[j].tree
         \/ /\ HasManifest(bundles[i]) /\ HasManifest(bundles[j])
            /\ DisagreeOn(bundles[i].manifest, bundles[j].manifest)
UnfitJars ==
    \/ \E i \in DOMAIN shipping.jars :
         \/ shipping.jars[i].abi \notin shipping.abis
         \/ \E lib \in shipping.jars[i].libs : lib[1] # shipping.jars[i].abi
    \/ \E abi \in shipping.abis, kind \in shipping.required :
         \A i \in DOMAIN shipping.jars :
             shipping.jars[i].abi = abi /\ shipping.jars[i].kind = kind
                 => shipping.jars[i].libs = {}
UnmetManifest ==
    \E i \in DOMAIN bundles :
        /\ HasManifest(bundles[i])
        /\ \/ bundles[i].manifest.format \notin {Absent, 1}
           \/ \E k \in DOMAIN bundles[i].manifest.assets, abi \in shipping.abis :
                \/ abi = k /\ \E e \in bundles[i].manifest.assets[k] :
                                 e[1] = "absolute" /\ ~InLib(abi, e[2])
                \/ \A j \in DOMAIN bundles :
                     HasManifest(bundles[j]) => abi \notin DOMAIN bundles[j].manifest.assets
RefusedForCause ==
    stage = "refused" => UnfitBundles \/ UnfitJars \/ UnmetManifest

(* All of it: what passes is complete and whole, what is refused has a cause. *)
AssetsSafe ==
    /\ AssetsTypeOK
    /\ OneTree /\ EachKeepsItsOwn /\ OneFormat
    /\ NothingToOpenIsMissing /\ RefusedForCause
=============================================================================
