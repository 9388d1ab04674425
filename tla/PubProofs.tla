------------------------------- MODULE PubProofs -------------------------------
(* Proofs about the two readers of pubspec.lock, for every text, about the hub and
   its readers of pubspecs, and about the launcher's mirror.

   ReleaseIsReached, for every lock and graph: what is reached is reachable, and what is
   reached and not in the frontier has its dependencies reached.  Each round that finds
   something adds a package, so the rounds suffice: the frontier is empty at the end.

   HubSafe, for every lock and text of the pubspecs: after n lines the stack of
   pubspec_flutter_plugins holds the keys that the next line may lie under, and the maps
   hold what those lines say (Standing, Held); the walk along a path is the path itself
   while it stays inside, and has escaped from where it does not (WalkAgrees); and what
   _relpath gives leads from the base to the target (RelativeLeads).

   LauncherSafe, for every test: each node of the mirror is on the way, a link beside it,
   or in the tree of a directory already materialized.  Paths that are prefixes of one
   path are prefixes of each other, so the three are apart, and a file is seen through
   exactly one node. *)
EXTENDS PathDeps, PubHub, TestLauncher, SequenceLemmas

LEMMA OneOwner ==
    ASSUME NEW t \in Seq(Line), NEW i \in 1..Len(t), NEW j \in 1..(i - 1),
           Content(t, i), Parent(t, j, i)
    PROVE  HasOwner(t, i) /\ Owner(t, i) = j
<1>1. \A k \in 1..(i - 1) : Content(t, k) => t[k].indent \in Nat
  <2> TAKE k \in 1..(i - 1)
  <2>1. t[k] \in Line
    OBVIOUS
  <2>. QED BY <2>1 DEF Content, Line
<1>2. t[i].indent \in Nat
  <2>1. t[i] \in Line
    OBVIOUS
  <2>. QED BY <2>1 DEF Content, Line
<1>3. ASSUME NEW k \in 1..(i - 1), NEW m \in 1..(i - 1),
             Parent(t, k, i), Parent(t, m, i)
      PROVE  ~(k < m)
  <2>. SUFFICES ASSUME k < m PROVE FALSE
    OBVIOUS
  <2>1. m \in (k + 1)..(i - 1) /\ Content(t, m) /\ t[m].indent < t[i].indent
    BY <1>3 DEF Parent
  <2>2. t[m].indent >= t[i].indent
    BY <1>3, <2>1 DEF Parent
  <2>. QED BY <1>1, <1>2, <2>1, <2>2
<1>4. HasOwner(t, i) /\ Owner(t, i) \in 1..(i - 1) /\ Parent(t, Owner(t, i), i)
  BY DEF HasOwner, Owner
<1>5. ~(Owner(t, i) < j) /\ ~(j < Owner(t, i))
  BY <1>3, <1>4
<1>. QED BY <1>4, <1>5

(* An owner is before its line and is its parent. *)
LEMMA OwnerType ==
    ASSUME NEW t, NEW i, HasOwner(t, i)
    PROVE  Owner(t, i) \in 1..(i - 1) /\ Parent(t, Owner(t, i), i)
BY DEF HasOwner, Owner

(* The lines that a later line may still be owned by. *)
Open(t, n, j) ==
    /\ j \in 1..n /\ Content(t, j)
    /\ \A m \in (j + 1)..n : Content(t, m) => t[m].indent > t[j].indent

EvenTo(t, n) == \A i \in 1..n : Content(t, i) => t[i].indent \in {0, 2, 4, 6}

(* Between even indents, the owner two columns to the left is the open line of
   that indent. *)
LEMMA OpenOwns ==
    ASSUME NEW t \in Seq(Line), NEW n \in Nat, n < Len(t), EvenTo(t, n),
           Content(t, n + 1), t[n + 1].indent \in {2, 4, 6},
           NEW j, Open(t, n, j), t[j].indent = t[n + 1].indent - 2
    PROVE  HasOwner(t, n + 1) /\ Owner(t, n + 1) = j
<1>1. j \in 1..((n + 1) - 1) /\ n + 1 \in 1..Len(t)
  BY DEF Open
<1>2. Parent(t, j, n + 1)
  <2>1. ASSUME NEW m \in (j + 1)..n, Content(t, m)
        PROVE  t[m].indent >= t[n + 1].indent
    <3>1. m \in 1..n
      BY <1>1
    <3>2. t[m].indent \in {0, 2, 4, 6}
      BY <2>1, <3>1 DEF EvenTo
    <3>3. t[m].indent > t[j].indent
      BY <2>1 DEF Open
    <3>. QED BY <3>2, <3>3
  <2>2. t[j].indent < t[n + 1].indent
    OBVIOUS
  <2>. QED BY <1>1, <2>1, <2>2 DEF Open, Parent
<1>. QED BY <1>1, <1>2, OneOwner

LEMMA OwnerIsOpen ==
    ASSUME NEW t \in Seq(Line), NEW n \in Nat, n < Len(t), EvenTo(t, n),
           HasOwner(t, n + 1), t[n + 1].indent \in {2, 4, 6},
           t[Owner(t, n + 1)].indent = t[n + 1].indent - 2
    PROVE  Open(t, n, Owner(t, n + 1))
<1>. DEFINE j == Owner(t, n + 1)
<1>1. j \in 1..n /\ Parent(t, j, n + 1)
  BY OwnerType
<1>. HIDE DEF j
<1>2. t[j].indent = t[n + 1].indent - 2
  BY DEF j
<1>3. Open(t, n, j)
  BY <1>1, <1>2, SMTT(30) DEF Open, Parent, EvenTo
<1>. QED BY <1>3 DEF j

(* What owns an open line is open. *)
LEMMA OwnerStaysOpen ==
    ASSUME NEW t \in Seq(Line), NEW n \in Nat, n <= Len(t), EvenTo(t, n),
           NEW j, Open(t, n, j), HasOwner(t, j)
    PROVE  Open(t, n, Owner(t, j))
<1>. DEFINE o == Owner(t, j)
<1>1. j \in 1..n /\ o \in 1..(j - 1) /\ Parent(t, o, j)
  BY OwnerType DEF Open
<1>. HIDE DEF o
<1>2. Content(t, o) /\ Content(t, j) /\ o \in 1..n
  BY <1>1 DEF Parent, HasOwner
<1>3. t[o].indent \in Nat /\ t[j].indent \in Nat /\ t[o].indent < t[j].indent
  BY <1>1, <1>2 DEF EvenTo, Parent
<1>4. ASSUME NEW m \in (o + 1)..n, Content(t, m)
      PROVE  t[m].indent > t[o].indent
  <2>0. m \in 1..n /\ t[m].indent \in Nat
    BY <1>1, <1>4 DEF EvenTo
  <2>1. CASE m \in (o + 1)..(j - 1)
    BY <1>1, <1>3, <1>4, <2>0, <2>1, SMTT(30) DEF Parent
  <2>2. CASE m = j
    BY <1>3, <2>2
  <2>3. CASE m \in (j + 1)..n
    BY <1>3, <1>4, <2>0, <2>3, SMTT(30) DEF Open
  <2>. QED BY <1>1, <2>1, <2>2, <2>3
<1>5. Open(t, n, o)
  BY <1>2, <1>4 DEF Open
<1>. QED BY <1>5 DEF o

(* One more line: it is open, and so are the lines indented less than it. *)
LEMMA OpenStep ==
    ASSUME NEW t \in Seq(Line), NEW n \in Nat, NEW j
    PROVE  Open(t, n + 1, j) <=>
              \/ j = n + 1 /\ Content(t, n + 1)
              \/ /\ Open(t, n, j)
                 /\ Content(t, n + 1) => t[n + 1].indent > t[j].indent
<1>1. Open(t, n + 1, j) /\ j # n + 1 =>
         Open(t, n, j) /\ (Content(t, n + 1) => t[n + 1].indent > t[j].indent)
  BY DEF Open
<1>2. Open(t, n, j) /\ (Content(t, n + 1) => t[n + 1].indent > t[j].indent)
         => Open(t, n + 1, j)
  BY DEF Open
<1>3. Open(t, n + 1, n + 1) <=> Content(t, n + 1)
  BY DEF Open
<1>. QED BY <1>1, <1>2, <1>3

(* What one more line adds to what the text says. *)
LEMMA ByStep ==
    ASSUME NEW t, NEW n \in Nat
    PROVE  /\ DeclaredBy(t, n + 1) = DeclaredBy(t, n) \cup
                 (IF PackageAt(t, n + 1) THEN {t[n + 1].key} ELSE {})
           /\ MappedBy(t, n + 1) = MappedBy(t, n) \cup
                 (IF MapAt(t, n + 1) THEN {PackageOfField(t, n + 1)} ELSE {})
           /\ FieldsBy(t, n + 1) = FieldsBy(t, n) \cup
                 (IF FieldAt(t, n + 1) /\ ~MapAt(t, n + 1)
                  THEN {Triple(PackageOfField(t, n + 1), t[n + 1])} ELSE {})
           /\ NestedBy(t, n + 1) = NestedBy(t, n) \cup
                 (IF NestedAt(t, n + 1)
                  THEN {Triple(PackageOfNested(t, n + 1), t[n + 1])} ELSE {})
<1>1. \A k : k \in 1..(n + 1) <=> k \in 1..n \/ k = n + 1
  OBVIOUS
<1>2. DeclaredBy(t, n + 1) = DeclaredBy(t, n) \cup
         (IF PackageAt(t, n + 1) THEN {t[n + 1].key} ELSE {})
  BY <1>1, Zenon DEF DeclaredBy
<1>3. MappedBy(t, n + 1) = MappedBy(t, n) \cup
         (IF MapAt(t, n + 1) THEN {PackageOfField(t, n + 1)} ELSE {})
  BY <1>1, Zenon DEF MappedBy
<1>4. FieldsBy(t, n + 1) = FieldsBy(t, n) \cup
         (IF FieldAt(t, n + 1) /\ ~MapAt(t, n + 1)
          THEN {Triple(PackageOfField(t, n + 1), t[n + 1])} ELSE {})
  BY <1>1, Zenon DEF FieldsBy
<1>5. NestedBy(t, n + 1) = NestedBy(t, n) \cup
         (IF NestedAt(t, n + 1)
          THEN {Triple(PackageOfNested(t, n + 1), t[n + 1])} ELSE {})
  BY <1>1, Zenon DEF NestedBy
<1>. QED BY <1>2, <1>3, <1>4, <1>5, Zenon

-----------------------------------------------------------------------------
(* The three variables, by the lines that are open. *)
SectionInv ==
    /\ \A j : Open(text, line, j) /\ text[j].indent = 0 => section = text[j].key
    /\ section # "" => \E j : Open(text, line, j) /\ text[j].indent = 0
PackageInv ==
    /\ \A j : Open(text, line, j) /\ PackageAt(text, j) => package = text[j].key
    /\ package # "" => \E j : Open(text, line, j) /\ PackageAt(text, j)
DescriptionInv ==
    inDescription <=> \E j : Open(text, line, j) /\ MapAt(text, j)

IInv ==
    /\ TypeOK /\ EvenTo(text, line)
    /\ SectionInv /\ PackageInv /\ DescriptionInv
    /\ ReadsAsIndented /\ RefusesIllFormed
    /\ status \in {"parsed", "resolved"} => line = Len(text)

LEMMA NextType ==
    ASSUME TypeOK, AtLine("entry")
    PROVE  /\ line \in Nat /\ line + 1 \in 1..Len(text) /\ line < Len(text)
           /\ (line + 1) - 1 = line
           /\ text \in Seq(Line) /\ NextLine = text[line + 1]
           /\ Content(text, line + 1)
           /\ NextLine.indent \in Nat /\ NextLine.key \in Words \ {""}
           /\ NextLine.value \in Words
<1>1. line \in Nat /\ line + 1 \in 1..Len(text) /\ line < Len(text)
      /\ text \in Seq(Line) /\ (line + 1) - 1 = line
  <2>1. text \in Seq(Line) /\ line \in 0..Len(text)
    BY DEF TypeOK
  <2>2. line < Len(text)
    BY DEF AtLine
  <2>. QED BY <2>1, <2>2
<1>2. text[line + 1] \in Line /\ text[line + 1].form = "entry"
  BY <1>1 DEF AtLine, NextLine
<1>. QED BY <1>1, <1>2 DEF Line, NextLine, Content

(* Where the next line stands in the text, by the three variables. *)
LEMMA Place ==
    ASSUME IInv, AtLine("entry")
    PROVE  /\ PackageAt(text, line + 1) <=>
                  section = "packages" /\ NextLine.indent = 2
           /\ SdkAt(text, line + 1) <=> section = "sdks" /\ NextLine.indent = 2
           /\ FieldAt(text, line + 1) <=> /\ section = "packages"
                                          /\ NextLine.indent = 4 /\ package # ""
           /\ FieldAt(text, line + 1) =>
                  PackageOfField(text, line + 1) = package
           /\ NestedAt(text, line + 1) <=> /\ section = "packages"
                                           /\ NextLine.indent = 6 /\ inDescription
           /\ NestedAt(text, line + 1) =>
                  PackageOfNested(text, line + 1) = package
<1>. DEFINE i == line + 1
            o == Owner(text, i)
<1>t. /\ line \in Nat /\ line < Len(text) /\ line <= Len(text)
      /\ text \in Seq(Line) /\ EvenTo(text, line)
      /\ NextLine = text[i] /\ Content(text, i)
  <2>1. TypeOK /\ EvenTo(text, line)
    BY DEF IInv
  <2>2. line \in Nat /\ line < Len(text) /\ text \in Seq(Line)
        /\ NextLine = text[i] /\ Content(text, i)
    BY <2>1, NextType
  <2>. QED BY <2>1, <2>2
<1>1. ASSUME HasOwner(text, i), NextLine.indent \in {2, 4, 6},
             text[o].indent = NextLine.indent - 2
      PROVE  Open(text, line, o)
  BY <1>t, <1>1, OwnerIsOpen
<1>2. ASSUME NEW j, Open(text, line, j), NextLine.indent \in {2, 4, 6},
             text[j].indent = NextLine.indent - 2
      PROVE  HasOwner(text, i) /\ o = j
  BY <1>t, <1>2, OpenOwns
<1>3. ASSUME NEW j, Open(text, line, j), HasOwner(text, j)
      PROVE  Open(text, line, Owner(text, j))
  BY <1>t, <1>3, OwnerStaysOpen
<1>. HIDE DEF o
<1>4. ASSUME NEW key \in {"packages", "sdks"}
      PROVE  UnderHeader(text, i, key) <=> section = key /\ NextLine.indent = 2
  <2>1. ASSUME UnderHeader(text, i, key)
        PROVE  section = key /\ NextLine.indent = 2
    <3>1. HasOwner(text, i) /\ NextLine.indent = 2
          /\ text[o].indent = 0 /\ text[o].key = key
      BY <1>t, <2>1 DEF UnderHeader, HeaderAt, o
    <3>2. Open(text, line, o)
      BY <1>1, <3>1
    <3>. QED BY <3>1, <3>2 DEF IInv, SectionInv
  <2>2. ASSUME section = key, NextLine.indent = 2
        PROVE  UnderHeader(text, i, key)
    <3>1. PICK j : Open(text, line, j) /\ text[j].indent = 0
      BY <2>2 DEF IInv, SectionInv
    <3>2. text[j].key = key /\ Content(text, j)
      BY <2>2, <3>1 DEF IInv, SectionInv, Open
    <3>3. HasOwner(text, i) /\ o = j
      BY <1>2, <2>2, <3>1
    <3>. QED BY <1>t, <2>2, <3>1, <3>2, <3>3 DEF UnderHeader, HeaderAt, o
  <2>. QED BY <2>1, <2>2
<1>5. ASSUME NEW j, Open(text, line, j), PackageAt(text, j)
      PROVE  /\ section = "packages" /\ package = text[j].key
             /\ text[j].indent = 2 /\ package # ""
  <2>1. HasOwner(text, j) /\ text[j].indent = 2
        /\ HeaderAt(text, Owner(text, j), "packages")
    BY <1>5 DEF PackageAt, UnderHeader
  <2>2. Open(text, line, Owner(text, j))
    BY <1>3, <1>5, <2>1
  <2>3. section = "packages"
    BY <2>1, <2>2 DEF IInv, SectionInv, HeaderAt
  <2>4. package = text[j].key
    BY <1>5 DEF IInv, PackageInv
  <2>5. j \in 1..Len(text) /\ text[j].form = "entry"
    BY <1>t, <1>5 DEF Open, Content
  <2>6. text[j] \in Line
    BY <1>t, <2>5
  <2>7. text[j].key # ""
    BY <2>5, <2>6 DEF Line
  <2>. QED BY <2>1, <2>3, <2>4, <2>7
<1>6. /\ FieldAt(text, i) <=> /\ section = "packages"
                              /\ NextLine.indent = 4 /\ package # ""
      /\ FieldAt(text, i) => PackageOfField(text, i) = package
  <2>1. ASSUME FieldAt(text, i)
        PROVE  /\ section = "packages" /\ NextLine.indent = 4 /\ package # ""
               /\ PackageOfField(text, i) = package
    <3>1. HasOwner(text, i) /\ NextLine.indent = 4 /\ PackageAt(text, o)
      BY <1>t, <2>1 DEF FieldAt, o
    <3>2. text[o].indent = 2
      BY <3>1 DEF PackageAt, UnderHeader
    <3>3. Open(text, line, o)
      BY <1>1, <3>1, <3>2
    <3>. QED BY <1>5, <3>1, <3>3 DEF PackageOfField, o
  <2>2. ASSUME NextLine.indent = 4, package # ""
        PROVE  FieldAt(text, i)
    <3>1. PICK j : Open(text, line, j) /\ PackageAt(text, j)
      BY <2>2 DEF IInv, PackageInv
    <3>2. text[j].indent = NextLine.indent - 2
      <4>1. text[j].indent = 2
        BY <1>5, <3>1
      <4>2. NextLine.indent = 4
        BY <2>2
      <4>. QED BY <4>1, <4>2
    <3>3. HasOwner(text, i) /\ o = j
      <4>1. Open(text, line, j) /\ NextLine.indent \in {2, 4, 6}
        BY <2>2, <3>1
      <4>. QED BY <1>2, <3>2, <4>1
    <3>. QED BY <1>t, <2>2, <3>1, <3>3 DEF FieldAt, o
  <2>. QED BY <2>1, <2>2
<1>7. /\ NestedAt(text, i) <=> /\ section = "packages"
                               /\ NextLine.indent = 6 /\ inDescription
      /\ NestedAt(text, i) => PackageOfNested(text, i) = package
  <2>1. ASSUME NestedAt(text, i)
        PROVE  /\ section = "packages" /\ NextLine.indent = 6 /\ inDescription
               /\ PackageOfNested(text, i) = package
    <3>1. HasOwner(text, i) /\ NextLine.indent = 6 /\ MapAt(text, o)
      BY <1>t, <2>1 DEF NestedAt, o
    <3>2. /\ FieldAt(text, o) /\ text[o].indent = 4 /\ HasOwner(text, o)
          /\ PackageAt(text, Owner(text, o))
      BY <3>1 DEF MapAt, FieldAt
    <3>3. Open(text, line, o)
      BY <1>1, <3>1, <3>2
    <3>4. Open(text, line, Owner(text, o))
      BY <1>3, <3>2, <3>3
    <3>5. section = "packages" /\ package = text[Owner(text, o)].key
      BY <1>5, <3>2, <3>4
    <3>6. inDescription
      BY <3>1, <3>3 DEF IInv, DescriptionInv
    <3>. QED BY <3>1, <3>5, <3>6 DEF PackageOfNested, PackageOfField, o
  <2>2. ASSUME NextLine.indent = 6, inDescription
        PROVE  NestedAt(text, i)
    <3>1. PICK j : Open(text, line, j) /\ MapAt(text, j)
      BY <2>2 DEF IInv, DescriptionInv
    <3>2. text[j].indent = NextLine.indent - 2
      BY <2>2, <3>1 DEF MapAt, FieldAt
    <3>3. HasOwner(text, i) /\ o = j
      <4>1. Open(text, line, j) /\ NextLine.indent \in {2, 4, 6}
        BY <2>2, <3>1
      <4>. QED BY <1>2, <3>2, <4>1
    <3>. QED BY <1>t, <2>2, <3>1, <3>3 DEF NestedAt, o
  <2>. QED BY <2>1, <2>2
<1>. QED BY <1>4, <1>6, <1>7 DEF PackageAt, SdkAt

(* The reader's branches are the places a line may have. *)
LEMMA Shape ==
    ASSUME IInv, AtLine("entry")
    PROVE  WellFormed(text, line + 1) <=>
              \/ IsSection(NextLine) \/ IsPackage(NextLine) \/ IsField(NextLine)
              \/ IsNested(NextLine) \/ IsSdk(NextLine)
<1>. DEFINE i == line + 1
<1>t. NextLine = text[i] /\ Content(text, i) /\ text[i].form # "blank"
      /\ i - 1 = line
  <2>1. TypeOK
    BY DEF IInv
  <2>. QED BY <2>1, NextType DEF Content
<1>p. /\ PackageAt(text, i) <=> section = "packages" /\ NextLine.indent = 2
      /\ SdkAt(text, i) <=> section = "sdks" /\ NextLine.indent = 2
      /\ FieldAt(text, i) <=> section = "packages" /\ NextLine.indent = 4
                              /\ package # ""
      /\ FieldAt(text, i) => PackageOfField(text, i) = package
      /\ NestedAt(text, i) <=> section = "packages" /\ NextLine.indent = 6
                               /\ inDescription
      /\ NestedAt(text, i) => PackageOfNested(text, i) = package
  BY Place
<1>r. /\ declared = DeclaredBy(text, line) /\ mapped = MappedBy(text, line)
      /\ fields = FieldsBy(text, line) /\ nested = NestedBy(text, line)
  BY DEF IInv, ReadsAsIndented
<1>. HIDE DEF i
<1>1. IsPackage(NextLine) <=>
         /\ PackageAt(text, i) /\ text[i].value = ""
         /\ text[i].key \notin DeclaredBy(text, i - 1)
  BY <1>t, <1>p, <1>r DEF IsPackage
<1>2. ASSUME NEW key
      PROVE  (/\ ~\E f \in fields : f[1] = package /\ f[2] = key
              /\ ~(key = "description" /\ package \in mapped))
             <=> \A k \in 1..line : FieldAt(text, k) /\ text[k].key = key =>
                    PackageOfField(text, k) # package
  <2>1. ASSUME ~\E f \in fields : f[1] = package /\ f[2] = key,
               ~(key = "description" /\ package \in mapped),
               NEW k \in 1..line, FieldAt(text, k), text[k].key = key,
               PackageOfField(text, k) = package
        PROVE  FALSE
    <3>1. CASE MapAt(text, k)
      <4>1. key = "description"
        BY <2>1, <3>1 DEF MapAt, Opens
      <4>2. package \in mapped
        BY <1>r, <2>1, <3>1 DEF MappedBy
      <4>. QED BY <2>1, <4>1, <4>2
    <3>2. CASE ~MapAt(text, k)
      <4>. DEFINE f == Triple(PackageOfField(text, k), text[k])
      <4>1. f \in fields
        BY <1>r, <2>1, <3>2 DEF FieldsBy
      <4>2. f[1] = package /\ f[2] = key
        BY <2>1 DEF Triple
      <4>. QED BY <2>1, <4>1, <4>2
    <3>. QED BY <3>1, <3>2
  <2>2. ASSUME \A k \in 1..line : FieldAt(text, k) /\ text[k].key = key =>
                    PackageOfField(text, k) # package,
               NEW f \in fields, f[1] = package, f[2] = key
        PROVE  FALSE
    <3>1. PICK k \in 1..line : /\ FieldAt(text, k)
                               /\ f = Triple(PackageOfField(text, k), text[k])
      BY <1>r DEF FieldsBy
    <3>. QED BY <2>2, <3>1 DEF Triple
  <2>3. ASSUME \A k \in 1..line : FieldAt(text, k) /\ text[k].key = key =>
                    PackageOfField(text, k) # package,
               key = "description", package \in mapped
        PROVE  FALSE
    <3>1. PICK k \in 1..line : MapAt(text, k) /\ PackageOfField(text, k) = package
      BY <1>r, <2>3 DEF MappedBy
    <3>2. FieldAt(text, k) /\ text[k].key = key
      BY <2>3, <3>1 DEF MapAt, Opens
    <3>. QED BY <2>3, <3>1, <3>2
  <2>. QED BY <2>1, <2>2, <2>3
<1>3. IsField(NextLine) <=>
         /\ FieldAt(text, i) /\ IsScalar(text[i].value)
         /\ \A k \in 1..(i - 1) : FieldAt(text, k) /\ text[k].key = text[i].key =>
               PackageOfField(text, k) # PackageOfField(text, i)
  <2>1. (/\ ~\E f \in fields : f[1] = package /\ f[2] = text[i].key
         /\ ~(text[i].key = "description" /\ package \in mapped))
        <=> \A k \in 1..line : FieldAt(text, k) /\ text[k].key = text[i].key =>
               PackageOfField(text, k) # package
    BY <1>2
  <2>. QED BY <1>t, <1>p, <2>1, Zenon DEF IsField
<1>4. ASSUME NEW key
      PROVE  (~\E f \in nested : f[1] = package /\ f[2] = key)
             <=> \A k \in 1..line : NestedAt(text, k) /\ text[k].key = key =>
                    PackageOfNested(text, k) # package
  <2>1. ASSUME ~\E f \in nested : f[1] = package /\ f[2] = key,
               NEW k \in 1..line, NestedAt(text, k), text[k].key = key,
               PackageOfNested(text, k) = package
        PROVE  FALSE
    <3>. DEFINE f == Triple(PackageOfNested(text, k), text[k])
    <3>1. f \in nested
      BY <1>r, <2>1 DEF NestedBy
    <3>2. f[1] = package /\ f[2] = key
      BY <2>1 DEF Triple
    <3>. QED BY <2>1, <3>1, <3>2
  <2>2. ASSUME \A k \in 1..line : NestedAt(text, k) /\ text[k].key = key =>
                    PackageOfNested(text, k) # package,
               NEW f \in nested, f[1] = package, f[2] = key
        PROVE  FALSE
    <3>1. PICK k \in 1..line : /\ NestedAt(text, k)
                               /\ f = Triple(PackageOfNested(text, k), text[k])
      BY <1>r DEF NestedBy
    <3>. QED BY <2>2, <3>1 DEF Triple
  <2>. QED BY <2>1, <2>2
<1>5. IsNested(NextLine) <=>
         /\ NestedAt(text, i) /\ IsScalar(text[i].value)
         /\ \A k \in 1..(i - 1) : NestedAt(text, k) /\ text[k].key = text[i].key =>
               PackageOfNested(text, k) # PackageOfNested(text, i)
  <2>1. (~\E f \in nested : f[1] = package /\ f[2] = text[i].key)
        <=> \A k \in 1..line : NestedAt(text, k) /\ text[k].key = text[i].key =>
               PackageOfNested(text, k) # package
    BY <1>4
  <2>. QED BY <1>t, <1>p, <2>1, Zenon DEF IsNested
<1>6. IsSdk(NextLine) <=> SdkAt(text, i) /\ IsScalar(text[i].value)
  BY <1>t, <1>p DEF IsSdk
<1>7. IsSection(NextLine) <=> Content(text, i) /\ IsSection(text[i])
  BY <1>t
<1>8. WellFormed(text, i) <=>
         \/ Content(text, i) /\ IsSection(text[i])
         \/ PackageAt(text, i) /\ text[i].value = ""
            /\ text[i].key \notin DeclaredBy(text, i - 1)
         \/ /\ FieldAt(text, i) /\ IsScalar(text[i].value)
            /\ \A k \in 1..(i - 1) :
                  FieldAt(text, k) /\ text[k].key = text[i].key =>
                     PackageOfField(text, k) # PackageOfField(text, i)
         \/ /\ NestedAt(text, i) /\ IsScalar(text[i].value)
            /\ \A k \in 1..(i - 1) :
                  NestedAt(text, k) /\ text[k].key = text[i].key =>
                     PackageOfNested(text, k) # PackageOfNested(text, i)
         \/ SdkAt(text, i) /\ IsScalar(text[i].value)
  BY <1>t, Zenon DEF WellFormed
<1>9. WellFormed(text, i) <=>
         \/ IsSection(NextLine) \/ IsPackage(NextLine) \/ IsField(NextLine)
         \/ IsNested(NextLine) \/ IsSdk(NextLine)
  BY <1>1, <1>3, <1>5, <1>6, <1>7, <1>8, Zenon
<1>. QED BY <1>9 DEF i

-----------------------------------------------------------------------------
(* After an entry with a place: which lines are open, and that nothing it leaves
   behind is out of shape. *)
LEMMA Taken ==
    ASSUME IInv, AtLine("entry"), Advance,
           \/ IsSection(NextLine) \/ IsPackage(NextLine) \/ IsField(NextLine)
           \/ IsNested(NextLine) \/ IsSdk(NextLine)
    PROVE  /\ text' = text /\ line' = line + 1 /\ line' \in 1..Len(text)
           /\ status = "reading" /\ status' = status
           /\ EvenTo(text', line') /\ RefusesIllFormed'
           /\ \A j : Open(text', line', j) <=>
                        \/ j = line'
                        \/ Open(text, line, j) /\ NextLine.indent > text[j].indent
           /\ \A j : Open(text, line, j) => /\ text[j].indent \in {0, 2, 4, 6}
                                           /\ j # line'
<1>1. TypeOK
  BY DEF IInv
<1>2. /\ line \in Nat /\ line + 1 \in 1..Len(text) /\ line < Len(text)
      /\ text \in Seq(Line) /\ NextLine = text[line + 1]
      /\ Content(text, line + 1)
  BY <1>1, NextType
<1>3. text' = text /\ line' = line + 1 /\ status = "reading" /\ status' = status
  BY DEF Advance, AtLine
<1>4. NextLine.indent \in {0, 2, 4, 6}
  BY DEF IsSection, IsPackage, IsField, IsNested, IsSdk
<1>5. EvenTo(text, line + 1)
  BY <1>2, <1>4 DEF IInv, EvenTo
<1>6. \A i \in 1..(line + 1) : WellFormed(text, i)
  <2>1. WellFormed(text, line + 1)
    BY Shape
  <2>2. \A i \in 1..line : WellFormed(text, i)
    BY DEF IInv, RefusesIllFormed
  <2>3. \A i \in 1..(line + 1) : i \in 1..line \/ i = line + 1
    BY <1>2
  <2>. QED BY <2>1, <2>2, <2>3
<1>7. RefusesIllFormed'
  BY <1>3, <1>6 DEF RefusesIllFormed
<1>8. \A j : Open(text, line + 1, j) <=>
               \/ j = line + 1
               \/ Open(text, line, j) /\ NextLine.indent > text[j].indent
  BY <1>2, OpenStep
<1>9. \A j : Open(text, line, j) => /\ text[j].indent \in {0, 2, 4, 6}
                                  /\ j # line + 1
  <2>. TAKE j
  <2>. HAVE Open(text, line, j)
  <2>1. j \in 1..line /\ Content(text, j)
    BY DEF Open
  <2>. QED BY <1>2, <2>1 DEF IInv, EvenTo
<1>. QED BY <1>2, <1>3, <1>5, <1>7, <1>8, <1>9

(* Where lines of a kind are indented. *)
LEMMA Columns ==
    ASSUME NEW t, NEW j
    PROVE  /\ PackageAt(t, j) => t[j].indent = 2
           /\ MapAt(t, j) => t[j].indent = 4
BY DEF PackageAt, UnderHeader, MapAt, FieldAt

(* A package, or a description, is open only in the packages section. *)
LEMMA InPackages ==
    ASSUME IInv
    PROVE  /\ package # "" => section = "packages"
           /\ inDescription => package # ""
<1>0. line \in Nat /\ line <= Len(text) /\ text \in Seq(Line) /\ EvenTo(text, line)
  <2>1. text \in Seq(Line) /\ line \in 0..Len(text)
    BY DEF IInv, TypeOK
  <2>. QED BY <2>1 DEF IInv
<1>1. ASSUME NEW j, Open(text, line, j), PackageAt(text, j)
      PROVE  section = "packages" /\ package # ""
  <2>1. HasOwner(text, j) /\ HeaderAt(text, Owner(text, j), "packages")
    BY <1>1 DEF PackageAt, UnderHeader
  <2>2. Open(text, line, Owner(text, j))
    BY <1>0, <1>1, <2>1, OwnerStaysOpen
  <2>3. section = "packages"
    BY <2>1, <2>2 DEF IInv, SectionInv, HeaderAt
  <2>4. package = text[j].key
    BY <1>1 DEF IInv, PackageInv
  <2>5. j \in 1..Len(text) /\ text[j].form = "entry"
    BY <1>0, <1>1 DEF Open, Content
  <2>6. text[j] \in Line
    BY <1>0, <2>5
  <2>7. text[j].key # ""
    BY <2>5, <2>6 DEF Line
  <2>. QED BY <2>3, <2>4, <2>7
<1>2. package # "" => section = "packages"
  BY <1>1 DEF IInv, PackageInv
<1>3. ASSUME inDescription
      PROVE  package # ""
  <2>1. PICK j : Open(text, line, j) /\ MapAt(text, j)
    BY <1>3 DEF IInv, DescriptionInv
  <2>2. HasOwner(text, j) /\ PackageAt(text, Owner(text, j))
    BY <2>1 DEF MapAt, FieldAt
  <2>3. Open(text, line, Owner(text, j))
    BY <1>0, <2>1, <2>2, OwnerStaysOpen
  <2>. QED BY <1>1, <2>2, <2>3
<1>. QED BY <1>2, <1>3

-----------------------------------------------------------------------------
LEMMA EmptyWord == "" \in Words
BY LockAssumption

LEMMA TypeInit == ASSUME Init PROVE TypeOK
<1>1. text \in Seq(Line)
  BY LockAssumption DEF Init, Start
<1>2. text \in Seq(Line) /\ line \in 0..Len(text)
  <2>1. Len(text) \in Nat
    BY <1>1, LenProperties
  <2>2. line = 0
    BY DEF Init, Start
  <2>3. line \in 0..Len(text)
    BY <2>1, <2>2
  <2>. QED BY <1>1, <2>3
<1>. QED BY <1>2, EmptyWord DEF Init, Start, TypeOK

(* The scalar of a well-typed line is a string, and so is what Get finds. *)
LEMMA ScalarType == \A v \in Words : Scalar(v) \in Words
BY EmptyWord DEF Scalar

LEMMA GetType ==
    ASSUME NEW rel \in SUBSET Triples, NEW p, NEW k
    PROVE  Get(rel, p, k) \in Words
<1>1. CASE \E f \in rel : f[1] = p /\ f[2] = k
  <2>. DEFINE c == CHOOSE f \in rel : f[1] = p /\ f[2] = k
  <2>1. c \in Triples
    BY <1>1
  <2>2. c[3] \in Words
    BY <2>1 DEF Triples
  <2>. QED BY <1>1, <2>2 DEF Get
<1>2. CASE ~\E f \in rel : f[1] = p /\ f[2] = k
  BY <1>2, EmptyWord DEF Get
<1>. QED BY <1>1, <1>2

LEMMA EntryType ==
    ASSUME TypeOK, NEW p \in Words
    PROVE  Entry(p) \in [name : Words, source : Words, version : Words,
                         direct : BOOLEAN, where : Words]
<1>1. fields \in SUBSET Triples /\ nested \in SUBSET Triples
  BY DEF TypeOK
<1>2. /\ Source(p) \in Words /\ Version(p) \in Words
      /\ Description(p, "sha256") \in Words /\ Description(p, "path") \in Words
  BY <1>1, GetType DEF Source, Version, Description
<1>3. (CASE Source(p) = "hosted" -> Description(p, "sha256")
         [] Source(p) = "path"   -> Description(p, "path")
         [] OTHER                -> "") \in Words
  BY <1>2, EmptyWord
<1>4. (Get(fields, p, "dependency") \in {"direct main", "direct dev"}) \in BOOLEAN
  OBVIOUS
<1>. QED BY <1>2, <1>3, <1>4 DEF Entry

LEMMA OneFurther == \A n \in Nat : \A k \in 0..n : k < n => k + 1 \in 0..n
OBVIOUS

(* Reading a line, with the conjuncts it cannot disturb taken once. *)
LEMMA TypeTaken ==
    ASSUME TypeOK, line < Len(text), Advance,
           section' \in {"", "packages", "sdks"}, inDescription' \in BOOLEAN,
           declared' \subseteq Words, mapped' \subseteq declared',
           fields' \subseteq Triples, nested' \subseteq Triples,
           package' \in declared' \cup {""},
           inDescription' => package' \in mapped'
    PROVE  TypeOK'
<1>1. text \in Seq(Line) /\ line \in 0..Len(text)
  BY DEF TypeOK
<1>2. text' \in Seq(Line) /\ line' \in 0..Len(text')
  <2>1. text' = text /\ line' = line + 1
    BY DEF Advance
  <2>2. Len(text) \in Nat
    BY <1>1, LenProperties
  <2>3. line \in 0..Len(text)
    BY <1>1
  <2>4. line + 1 \in 0..Len(text)
    BY <2>2, <2>3, OneFurther, Zenon
  <2>. QED BY <1>1, <2>1, <2>4
<1>3. status' = status /\ resolved' = resolved
  BY DEF Advance
<1>4. package' \in Words
  BY EmptyWord
<1>. QED BY <1>2, <1>3, <1>4 DEF TypeOK

LEMMA TypeStep == ASSUME TypeOK, [Next]_vars PROVE TypeOK'
<1>0. /\ section \in {"", "packages", "sdks"} /\ package \in Words
      /\ inDescription \in BOOLEAN /\ declared \subseteq Words
      /\ mapped \subseteq declared /\ fields \subseteq Triples
      /\ nested \subseteq Triples /\ package \in declared \cup {""}
      /\ inDescription => package \in mapped
  BY DEF TypeOK
<1>e. ASSUME AtLine("entry")
      PROVE  /\ NextLine.key \in Words /\ line < Len(text)
             /\ <<package, NextLine.key, Scalar(NextLine.value)>> \in Triples
  BY <1>0, <1>e, NextType, ScalarType DEF Triples
<1>1. CASE SkipLine
  BY <1>0, <1>1, TypeTaken DEF SkipLine, AtLine, memory, contents
<1>2. CASE ReadSection
  BY <1>0, <1>e, <1>2, TypeTaken DEF ReadSection, IsSection, contents
<1>3. CASE ReadPackage
  <2>. USE <1>3 DEF ReadPackage
  <2>1. declared' \subseteq Words /\ mapped' \subseteq declared'
        /\ package' \in declared'
    BY <1>0, <1>e
  <2>. QED BY <1>0, <1>e, <2>1, TypeTaken
<1>4. CASE ReadField
  <2>1. AtLine("entry") /\ Advance /\ package # "" /\ inDescription' \in BOOLEAN
        /\ section' = section /\ package' = package /\ declared' = declared
        /\ nested' = nested
    BY <1>4 DEF ReadField, IsField, Opens
  <2>2. package \in declared
    BY <1>0, <2>1
  <2>3. CASE Opens(NextLine)
    <3>1. mapped' = mapped \cup {package} /\ fields' = fields
      BY <1>4, <2>3 DEF ReadField
    <3>. QED BY <1>0, <1>e, <2>1, <2>2, <3>1, TypeTaken
  <2>4. CASE ~Opens(NextLine)
    <3>1. mapped' = mapped /\ inDescription' = FALSE
          /\ fields' = fields \cup
                        {<<package, NextLine.key, Scalar(NextLine.value)>>}
      BY <1>4, <2>4 DEF ReadField
    <3>2. fields' \subseteq Triples
      BY <1>0, <1>e, <2>1, <3>1
    <3>. QED BY <1>0, <1>e, <2>1, <3>1, <3>2, TypeTaken
  <2>. QED BY <2>3, <2>4
<1>5. CASE ReadNested
  <2>1. AtLine("entry") /\ Advance /\ section' = section /\ package' = package
        /\ inDescription' = inDescription /\ declared' = declared
        /\ fields' = fields /\ mapped' = mapped
    BY <1>5 DEF ReadNested, memory
  <2>2. nested' \subseteq Triples
    BY <1>0, <1>e, <1>5 DEF ReadNested
  <2>. QED BY <1>0, <1>e, <2>1, <2>2, TypeTaken
<1>6. CASE ReadSdk
  BY <1>0, <1>6, TypeTaken DEF ReadSdk, AtLine, memory, contents
<1>7. CASE Refuse
  BY <1>7 DEF Refuse, TypeOK, memory, contents
<1>8. CASE EndOfText
  BY <1>8 DEF EndOfText, TypeOK, memory, contents
<1>9. CASE Resolve
  <2>1. resolved' \subseteq [name : Words, source : Words, version : Words,
                             direct : BOOLEAN, where : Words]
    BY <1>0, <1>9, EntryType DEF Resolve
  <2>2. /\ status' = "resolved" /\ text' = text /\ line' = line
        /\ section' = section /\ package' = package
        /\ inDescription' = inDescription /\ declared' = declared
        /\ fields' = fields /\ mapped' = mapped /\ nested' = nested
    BY <1>9 DEF Resolve, memory, contents
  <2>. QED BY <2>1, <2>2 DEF TypeOK
<1>10. CASE FailToResolve
  BY <1>10 DEF FailToResolve, TypeOK, memory, contents
<1>11. CASE UNCHANGED vars
  BY <1>11 DEF vars, TypeOK, memory, contents
<1>. QED BY <1>1, <1>2, <1>3, <1>4, <1>5, <1>6, <1>7, <1>8, <1>9, <1>10, <1>11
         DEF Next

-----------------------------------------------------------------------------
(* What an entry with a place adds to what the text says, by where it stands. *)
LEMMA Reads ==
    ASSUME IInv, AtLine("entry")
    PROVE  /\ DeclaredBy(text, line + 1) = declared \cup
                 (IF section = "packages" /\ NextLine.indent = 2
                  THEN {NextLine.key} ELSE {})
           /\ MappedBy(text, line + 1) = mapped \cup
                 (IF /\ section = "packages" /\ NextLine.indent = 4
                     /\ package # "" /\ Opens(NextLine)
                  THEN {package} ELSE {})
           /\ FieldsBy(text, line + 1) = fields \cup
                 (IF /\ section = "packages" /\ NextLine.indent = 4
                     /\ package # "" /\ ~Opens(NextLine)
                  THEN {Triple(package, NextLine)} ELSE {})
           /\ NestedBy(text, line + 1) = nested \cup
                 (IF section = "packages" /\ NextLine.indent = 6 /\ inDescription
                  THEN {Triple(package, NextLine)} ELSE {})
<1>1. line \in Nat /\ NextLine = text[line + 1]
  BY NextType DEF IInv
<1>2. /\ declared = DeclaredBy(text, line) /\ mapped = MappedBy(text, line)
      /\ fields = FieldsBy(text, line) /\ nested = NestedBy(text, line)
  BY DEF IInv, ReadsAsIndented
<1>3. MapAt(text, line + 1) <=> FieldAt(text, line + 1) /\ Opens(NextLine)
  BY <1>1 DEF MapAt
<1>4. DeclaredBy(text, line + 1) = declared \cup
         (IF section = "packages" /\ NextLine.indent = 2
          THEN {NextLine.key} ELSE {})
  BY <1>1, <1>2, ByStep, Place, Zenon
<1>5. MappedBy(text, line + 1) = mapped \cup
         (IF /\ section = "packages" /\ NextLine.indent = 4
             /\ package # "" /\ Opens(NextLine)
          THEN {package} ELSE {})
  <2>1. MappedBy(text, line + 1) = mapped \cup
          (IF MapAt(text, line + 1)
           THEN {PackageOfField(text, line + 1)} ELSE {})
    BY <1>1, <1>2, ByStep, Zenon
  <2>2. FieldAt(text, line + 1) <=> /\ section = "packages"
                                   /\ NextLine.indent = 4 /\ package # ""
    BY Place
  <2>3. FieldAt(text, line + 1) => PackageOfField(text, line + 1) = package
    BY Place
  <2>. QED BY <1>3, <2>1, <2>2, <2>3
<1>6. FieldsBy(text, line + 1) = fields \cup
         (IF /\ section = "packages" /\ NextLine.indent = 4
             /\ package # "" /\ ~Opens(NextLine)
          THEN {Triple(package, NextLine)} ELSE {})
  <2>1. FieldsBy(text, line + 1) = fields \cup
          (IF FieldAt(text, line + 1) /\ ~MapAt(text, line + 1)
           THEN {Triple(PackageOfField(text, line + 1), text[line + 1])} ELSE {})
    BY <1>1, <1>2, ByStep, Zenon
  <2>2. FieldAt(text, line + 1) <=> /\ section = "packages"
                                   /\ NextLine.indent = 4 /\ package # ""
    BY Place
  <2>3. FieldAt(text, line + 1) => PackageOfField(text, line + 1) = package
    BY Place
  <2>. QED BY <1>1, <1>3, <2>1, <2>2, <2>3
<1>7. NestedBy(text, line + 1) = nested \cup
         (IF section = "packages" /\ NextLine.indent = 6 /\ inDescription
          THEN {Triple(package, NextLine)} ELSE {})
  <2>1. NestedBy(text, line + 1) = nested \cup
          (IF NestedAt(text, line + 1)
           THEN {Triple(PackageOfNested(text, line + 1), text[line + 1])} ELSE {})
    BY <1>1, <1>2, ByStep, Zenon
  <2>2. NestedAt(text, line + 1) <=> /\ section = "packages"
                                    /\ NextLine.indent = 6 /\ inDescription
    BY Place
  <2>3. NestedAt(text, line + 1) => PackageOfNested(text, line + 1) = package
    BY Place
  <2>. QED BY <1>1, <2>1, <2>2, <2>3
<1>. QED BY <1>4, <1>5, <1>6, <1>7

(* The lines indented less than the one just read, and what they are. *)
LEMMA StandsBelow ==
    ASSUME IInv
    PROVE  /\ \A j : Open(text, line, j) /\ text[j].indent = 0
                        => section = text[j].key
           /\ section # "" => \E j : Open(text, line, j) /\ text[j].indent = 0
           /\ \A j : Open(text, line, j) /\ PackageAt(text, j)
                        => package = text[j].key
           /\ package # "" => \E j : Open(text, line, j) /\ PackageAt(text, j)
           /\ inDescription <=> \E j : Open(text, line, j) /\ MapAt(text, j)
           /\ \A j : PackageAt(text, j) => text[j].indent = 2
           /\ \A j : MapAt(text, j) => text[j].indent = 4
BY Columns DEF IInv, SectionInv, PackageInv, DescriptionInv

LEMMA SectionStep ==
    ASSUME IInv, ReadSection
    PROVE  SectionInv' /\ PackageInv' /\ DescriptionInv' /\ ReadsAsIndented'
<1>. DEFINE l == NextLine
<1>1. /\ AtLine("entry") /\ IsSection(l) /\ Advance
      /\ section' = l.key /\ package' = "" /\ inDescription' = FALSE
      /\ declared' = declared /\ fields' = fields
      /\ mapped' = mapped /\ nested' = nested
  BY DEF ReadSection, contents
<1>2. /\ text' = text /\ line' = line + 1
      /\ \A j : Open(text', line', j) <=>
                   \/ j = line'
                   \/ Open(text, line, j) /\ l.indent > text[j].indent
      /\ \A j : Open(text, line, j) => text[j].indent \in {0, 2, 4, 6}
  BY <1>1, Taken
<1>3. l = text[line + 1]
  BY DEF NextLine
<1>4. l.indent = 0
  BY <1>1 DEF IsSection
<1>. HIDE DEF l
<1>5. \A j : Open(text', line', j) <=> j = line + 1
  BY <1>2, <1>4
<1>6. /\ \A j : PackageAt(text, j) => text[j].indent = 2
      /\ \A j : MapAt(text, j) => text[j].indent = 4
  BY Columns
<1>7. SectionInv'
  BY <1>1, <1>2, <1>3, <1>4, <1>5 DEF SectionInv
<1>a. ~PackageAt(text, line + 1) /\ ~MapAt(text, line + 1)
  BY <1>3, <1>4, <1>6
<1>8. PackageInv' /\ DescriptionInv'
  BY <1>1, <1>2, <1>5, <1>a, Zenon DEF PackageInv, DescriptionInv
<1>9. ReadsAsIndented'
  <2>1. /\ DeclaredBy(text, line + 1) = declared
        /\ MappedBy(text, line + 1) = mapped
        /\ FieldsBy(text, line + 1) = fields
        /\ NestedBy(text, line + 1) = nested
    <3>1. l.indent # 2 /\ l.indent # 4 /\ l.indent # 6
      BY <1>4
    <3>2. AtLine("entry")
      BY <1>1
    <3>. QED BY <3>1, <3>2, Reads, Zenon DEF l
  <2>. QED BY <1>1, <1>2, <2>1, Zenon DEF ReadsAsIndented
<1>. QED BY <1>7, <1>8, <1>9

LEMMA PackageStep ==
    ASSUME IInv, ReadPackage
    PROVE  SectionInv' /\ PackageInv' /\ DescriptionInv' /\ ReadsAsIndented'
<1>. DEFINE l == NextLine
<1>1. /\ AtLine("entry") /\ IsPackage(l) /\ Advance
      /\ section' = section /\ package' = l.key /\ inDescription' = FALSE
      /\ declared' = declared \cup {l.key} /\ fields' = fields
      /\ mapped' = mapped /\ nested' = nested
  BY DEF ReadPackage
<1>2. /\ text' = text /\ line' = line + 1
      /\ \A j : Open(text', line', j) <=>
                   \/ j = line'
                   \/ Open(text, line, j) /\ l.indent > text[j].indent
      /\ \A j : Open(text, line, j) => text[j].indent \in {0, 2, 4, 6}
  BY <1>1, Taken
<1>3. l = text[line + 1]
  BY DEF NextLine
<1>4. l.indent = 2 /\ section = "packages"
  BY <1>1 DEF IsPackage
<1>. HIDE DEF l
<1>5. \A j : Open(text', line', j) <=>
         \/ j = line + 1
         \/ Open(text, line, j) /\ text[j].indent = 0
  BY <1>2, <1>4
<1>6. PackageAt(text, line + 1)
  BY <1>1, <1>4, Place DEF l
<1>7. SectionInv'
  <2>1. \A j : Open(text', line', j) /\ text[j].indent = 0
                <=> Open(text, line, j) /\ text[j].indent = 0
    BY <1>3, <1>4, <1>5
  <2>. QED BY <1>1, <1>2, <2>1, StandsBelow, Zenon DEF SectionInv
<1>8. PackageInv'
  <2>1. \A j : Open(text', line', j) /\ PackageAt(text, j) <=> j = line + 1
    BY <1>5, <1>6, Columns
  <2>. QED BY <1>1, <1>2, <1>3, <2>1 DEF PackageInv
<1>9. DescriptionInv'
  <2>1. ~\E j : Open(text', line', j) /\ MapAt(text, j)
    BY <1>3, <1>4, <1>5, Columns
  <2>. QED BY <1>1, <1>2, <2>1 DEF DescriptionInv
<1>10. ReadsAsIndented'
  <2>1. /\ DeclaredBy(text, line + 1) = declared \cup {l.key}
        /\ MappedBy(text, line + 1) = mapped
        /\ FieldsBy(text, line + 1) = fields
        /\ NestedBy(text, line + 1) = nested
    BY <1>1, <1>4, Reads DEF l
  <2>. QED BY <1>1, <1>2, <2>1, Zenon DEF ReadsAsIndented
<1>. QED BY <1>7, <1>8, <1>9, <1>10

LEMMA FieldStep ==
    ASSUME IInv, ReadField
    PROVE  SectionInv' /\ PackageInv' /\ DescriptionInv' /\ ReadsAsIndented'
<1>. DEFINE l == NextLine
<1>1. /\ AtLine("entry") /\ IsField(l) /\ Advance
      /\ section' = section /\ package' = package /\ inDescription' = Opens(l)
      /\ declared' = declared /\ nested' = nested
      /\ mapped' = mapped \cup (IF Opens(l) THEN {package} ELSE {})
      /\ fields' = fields \cup (IF Opens(l) THEN {} ELSE {Triple(package, l)})
  BY DEF ReadField, Triple
<1>2. /\ text' = text /\ line' = line + 1
      /\ \A j : Open(text', line', j) <=>
                   \/ j = line'
                   \/ Open(text, line, j) /\ l.indent > text[j].indent
      /\ \A j : Open(text, line, j) => text[j].indent \in {0, 2, 4, 6}
  BY <1>1, Taken
<1>3. l = text[line + 1]
  BY DEF NextLine
<1>4. l.indent = 4 /\ section = "packages" /\ package # ""
  BY <1>1 DEF IsField
<1>. HIDE DEF l
<1>i. l.indent = 4
  BY <1>4
<1>5. \A j : Open(text', line', j) <=>
         \/ j = line + 1
         \/ Open(text, line, j) /\ text[j].indent \in {0, 2}
  BY <1>2, <1>i
<1>6. FieldAt(text, line + 1)
  BY <1>1, <1>4, Place DEF l
<1>7. SectionInv'
  <2>1. \A j : Open(text', line', j) /\ text[j].indent = 0
                <=> Open(text, line, j) /\ text[j].indent = 0
    BY <1>3, <1>i, <1>5
  <2>. QED BY <1>1, <1>2, <2>1, StandsBelow, Zenon DEF SectionInv
<1>8. PackageInv'
  <2>1. \A j : Open(text', line', j) /\ PackageAt(text, j)
                <=> Open(text, line, j) /\ PackageAt(text, j)
    BY <1>3, <1>i, <1>5, Columns
  <2>. QED BY <1>1, <1>2, <2>1, StandsBelow, Zenon DEF PackageInv
<1>9. DescriptionInv'
  <2>1. \A j : Open(text', line', j) /\ MapAt(text, j)
                <=> j = line + 1 /\ MapAt(text, j)
    BY <1>5, Columns
  <2>2. MapAt(text, line + 1) <=> Opens(l)
    BY <1>3, <1>6, Zenon DEF MapAt
  <2>. QED BY <1>1, <1>2, <2>1, <2>2, Zenon DEF DescriptionInv
<1>10. ReadsAsIndented'
  <2>1. /\ DeclaredBy(text, line + 1) = declared
        /\ MappedBy(text, line + 1) =
              mapped \cup (IF Opens(l) THEN {package} ELSE {})
        /\ FieldsBy(text, line + 1) =
              fields \cup (IF Opens(l) THEN {} ELSE {Triple(package, l)})
        /\ NestedBy(text, line + 1) = nested
    <3>1. l.indent # 2 /\ l.indent # 6
      BY <1>i
    <3>2. AtLine("entry")
      BY <1>1
    <3>3. CASE Opens(l)
      BY <1>4, <3>1, <3>2, <3>3, Reads, Zenon DEF l
    <3>4. CASE ~Opens(l)
      BY <1>4, <3>1, <3>2, <3>4, Reads, Zenon DEF l
    <3>. QED BY <3>3, <3>4
  <2>. QED BY <1>1, <1>2, <2>1, Zenon DEF ReadsAsIndented
<1>. QED BY <1>7, <1>8, <1>9, <1>10

LEMMA NestedStep ==
    ASSUME IInv, ReadNested
    PROVE  SectionInv' /\ PackageInv' /\ DescriptionInv' /\ ReadsAsIndented'
<1>. DEFINE l == NextLine
<1>1. /\ AtLine("entry") /\ IsNested(l) /\ Advance
      /\ section' = section /\ package' = package
      /\ inDescription' = inDescription
      /\ declared' = declared /\ fields' = fields /\ mapped' = mapped
      /\ nested' = nested \cup {Triple(package, l)}
  BY DEF ReadNested, Triple, memory
<1>2. /\ text' = text /\ line' = line + 1
      /\ \A j : Open(text', line', j) <=>
                   \/ j = line'
                   \/ Open(text, line, j) /\ l.indent > text[j].indent
      /\ \A j : Open(text, line, j) => text[j].indent \in {0, 2, 4, 6}
  BY <1>1, Taken
<1>3. l = text[line + 1]
  BY DEF NextLine
<1>4. l.indent = 6 /\ section = "packages" /\ inDescription
  BY <1>1 DEF IsNested
<1>. HIDE DEF l
<1>i. l.indent = 6
  BY <1>4
<1>5. \A j : Open(text', line', j) <=>
         \/ j = line + 1
         \/ Open(text, line, j) /\ text[j].indent \in {0, 2, 4}
  BY <1>2, <1>i
<1>7. SectionInv'
  <2>1. \A j : Open(text', line', j) /\ text[j].indent = 0
                <=> Open(text, line, j) /\ text[j].indent = 0
    BY <1>3, <1>i, <1>5
  <2>. QED BY <1>1, <1>2, <2>1, StandsBelow, Zenon DEF SectionInv
<1>8. PackageInv'
  <2>1. \A j : Open(text', line', j) /\ PackageAt(text, j)
                <=> Open(text, line, j) /\ PackageAt(text, j)
    BY <1>3, <1>i, <1>5, Columns
  <2>. QED BY <1>1, <1>2, <2>1, StandsBelow, Zenon DEF PackageInv
<1>9. DescriptionInv'
  <2>1. \A j : Open(text', line', j) /\ MapAt(text, j)
                <=> Open(text, line, j) /\ MapAt(text, j)
    BY <1>3, <1>i, <1>5, Columns
  <2>. QED BY <1>1, <1>2, <2>1, StandsBelow, Zenon DEF DescriptionInv
<1>10. ReadsAsIndented'
  <2>1. /\ DeclaredBy(text, line + 1) = declared
        /\ MappedBy(text, line + 1) = mapped
        /\ FieldsBy(text, line + 1) = fields
        /\ NestedBy(text, line + 1) = nested \cup {Triple(package, l)}
    <3>1. l.indent # 2 /\ l.indent # 4
      BY <1>i
    <3>2. AtLine("entry")
      BY <1>1
    <3>. QED BY <1>4, <3>1, <3>2, Reads, Zenon DEF l
  <2>. QED BY <1>1, <1>2, <2>1, Zenon DEF ReadsAsIndented
<1>. QED BY <1>7, <1>8, <1>9, <1>10

LEMMA SdkStep ==
    ASSUME IInv, ReadSdk
    PROVE  SectionInv' /\ PackageInv' /\ DescriptionInv' /\ ReadsAsIndented'
<1>. DEFINE l == NextLine
<1>1. /\ AtLine("entry") /\ IsSdk(l) /\ Advance
      /\ section' = section /\ package' = package
      /\ inDescription' = inDescription
      /\ declared' = declared /\ fields' = fields /\ mapped' = mapped
      /\ nested' = nested
  BY DEF ReadSdk, memory, contents
<1>2. /\ text' = text /\ line' = line + 1
      /\ \A j : Open(text', line', j) <=>
                   \/ j = line'
                   \/ Open(text, line, j) /\ l.indent > text[j].indent
      /\ \A j : Open(text, line, j) => text[j].indent \in {0, 2, 4, 6}
  BY <1>1, Taken
<1>3. l = text[line + 1]
  BY DEF NextLine
<1>4. l.indent = 2 /\ section # "packages"
  BY <1>1 DEF IsSdk
<1>. HIDE DEF l
<1>i. l.indent = 2
  BY <1>4
<1>5. \A j : Open(text', line', j) <=>
         \/ j = line + 1
         \/ Open(text, line, j) /\ text[j].indent = 0
  BY <1>2, <1>i
<1>6. ~PackageAt(text, line + 1) /\ package = "" /\ ~inDescription
  BY <1>1, <1>4, Place, InPackages DEF l
<1>7. SectionInv'
  <2>1. \A j : Open(text', line', j) /\ text[j].indent = 0
                <=> Open(text, line, j) /\ text[j].indent = 0
    BY <1>3, <1>i, <1>5
  <2>. QED BY <1>1, <1>2, <2>1, StandsBelow, Zenon DEF SectionInv
<1>8. PackageInv'
  <2>1. ~\E j : Open(text', line', j) /\ PackageAt(text, j)
    <3>1. \A j : PackageAt(text, j) => text[j].indent = 2
      BY Columns
    <3>2. ~PackageAt(text, line + 1)
      BY <1>6
    <3>. QED BY <1>5, <3>1, <3>2
  <2>. QED BY <1>1, <1>2, <1>6, <2>1, Zenon DEF PackageInv
<1>9. DescriptionInv'
  <2>1. ~\E j : Open(text', line', j) /\ MapAt(text, j)
    BY <1>3, <1>i, <1>5, Columns
  <2>. QED BY <1>1, <1>2, <1>6, <2>1, Zenon DEF DescriptionInv
<1>10. ReadsAsIndented'
  <2>1. /\ DeclaredBy(text, line + 1) = declared
        /\ MappedBy(text, line + 1) = mapped
        /\ FieldsBy(text, line + 1) = fields
        /\ NestedBy(text, line + 1) = nested
    BY <1>1, <1>4, Reads, Zenon DEF l
  <2>. QED BY <1>1, <1>2, <2>1, Zenon DEF ReadsAsIndented
<1>. QED BY <1>7, <1>8, <1>9, <1>10

LEMMA LineType ==
    ASSUME TypeOK
    PROVE  line \in Nat /\ Len(text) \in Nat /\ text \in Seq(Line)
<1>1. text \in Seq(Line)
  BY DEF TypeOK
<1>2. Len(text) \in Nat
  BY <1>1, LenProperties
<1>3. line \in 0..Len(text)
  BY DEF TypeOK
<1>4. line \in Nat
  BY <1>2, <1>3
<1>. QED BY <1>1, <1>2, <1>4

(* A blank line is skipped: it owns nothing and leaves every line open. *)
LEMMA BlankStep ==
    ASSUME IInv, SkipLine
    PROVE  /\ EvenTo(text', line') /\ RefusesIllFormed'
           /\ SectionInv' /\ PackageInv' /\ DescriptionInv' /\ ReadsAsIndented'
<1>1. /\ status = "reading" /\ text[line + 1].form = "blank"
      /\ text' = text /\ line' = line + 1 /\ status' = status
      /\ section' = section /\ package' = package
      /\ inDescription' = inDescription /\ declared' = declared
      /\ fields' = fields /\ mapped' = mapped /\ nested' = nested
  BY DEF SkipLine, AtLine, NextLine, Advance, memory, contents
<1>2. line \in Nat /\ text \in Seq(Line)
  BY LineType DEF IInv
<1>3. ~Content(text, line + 1)
  BY <1>1 DEF Content
<1>4. \A i \in 1..(line + 1) : i \in 1..line \/ i = line + 1
  BY <1>2
<1>5. EvenTo(text, line + 1)
  BY <1>3, <1>4 DEF IInv, EvenTo
<1>6. \A i \in 1..(line + 1) : WellFormed(text, i)
  <2>1. WellFormed(text, line + 1)
    BY <1>1 DEF WellFormed
  <2>. QED BY <1>4, <2>1 DEF IInv, RefusesIllFormed
<1>7. RefusesIllFormed'
  BY <1>1, <1>6 DEF RefusesIllFormed
<1>8. \A j : Open(text', line', j) <=> Open(text, line, j)
  BY <1>1, <1>2, <1>3, OpenStep
<1>9. SectionInv' /\ PackageInv' /\ DescriptionInv'
  BY <1>1, <1>8, Zenon DEF IInv, SectionInv, PackageInv, DescriptionInv
<1>10. ReadsAsIndented'
  <2>1. /\ ~PackageAt(text, line + 1) /\ ~FieldAt(text, line + 1)
        /\ ~MapAt(text, line + 1) /\ ~NestedAt(text, line + 1)
    BY <1>3 DEF PackageAt, UnderHeader, MapAt, FieldAt, NestedAt, HasOwner
  <2>2. /\ declared = DeclaredBy(text, line) /\ mapped = MappedBy(text, line)
        /\ fields = FieldsBy(text, line) /\ nested = NestedBy(text, line)
    BY DEF IInv, ReadsAsIndented
  <2>3. /\ DeclaredBy(text, line + 1) = declared
        /\ MappedBy(text, line + 1) = mapped
        /\ FieldsBy(text, line + 1) = fields
        /\ NestedBy(text, line + 1) = nested
    <3>1. /\ DeclaredBy(text, line + 1) = declared \cup {}
          /\ MappedBy(text, line + 1) = mapped \cup {}
          /\ FieldsBy(text, line + 1) = fields \cup {}
          /\ NestedBy(text, line + 1) = nested \cup {}
      BY <1>2, <2>1, <2>2, ByStep, Zenon
    <3>. QED BY <3>1
  <2>. QED BY <1>1, <2>3, Zenon DEF ReadsAsIndented
<1>. QED BY <1>1, <1>5, <1>7, <1>9, <1>10

LEMMA InvInit == ASSUME Init PROVE IInv
<1>1. TypeOK
  BY TypeInit
<1>0. \A j : j \notin 1..0
  OBVIOUS
<1>2. line = 0 /\ status = "reading" /\ \A j : ~Open(text, line, j)
  BY <1>0, Zenon DEF Init, Start, Open
<1>3. EvenTo(text, line) /\ RefusesIllFormed
  BY <1>2 DEF EvenTo, RefusesIllFormed
<1>4. SectionInv /\ PackageInv /\ DescriptionInv
  BY <1>2 DEF Init, Start, SectionInv, PackageInv, DescriptionInv
<1>5. ReadsAsIndented
  <2>1. /\ DeclaredBy(text, 0) = {} /\ MappedBy(text, 0) = {}
        /\ FieldsBy(text, 0) = {} /\ NestedBy(text, 0) = {}
    BY <1>0 DEF DeclaredBy, MappedBy, FieldsBy, NestedBy
  <2>. QED BY <1>2, <2>1 DEF Init, Start, ReadsAsIndented
<1>. QED BY <1>1, <1>2, <1>3, <1>4, <1>5 DEF IInv

LEMMA InvStep == ASSUME IInv, [Next]_vars PROVE IInv'
<1>1. TypeOK'
  BY TypeStep DEF IInv
<1>2. ASSUME AtLine("entry"), Advance,
             \/ IsSection(NextLine) \/ IsPackage(NextLine) \/ IsField(NextLine)
             \/ IsNested(NextLine) \/ IsSdk(NextLine),
             SectionInv' /\ PackageInv' /\ DescriptionInv' /\ ReadsAsIndented'
      PROVE  IInv'
  <2>1. EvenTo(text', line') /\ RefusesIllFormed' /\ status' = "reading"
    BY <1>2, Taken
  <2>. QED BY <1>1, <1>2, <2>1 DEF IInv
<1>3. ASSUME UNCHANGED <<text, line, section, package, inDescription,
                         declared, fields, mapped, nested>>
      PROVE  /\ EvenTo(text', line') /\ ReadsAsIndented'
             /\ SectionInv' /\ PackageInv' /\ DescriptionInv'
  BY <1>3, Zenon DEF IInv, SectionInv, PackageInv, DescriptionInv, ReadsAsIndented
<1>4. CASE SkipLine
  <2>1. status' = "reading"
    BY <1>4 DEF SkipLine, AtLine, Advance
  <2>. QED BY <1>1, <1>4, <2>1, BlankStep DEF IInv
<1>5. CASE ReadSection
  BY <1>2, <1>5, SectionStep DEF ReadSection
<1>6. CASE ReadPackage
  BY <1>2, <1>6, PackageStep DEF ReadPackage
<1>7. CASE ReadField
  BY <1>2, <1>7, FieldStep DEF ReadField
<1>8. CASE ReadNested
  BY <1>2, <1>8, NestedStep DEF ReadNested
<1>9. CASE ReadSdk
  BY <1>2, <1>9, SdkStep DEF ReadSdk
<1>10. CASE Refuse
  <2>1. ~WellFormed(text, line + 1)
    <3>1. CASE AtLine("unreadable")
      BY <3>1 DEF AtLine, NextLine, WellFormed, Content, PackageAt, UnderHeader,
                  FieldAt, NestedAt, SdkAt, HasOwner
    <3>2. CASE AtLine("entry")
      BY <1>10, <3>2, Shape DEF Refuse, AtLine
    <3>. QED BY <1>10, <3>1, <3>2 DEF Refuse
  <2>2. text' = text /\ line' = line /\ status' = "failed"
    BY <1>10 DEF Refuse
  <2>3. RefusesIllFormed'
    BY <2>1, <2>2 DEF IInv, RefusesIllFormed
  <2>4. UNCHANGED <<text, line, section, package, inDescription,
                    declared, fields, mapped, nested>>
    BY <1>10 DEF Refuse, memory, contents
  <2>. QED BY <1>1, <1>3, <2>2, <2>3, <2>4 DEF IInv
<1>11. CASE EndOfText \/ Resolve \/ FailToResolve
  <2>1. text' = text /\ line' = line /\ line = Len(text)
    BY <1>11 DEF EndOfText, Resolve, FailToResolve, IInv
  <2>2. RefusesIllFormed'
    <3>1. ~(line < Len(text))
      <4>1. line \in Nat
        BY LineType DEF IInv
      <4>. QED BY <2>1, <4>1
    <3>. QED BY <2>1, <3>1 DEF IInv, RefusesIllFormed
  <2>3. UNCHANGED <<text, line, section, package, inDescription,
                    declared, fields, mapped, nested>>
    BY <1>11 DEF EndOfText, Resolve, FailToResolve, memory, contents
  <2>. QED BY <1>1, <1>3, <2>1, <2>2, <2>3 DEF IInv
<1>12. CASE UNCHANGED vars
  <2>1. UNCHANGED <<text, line, section, package, inDescription,
                    declared, fields, mapped, nested>> /\ status' = status
    BY <1>12 DEF vars, memory, contents
  <2>2. RefusesIllFormed'
    BY <2>1 DEF IInv, RefusesIllFormed
  <2>. QED BY <1>1, <1>3, <2>1, <2>2 DEF IInv
<1>. QED BY <1>4, <1>5, <1>6, <1>7, <1>8, <1>9, <1>10, <1>11, <1>12 DEF Next

LEMMA Invariant == Spec => []IInv
<1>1. Init => IInv
  BY InvInit
<1>2. IInv /\ [Next]_vars => IInv'
  BY InvStep
<1>. QED BY <1>1, <1>2, PTL DEF Spec

(* parse_pubspec_lock, for every text: what its three variables collect line by
   line is what the indentation of the text says, and they keep their types; it
   refuses a line exactly when the line has no place in pub's shape. *)
THEOREM ReaderCorrect == Spec => []ReaderIsExact
<1>1. IInv => ReaderIsExact
  BY DEF IInv, ReaderIsExact
<1>. QED BY <1>1, Invariant, PTL

-----------------------------------------------------------------------------
(* What has resolved was accepted, entry by entry. *)
ResolvedInv ==
    status = "resolved" => /\ resolved = {Entry(p) : p \in declared}
                           /\ \A p \in declared : Accepts(p)

(* Entries depend on what was read alone. *)
LEMMA SameEntries ==
    ASSUME fields' = fields, mapped' = mapped, nested' = nested, NEW p
    PROVE  Entry(p)' = Entry(p) /\ (Accepts(p)' <=> Accepts(p))
<1>1. \A k : Get(fields, p, k)' = Get(fields, p, k)
  BY Zenon
<1>2. Source(p)' = Source(p) /\ Version(p)' = Version(p)
  BY <1>1, Zenon DEF Source, Version
<1>3. \A k : Description(p, k)' = Description(p, k)
  BY Zenon DEF Description
<1>4. Entry(p)' = Entry(p)
  <2>. DEFINE src == Source(p)
              ver == Version(p)
              sha == Description(p, "sha256")
              place == Description(p, "path")
              dep == Get(fields, p, "dependency")
  <2>1. src' = src /\ ver' = ver /\ sha' = sha /\ place' = place /\ dep' = dep
    BY <1>1, <1>2, <1>3, Zenon
  <2>2. Entry(p) = [name |-> p, source |-> src, version |-> ver,
                    direct |-> dep \in {"direct main", "direct dev"},
                    where |-> CASE src = "hosted" -> sha
                                [] src = "path"   -> place
                                [] OTHER          -> ""]
    BY Zenon DEF Entry
  <2>3. Entry(p)' = [name |-> p, source |-> src', version |-> ver',
                     direct |-> dep' \in {"direct main", "direct dev"},
                     where |-> CASE src' = "hosted" -> sha'
                                 [] src' = "path"   -> place'
                                 [] OTHER           -> ""]
    BY Zenon DEF Entry
  <2>. HIDE DEF src, ver, sha, place, dep
  <2>. QED BY <2>1, <2>2, <2>3, Zenon
<1>5. IsHosted(p)' <=> IsHosted(p)
  BY <1>2, <1>3 DEF IsHosted
<1>6. (IsOfSdk(p)' <=> IsOfSdk(p)) /\ (IsPath(p)' <=> IsPath(p))
  BY <1>1, <1>2, <1>3 DEF IsOfSdk, IsPath
<1>. QED BY <1>4, <1>5, <1>6 DEF Accepts

LEMMA ResolvedStep == ASSUME ResolvedInv, [Next]_vars PROVE ResolvedInv'
<1>1. CASE SkipLine \/ ReadSection \/ ReadPackage \/ ReadField \/ ReadNested
           \/ ReadSdk
  <2>1. status' = "reading"
    BY <1>1 DEF SkipLine, ReadSection, ReadPackage, ReadField, ReadNested,
                ReadSdk, AtLine, Advance
  <2>. QED BY <2>1 DEF ResolvedInv
<1>2. CASE Refuse \/ EndOfText \/ FailToResolve
  <2>1. status' # "resolved"
    BY <1>2 DEF Refuse, EndOfText, FailToResolve
  <2>. QED BY <2>1 DEF ResolvedInv
<1>3. CASE Resolve
  <2>1. /\ declared' = declared /\ fields' = fields
        /\ mapped' = mapped /\ nested' = nested
        /\ resolved' = {Entry(p) : p \in declared}
        /\ \A p \in declared : Accepts(p)
    BY <1>3 DEF Resolve, contents
  <2>2. \A p : Entry(p)' = Entry(p) /\ (Accepts(p)' <=> Accepts(p))
    BY <2>1, SameEntries
  <2>. QED BY <2>1, <2>2, Zenon DEF ResolvedInv
<1>4. CASE UNCHANGED vars
  <2>1. /\ declared' = declared /\ fields' = fields
        /\ mapped' = mapped /\ nested' = nested
        /\ resolved' = resolved /\ status' = status
    BY <1>4 DEF vars, contents
  <2>2. \A p : Entry(p)' = Entry(p) /\ (Accepts(p)' <=> Accepts(p))
    BY <2>1, SameEntries
  <2>. QED BY <2>1, <2>2, Zenon DEF ResolvedInv
<1>. QED BY <1>1, <1>2, <1>3, <1>4 DEF Next

(* A package has one description. *)
LEMMA OneMap ==
    ASSUME IInv, NEW m \in 1..line, NEW n \in 1..line,
           MapAt(text, m), MapAt(text, n),
           PackageOfField(text, m) = PackageOfField(text, n)
    PROVE  ~(m < n)
<1>. SUFFICES ASSUME m < n PROVE FALSE
  OBVIOUS
<1>1. m \in 1..(n - 1)
  <2>1. line \in Nat
    BY LineType DEF IInv
  <2>. QED BY <2>1
<1>2. /\ FieldAt(text, m) /\ FieldAt(text, n) /\ text[m].key = text[n].key
      /\ text[n].indent = 4 /\ text[n].form = "entry"
  BY DEF MapAt, Opens, FieldAt, HasOwner, Content
<1>3. /\ ~IsSection(text[n]) /\ ~PackageAt(text, n) /\ ~NestedAt(text, n)
      /\ ~SdkAt(text, n) /\ text[n].form # "blank"
  BY <1>2 DEF IsSection, PackageAt, SdkAt, UnderHeader, NestedAt
<1>4. WellFormed(text, n)
  BY DEF IInv, RefusesIllFormed
<1>. QED BY <1>1, <1>2, <1>3, <1>4, Zenon DEF WellFormed

(* A field of a description that Get finds stands in the text. *)
LEMMA NestedStands ==
    ASSUME IInv, NEW p, NEW k, Description(p, k) # ""
    PROVE  \E i \in 1..line : /\ NestedAt(text, i) /\ text[i].key = k
                               /\ Scalar(text[i].value) = Description(p, k)
                               /\ PackageOfNested(text, i) = p
<1>0. Description(p, k) = Get(nested, p, k)
  BY DEF Description
<1>1. PICK f \in nested : f[1] = p /\ f[2] = k /\ f[3] = Description(p, k)
  <2>1. Get(nested, p, k) # ""
    BY <1>0
  <2>2. \E f \in nested : f[1] = p /\ f[2] = k /\ f[3] = Get(nested, p, k)
    BY <2>1, Zenon DEF Get
  <2>. QED BY <1>0, <2>2, Zenon
<1>2. PICK i \in 1..line :
         NestedAt(text, i) /\ f = Triple(PackageOfNested(text, i), text[i])
  BY <1>1 DEF IInv, ReadsAsIndented, NestedBy
<1>3. /\ f[1] = PackageOfNested(text, i) /\ f[2] = text[i].key
      /\ f[3] = Scalar(text[i].value)
  BY <1>2 DEF Triple
<1>. QED BY <1>1, <1>2, <1>3

LEMMA Pinned == ASSUME IInv, ResolvedInv PROVE PinnedByItself
<1>. SUFFICES ASSUME status = "resolved"
              PROVE  PinnedByItself
  BY DEF PinnedByItself
<1>1. line = Len(text) /\ line \in Nat
  BY LineType DEF IInv
<1>2. resolved = {Entry(p) : p \in declared} /\ \A p \in declared : Accepts(p)
  BY DEF ResolvedInv
<1>3. \A p : /\ Entry(p).name = p /\ Entry(p).source = Source(p)
             /\ Source(p) = "hosted" => Entry(p).where = Description(p, "sha256")
  BY DEF Entry
<1>4. ASSUME NEW i \in 1..Len(text), PackageAt(text, i)
      PROVE  \E e \in resolved :
                /\ e.name = text[i].key
                /\ \A f \in resolved : f.name = e.name => f = e
  <2>1. text[i].key \in declared
    BY <1>1, <1>4 DEF IInv, ReadsAsIndented, DeclaredBy
  <2>2. Entry(text[i].key) \in resolved
    BY <1>2, <2>1
  <2>3. \A f \in resolved : f = Entry(f.name)
    BY <1>2, <1>3, Zenon
  <2>. QED BY <1>3, <2>2, <2>3, Zenon
<1>5. ASSUME NEW e \in resolved, e.source = "hosted"
      PROVE  \E i, k \in 1..Len(text) :
                /\ NestedAt(text, i) /\ text[i].key = "sha256"
                /\ e.where = Scalar(text[i].value) /\ e.where \in Digests
                /\ NestedAt(text, k) /\ text[k].key = "name"
                /\ Scalar(text[k].value) = e.name
                /\ Owner(text, k) = Owner(text, i)
                /\ PackageOfNested(text, i) = e.name
  <2>1. PICK p \in declared : e = Entry(p)
    BY <1>2
  <2>2. e.name = p /\ Source(p) = "hosted" /\ e.where = Description(p, "sha256")
    BY <1>3, <1>5, <2>1
  <2>3. Accepts(p)
    BY <1>2
  <2>4. /\ p \in PackageNames /\ Description(p, "name") = p
        /\ Description(p, "sha256") \in Digests
    BY <2>2, <2>3 DEF Accepts, IsHosted, IsOfSdk, IsPath
  <2>5. Description(p, "name") # "" /\ Description(p, "sha256") # ""
    BY <2>4, LockAssumption
  <2>6. PICK i \in 1..line : /\ NestedAt(text, i) /\ text[i].key = "sha256"
                             /\ Scalar(text[i].value) = Description(p, "sha256")
                             /\ PackageOfNested(text, i) = p
    BY <2>5, NestedStands
  <2>7. PICK k \in 1..line : /\ NestedAt(text, k) /\ text[k].key = "name"
                             /\ Scalar(text[k].value) = Description(p, "name")
                             /\ PackageOfNested(text, k) = p
    BY <2>5, NestedStands
  <2>8. ASSUME NEW j \in 1..line, NestedAt(text, j), PackageOfNested(text, j) = p
        PROVE  /\ Owner(text, j) \in 1..line /\ MapAt(text, Owner(text, j))
               /\ PackageOfField(text, Owner(text, j)) = p
    <3>1. HasOwner(text, j)
      BY <2>8 DEF NestedAt
    <3>2. Owner(text, j) \in 1..(j - 1)
      BY <3>1, OwnerType
    <3>. QED BY <1>1, <2>8, <3>2 DEF NestedAt, PackageOfNested
  <2>9. Owner(text, k) = Owner(text, i)
    <3>. DEFINE a == Owner(text, i)
                b == Owner(text, k)
    <3>1. /\ a \in 1..line /\ b \in 1..line /\ MapAt(text, a) /\ MapAt(text, b)
          /\ PackageOfField(text, a) = PackageOfField(text, b)
      BY <2>6, <2>7, <2>8
    <3>. HIDE DEF a, b
    <3>2. ~(a < b) /\ ~(b < a)
      BY <3>1, OneMap
    <3>3. a = b
      BY <1>1, <3>1, <3>2
    <3>. QED BY <3>3 DEF a, b
  <2>. QED BY <1>1, <2>2, <2>4, <2>6, <2>7, <2>9
<1>. QED BY <1>4, <1>5 DEF PinnedByItself

(* resolve_lock, for every text: what it returns of a hosted package is the digest
   of that package's own description, and it returns every package once. *)
THEOREM PinsCorrect == Spec => []PinnedByItself
<1>1. Init => ResolvedInv
  BY DEF Init, Start, ResolvedInv
<1>2. ResolvedInv /\ [Next]_vars => ResolvedInv'
  BY ResolvedStep
<1>3. IInv /\ ResolvedInv => PinnedByItself
  BY Pinned
<1>. QED BY <1>1, <1>2, <1>3, Invariant, PTL DEF Spec

-----------------------------------------------------------------------------
(* The second reader's memory and what it has found: the last line for a package, the last
   path line since, and a find for each line `source: path` that has both behind it.    *)
LastPackageLine(j, n) ==
    /\ j \in 1..n /\ IsPackageLine(text[j])
    /\ \A m \in (j + 1)..n : ~IsPackageLine(text[m])
LastPathLine(j, k, n) ==
    /\ k \in (j + 1)..n /\ IsPathLine(text[k])
    /\ \A m \in (k + 1)..n : ~IsPathLine(text[m])

PathHeld(j, n) ==
    \/ path = <<>> /\ \A m \in (j + 1)..n : ~IsPathLine(text[m])
    \/ \E k : LastPathLine(j, k, n) /\ path = Captured(text[k])
PackageHeld(n) ==
    \/ current = "" /\ \A m \in 1..n : ~IsPackageLine(text[m])
    \/ \E j : LastPackageLine(j, n) /\ current = text[j].key /\ PathHeld(j, n)

Finds(d, s) ==
    IsSourceLine(text[s]) /\ \E j, k : /\ LastPackageLine(j, s) /\ LastPathLine(j, k, s)
                                       /\ d = <<text[j].key, Captured(text[k])>>
FoundBy(n) == \A d : d \in found <=> \E s \in 1..n : Finds(d, s)

ScanInv ==
    /\ scanned \in 0..Len(text)
    /\ status # "resolved" => scanned = 0 /\ check = "scanning"
    /\ check # "scanning" => scanned = Len(text)
    /\ check = "passed" => \A d \in found : d[2] \in covered
    /\ PackageHeld(scanned) /\ FoundBy(scanned)

LEMMA OneLastPackage ==
    ASSUME NEW n \in Nat, NEW i, NEW j, LastPackageLine(i, n), LastPackageLine(j, n)
    PROVE  i = j
<1>1. i \in 1..n /\ j \in 1..n
  BY DEF LastPackageLine
<1>2. ~(i < j) /\ ~(j < i)
  BY <1>1 DEF LastPackageLine
<1>. QED BY <1>1, <1>2

LEMMA OneLastPath ==
    ASSUME NEW n \in Nat, NEW j \in Nat, NEW i, NEW k, LastPathLine(j, i, n), LastPathLine(j, k, n)
    PROVE  i = k
<1>1. i \in (j + 1)..n /\ k \in (j + 1)..n
  BY DEF LastPathLine
<1>2. ~(i < k) /\ ~(k < i)
  BY <1>1 DEF LastPathLine
<1>. QED BY <1>1, <1>2

LEMMA LinesApart ==
    ASSUME NEW l
    PROVE  /\ IsPackageLine(l) => ~IsPathLine(l) /\ ~IsSourceLine(l)
           /\ IsPathLine(l) => ~IsSourceLine(l)
BY DEF IsPackageLine, IsPathLine, IsSourceLine

(* A line more: what is last stays last, unless the line is of its kind. *)
LEMMA LastStays ==
    ASSUME NEW n \in Nat
    PROVE  /\ \A j : ~IsPackageLine(text[n + 1]) => (LastPackageLine(j, n + 1) <=> LastPackageLine(j, n))
           /\ \A j \in 1..n : \A k : ~IsPathLine(text[n + 1]) => (LastPathLine(j, k, n + 1) <=> LastPathLine(j, k, n))
           /\ IsPackageLine(text[n + 1]) => LastPackageLine(n + 1, n + 1)
           /\ \A j \in 1..n : IsPathLine(text[n + 1]) => LastPathLine(j, n + 1, n + 1)
<1>1. \A j \in 1..n : \A m : m \in (j + 1)..(n + 1) <=> m \in (j + 1)..n \/ m = n + 1
  OBVIOUS
<1>2. \A m : m \in (n + 2)..(n + 1) => FALSE
  OBVIOUS
<1>3. \A j : j \in 1..(n + 1) <=> j \in 1..n \/ j = n + 1
  OBVIOUS
<1>4. \A j \in 1..n : \A k \in (j + 1)..n : \A m : m \in (k + 1)..(n + 1) <=> m \in (k + 1)..n \/ m = n + 1
  OBVIOUS
<1>5. (n + 1) + 1 = n + 2
  OBVIOUS
<1>6. ASSUME NEW j, ~IsPackageLine(text[n + 1])
      PROVE  LastPackageLine(j, n + 1) <=> LastPackageLine(j, n)
  BY <1>1, <1>3, <1>6 DEF LastPackageLine
<1>7. ASSUME NEW j \in 1..n, NEW k, ~IsPathLine(text[n + 1])
      PROVE  LastPathLine(j, k, n + 1) <=> LastPathLine(j, k, n)
  BY <1>1, <1>4, <1>7 DEF LastPathLine
<1>8. IsPackageLine(text[n + 1]) => LastPackageLine(n + 1, n + 1)
  BY <1>2, <1>3, <1>5 DEF LastPackageLine
<1>9. ASSUME NEW j \in 1..n, IsPathLine(text[n + 1])
      PROVE  LastPathLine(j, n + 1, n + 1)
  BY <1>1, <1>2, <1>5, <1>9 DEF LastPathLine
<1>. QED BY <1>6, <1>7, <1>8, <1>9

(* Where the scan is. *)
LEMMA ScanType ==
    ASSUME TypeOK, ScanInv
    PROVE  text \in Seq(Line) /\ Len(text) \in Nat /\ scanned \in Nat /\ scanned <= Len(text)
<1>1. text \in Seq(Line) /\ Len(text) \in Nat
  BY LineType
<1>2. scanned \in 0..Len(text)
  BY DEF ScanInv
<1>3. scanned \in Nat /\ scanned <= Len(text)
  BY <1>1, <1>2
<1>. QED BY <1>1, <1>3

(* What a line of each kind does to the memory and to what is found. *)
LEMMA HeldAndFound ==
    ASSUME TypeOK, ScanInv, Scanning, ScanOn, NEW n \in Nat, n = scanned,
           (PackageHeld(n + 1) /\ FoundBy(n + 1))'
    PROVE  ScanInv'
<1>1. /\ scanned' = n + 1 /\ text' = text /\ status' = status /\ check' = check
      /\ status = "resolved" /\ check = "scanning" /\ n < Len(text)
  BY DEF ScanOn, Scanning, vars
<1>2. Len(text) \in Nat
  BY ScanType
<1>3. n + 1 \in 0..Len(text)
  BY <1>1, <1>2
<1>4. \A m : m = n + 1 => (PackageHeld(m))' /\ (FoundBy(m))'
  OBVIOUS
<1>5. PackageHeld(scanned)' /\ FoundBy(scanned)'
  BY <1>1, <1>4
<1>. QED BY <1>1, <1>3, <1>5 DEF ScanInv

LEMMA ScanLineIs ==
    ASSUME TypeOK, ScanInv, Scanning, ScanOn
    PROVE  /\ scanned \in Nat /\ Scanned = text[scanned + 1] /\ text' = text
           /\ text[scanned + 1] \in Line
           /\ PackageHeld(scanned) /\ FoundBy(scanned)
<1>1. scanned \in Nat /\ Len(text) \in Nat /\ scanned < Len(text)
  BY ScanType DEF Scanning
<1>2. scanned + 1 \in 1..Len(text)
  BY <1>1
<1>3. text[scanned + 1] \in Line
  BY <1>2, ScanType
<1>. QED BY <1>1, <1>3 DEF ScanOn, vars, Scanned, ScanInv

(* Lines that are no `source: path` find nothing. *)
LEMMA FindsNothing ==
    ASSUME NEW n \in Nat, FoundBy(n), ~IsSourceLine(text[n + 1]), text' = text, found' = found
    PROVE  FoundBy(n + 1)'
<1>1. \A d, s : Finds(d, s)' <=> Finds(d, s)
  BY DEF Finds, LastPackageLine, LastPathLine
<1>2. \A s : s \in 1..(n + 1) <=> s \in 1..n \/ s = n + 1
  OBVIOUS
<1>3. \A d : ~Finds(d, n + 1)
  BY DEF Finds
<1>4. \A d : d \in found <=> \E s \in 1..(n + 1) : Finds(d, s)
  BY <1>2, <1>3 DEF FoundBy
<1>. QED BY <1>1, <1>4 DEF FoundBy

LEMMA ScanPackageOK == ASSUME TypeOK, ScanInv, ScanPackage PROVE ScanInv'
<1>. PICK n \in Nat : n = scanned
  BY ScanType
<1>1. /\ IsPackageLine(text[n + 1]) /\ current' = text[n + 1].key /\ path' = <<>>
      /\ text' = text /\ found' = found /\ FoundBy(n)
  BY ScanLineIs DEF ScanPackage
<1>2. LastPackageLine(n + 1, n + 1)
  BY <1>1, LastStays
<1>3. \A m \in (n + 2)..(n + 1) : ~IsPathLine(text[m])
  OBVIOUS
<1>4. (n + 1) + 1 = n + 2
  OBVIOUS
<1>5. PackageHeld(n + 1)'
  BY <1>1, <1>2, <1>3, <1>4 DEF PackageHeld, PathHeld, LastPackageLine
<1>6. FoundBy(n + 1)'
  BY <1>1, LinesApart, FindsNothing
<1>. QED BY <1>5, <1>6, HeldAndFound DEF ScanPackage

LEMMA ScanPathOK == ASSUME TypeOK, ScanInv, ScanPath PROVE ScanInv'
<1>. PICK n \in Nat : n = scanned
  BY ScanType
<1>1. /\ IsPathLine(text[n + 1]) /\ current' = current /\ path' = Captured(text[n + 1])
      /\ text' = text /\ found' = found /\ FoundBy(n) /\ PackageHeld(n)
  BY ScanLineIs DEF ScanPath
<1>2. ~IsPackageLine(text[n + 1]) /\ ~IsSourceLine(text[n + 1])
  BY <1>1, LinesApart
<1>3. (PackageHeld(n + 1))'
  <2>1. CASE current = "" /\ \A m \in 1..n : ~IsPackageLine(text[m])
    <3>1. \A m \in 1..(n + 1) : m \in 1..n \/ m = n + 1
      OBVIOUS
    <3>. QED BY <1>1, <1>2, <2>1, <3>1 DEF PackageHeld
  <2>2. ASSUME NEW j, LastPackageLine(j, n), current = text[j].key
        PROVE  (PackageHeld(n + 1))'
    <3>1. LastPackageLine(j, n + 1)
      BY <1>2, <2>2, LastStays
    <3>2. LastPathLine(j, n + 1, n + 1)
      BY <1>1, <2>2, LastStays DEF LastPackageLine
    <3>. QED BY <1>1, <2>2, <3>1, <3>2 DEF PackageHeld, PathHeld, LastPackageLine, LastPathLine
  <2>. QED BY <1>1, <2>1, <2>2 DEF PackageHeld
<1>4. FoundBy(n + 1)'
  BY <1>1, <1>2, FindsNothing
<1>. QED BY <1>3, <1>4, HeldAndFound DEF ScanPath

(* A line that is neither leaves the memory as it is. *)
LEMMA MemoryStays ==
    ASSUME NEW n \in Nat, PackageHeld(n), ~IsPackageLine(text[n + 1]), ~IsPathLine(text[n + 1]),
           text' = text, current' = current, path' = path
    PROVE  PackageHeld(n + 1)'
<1>1. CASE current = "" /\ \A m \in 1..n : ~IsPackageLine(text[m])
  <2>1. \A m \in 1..(n + 1) : m \in 1..n \/ m = n + 1
    OBVIOUS
  <2>. QED BY <1>1, <2>1 DEF PackageHeld
<1>2. ASSUME NEW j, LastPackageLine(j, n), current = text[j].key, PathHeld(j, n)
      PROVE  PackageHeld(n + 1)'
  <2>1. LastPackageLine(j, n + 1) /\ j \in 1..n
    BY <1>2, LastStays DEF LastPackageLine
  <2>2. PathHeld(j, n + 1)
    <3>1. \A m \in (j + 1)..(n + 1) : m \in (j + 1)..n \/ m = n + 1
      OBVIOUS
    <3>2. \A k : LastPathLine(j, k, n) => LastPathLine(j, k, n + 1)
      BY <2>1, LastStays
    <3>. QED BY <1>2, <3>1, <3>2 DEF PathHeld
  <2>3. LastPackageLine(j, n + 1)' /\ current' = text'[j].key
    BY <1>2, <2>1 DEF LastPackageLine
  <2>4. PathHeld(j, n + 1)'
    BY <2>2 DEF PathHeld, LastPathLine
  <2>. QED BY <2>3, <2>4 DEF PackageHeld
<1>. QED BY <1>1, <1>2 DEF PackageHeld

LEMMA ScanOtherOK == ASSUME TypeOK, ScanInv, ScanOther PROVE ScanInv'
<1>. PICK n \in Nat : n = scanned
  BY ScanType
<1>1. /\ ~IsPackageLine(text[n + 1]) /\ ~IsPathLine(text[n + 1]) /\ ~IsSourceLine(text[n + 1])
      /\ text' = text /\ found' = found /\ current' = current /\ path' = path
      /\ FoundBy(n) /\ PackageHeld(n)
  BY ScanLineIs DEF ScanOther
<1>2. PackageHeld(n + 1)'
  BY <1>1, MemoryStays
<1>3. FoundBy(n + 1)'
  BY <1>1, FindsNothing
<1>. QED BY <1>2, <1>3, HeldAndFound DEF ScanOther

LEMMA FindsIsHeld ==
    ASSUME TypeOK, NEW n \in Nat, n < Len(text), PackageHeld(n), IsSourceLine(text[n + 1]), NEW d
    PROVE  Finds(d, n + 1) <=> d = <<current, path>> /\ current # "" /\ path # <<>>
<1>1. ~IsPackageLine(text[n + 1]) /\ ~IsPathLine(text[n + 1])
  BY LinesApart
<1>2. \A j, k : LastPackageLine(j, n + 1) /\ LastPathLine(j, k, n + 1)
                   <=> LastPackageLine(j, n) /\ LastPathLine(j, k, n)
  BY <1>1, LastStays DEF LastPackageLine
<1>3. Finds(d, n + 1) <=> \E j, k : /\ LastPackageLine(j, n) /\ LastPathLine(j, k, n)
                                    /\ d = <<text[j].key, Captured(text[k])>>
  BY <1>2 DEF Finds
<1>4. CASE current = "" /\ \A m \in 1..n : ~IsPackageLine(text[m])
  BY <1>3, <1>4 DEF LastPackageLine
<1>5. ASSUME NEW j, LastPackageLine(j, n), current = text[j].key, PathHeld(j, n)
      PROVE  Finds(d, n + 1) <=> d = <<current, path>> /\ current # "" /\ path # <<>>
  <2>1. current # ""
    <3>1. j \in 1..n /\ text[j].form = "entry"
      BY <1>5 DEF LastPackageLine, IsPackageLine
    <3>0. text \in Seq(Line) /\ Len(text) \in Nat
      BY LineType
    <3>2. j \in 1..Len(text)
      BY <3>0, <3>1
    <3>3. text[j] \in Line
      BY <3>0, <3>2
    <3>. QED BY <1>5, <3>1, <3>3 DEF Line
  <2>2. \A i : LastPackageLine(i, n) => i = j
    BY <1>5, OneLastPackage
  <2>3. j \in Nat
    BY <1>5 DEF LastPackageLine
  <2>4. CASE path = <<>> /\ \A m \in (j + 1)..n : ~IsPathLine(text[m])
    <3>1. \A k : ~LastPathLine(j, k, n)
      BY <2>4 DEF LastPathLine
    <3>. QED BY <1>3, <2>2, <2>4, <3>1
  <2>5. ASSUME NEW k, LastPathLine(j, k, n), path = Captured(text[k])
        PROVE  Finds(d, n + 1) <=> d = <<current, path>> /\ current # "" /\ path # <<>>
    <3>1. path # <<>>
      BY <2>5 DEF Captured
    <3>2. \A i : LastPathLine(j, i, n) => i = k
      BY <2>3, <2>5, OneLastPath
    <3>3. Finds(d, n + 1) <=> d = <<text[j].key, Captured(text[k])>>
      BY <1>3, <1>5, <2>2, <2>5, <3>2
    <3>. QED BY <1>5, <2>1, <2>5, <3>1, <3>3
  <2>. QED BY <1>5, <2>4, <2>5 DEF PathHeld
<1>. QED BY <1>4, <1>5 DEF PackageHeld

LEMMA ScanSourceOK == ASSUME TypeOK, ScanInv, ScanSource PROVE ScanInv'
<1>. PICK n \in Nat : n = scanned
  BY ScanType
<1>1. /\ IsSourceLine(text[n + 1]) /\ text' = text /\ current' = current /\ path' = path
      /\ found' = found \cup {d \in {<<current, path>>} : current # "" /\ path # <<>>}
      /\ FoundBy(n) /\ PackageHeld(n) /\ n < Len(text)
  BY ScanLineIs DEF ScanSource, Scanning
<1>2. PackageHeld(n + 1)'
  BY <1>1, LinesApart, MemoryStays
<1>3. \A d : d \in found' <=> \E s \in 1..(n + 1) : Finds(d, s)
  <2>. TAKE d
  <2>1. Finds(d, n + 1) <=> d = <<current, path>> /\ current # "" /\ path # <<>>
    BY <1>1, FindsIsHeld
  <2>2. \A s : s \in 1..(n + 1) <=> s \in 1..n \/ s = n + 1
    OBVIOUS
  <2>3. d \in found <=> \E s \in 1..n : Finds(d, s)
    BY <1>1 DEF FoundBy
  <2>4. d \in found' <=> d \in found \/ (d = <<current, path>> /\ current # "" /\ path # <<>>)
    BY <1>1
  <2>. QED BY <2>1, <2>2, <2>3, <2>4
<1>4. \A d, s : Finds(d, s)' <=> Finds(d, s)
  BY <1>1 DEF Finds, LastPackageLine, LastPathLine
<1>5. FoundBy(n + 1)'
  BY <1>3, <1>4 DEF FoundBy
<1>. QED BY <1>2, <1>5, HeldAndFound DEF ScanSource

LEMMA CoverOK == ASSUME TypeOK, ScanInv, CheckCovered PROVE ScanInv'
<1>1. /\ status = "resolved" /\ scanned = Len(text) /\ check' \in {"passed", "failed"}
      /\ check' = "passed" => \A d \in found : d[2] \in covered'
      /\ UNCHANGED <<text, status, scanned, current, path, found>>
  BY DEF CheckCovered, vars
<1>2. \A d, s : Finds(d, s)' <=> Finds(d, s)
  BY <1>1 DEF Finds, LastPackageLine, LastPathLine
<1>3. FoundBy(scanned)' /\ PackageHeld(scanned)'
  <2>1. FoundBy(scanned) /\ PackageHeld(scanned)
    BY DEF ScanInv
  <2>2. FoundBy(scanned)'
    BY <1>1, <1>2, <2>1 DEF FoundBy
  <2>3. PackageHeld(scanned)'
    BY <1>1, <2>1 DEF PackageHeld, PathHeld, LastPackageLine, LastPathLine
  <2>. QED BY <2>2, <2>3
<1>. QED BY <1>1, <1>3 DEF ScanInv

LEMMA NoLineYet == \A m : m \notin 1..0
OBVIOUS

LEMMA StartsThere == \A n \in Nat : \A k : k = 0 => k \in 0..n
OBVIOUS

(* Before the first line, nothing is held and nothing found. *)
LEMMA NoneScanned ==
    PackageHeld(0) /\ FoundBy(0) <=> current = "" /\ found = {}
BY NoLineYet, Zenon DEF PackageHeld, FoundBy, LastPackageLine

(* While the first reader reads, the second has not begun. *)
LEMMA ReadFirst == ASSUME TypeOK, ScanInv, Next, UNCHANGED scanVars PROVE ScanInv'
<1>1. status # "resolved"
  BY DEF Next, SkipLine, ReadSection, ReadPackage, ReadField, ReadNested, ReadSdk, Refuse,
         EndOfText, Resolve, FailToResolve, AtLine
<1>2. UNCHANGED <<scanned, current, path, found, check>>
  BY DEF scanVars
<1>3. scanned = 0 /\ check = "scanning" /\ current = "" /\ found = {}
  <2>1. scanned = 0 /\ check = "scanning" /\ PackageHeld(scanned) /\ FoundBy(scanned)
    BY <1>1 DEF ScanInv
  <2>2. PackageHeld(0) /\ FoundBy(0)
    BY <2>1
  <2>. QED BY <2>1, <2>2, NoneScanned
<1>4. \A m : m = 0 => PackageHeld(m)' /\ FoundBy(m)'
  <2>1. (PackageHeld(0) /\ FoundBy(0))' <=> (current = "" /\ found = {})'
    BY NoLineYet, Zenon DEF PackageHeld, FoundBy, LastPackageLine
  <2>. QED BY <1>2, <1>3, <2>1
<1>5. PackageHeld(scanned)' /\ FoundBy(scanned)'
  BY <1>2, <1>3, <1>4
<1>6. TypeOK'
  BY TypeStep
<1>7. scanned' \in 0..Len(text')
  <2>1. text' \in Seq(Line)
    BY <1>6 DEF TypeOK
  <2>2. Len(text') \in Nat
    BY <2>1, LenProperties
  <2>3. scanned' = 0
    BY <1>2, <1>3
  <2>. QED BY <2>2, <2>3, StartsThere, Zenon
<1>. QED BY <1>2, <1>3, <1>5, <1>7 DEF ScanInv

LEMMA ScanKept == ASSUME TypeOK, ScanInv, UNCHANGED <<vars, scanVars>> PROVE ScanInv'
<1>1. UNCHANGED <<text, status, scanned, current, path, found, check, covered>>
  BY DEF vars, scanVars
<1>2. \A d, s : Finds(d, s)' <=> Finds(d, s)
  BY <1>1 DEF Finds, LastPackageLine, LastPathLine
<1>3. FoundBy(scanned)' <=> FoundBy(scanned)
  BY <1>1, <1>2 DEF FoundBy
<1>4. PackageHeld(scanned)' <=> PackageHeld(scanned)
  BY <1>1 DEF PackageHeld, PathHeld, LastPackageLine, LastPathLine
<1>. QED BY <1>1, <1>3, <1>4 DEF ScanInv

LEMMA ScanStep == ASSUME TypeOK, ScanInv, [PathNext]_<<vars, scanVars>> PROVE ScanInv'
BY ReadFirst, ScanPackageOK, ScanPathOK, ScanSourceOK, ScanOtherOK, CoverOK, ScanKept
   DEF PathNext

LEMMA ScanStart == ASSUME PathInit PROVE ScanInv
<1>1. /\ scanned = 0 /\ check = "scanning" /\ status # "resolved" /\ current = "" /\ found = {}
  BY DEF PathInit, ScanInit, Init, Start
<1>2. Len(text) \in Nat
  BY TypeInit, LineType DEF PathInit
<1>3. scanned \in 0..Len(text)
  BY <1>1, <1>2, StartsThere, Zenon
<1>4. PackageHeld(scanned) /\ FoundBy(scanned)
  BY <1>1, NoneScanned
<1>. QED BY <1>1, <1>3, <1>4 DEF ScanInv

(* A step of both is a step of the first reader, or none of its own. *)
LEMMA FirstReaderSteps == ASSUME [PathNext]_<<vars, scanVars>> PROVE [Next]_vars
BY DEF PathNext, ScanPackage, ScanPath, ScanSource, ScanOther, CheckCovered, ScanOn

-----------------------------------------------------------------------------
(* What the lines of a lock that resolved are to the first reader. *)
Accepted == IInv /\ ResolvedInv /\ status = "resolved"

LEMMA LinesAre ==
    ASSUME Accepted, NEW i \in 1..line
    PROVE  /\ IsPackageLine(text[i]) => PackageAt(text, i) \/ SdkAt(text, i)
           /\ IsPathLine(text[i]) => NestedAt(text, i)
           /\ IsSourceLine(text[i]) => FieldAt(text, i) /\ ~MapAt(text, i)
           /\ PackageAt(text, i) => IsPackageLine(text[i])
<1>1. WellFormed(text, i)
  BY DEF Accepted, IInv, RefusesIllFormed
<1>2. IsPackageLine(text[i]) => PackageAt(text, i) \/ SdkAt(text, i)
  <2>1. SUFFICES ASSUME IsPackageLine(text[i])
                 PROVE  PackageAt(text, i) \/ SdkAt(text, i)
    OBVIOUS
  <2>2. text[i].indent = 2 /\ text[i].form = "entry"
    BY <2>1 DEF IsPackageLine
  <2>3. /\ ~IsSection(text[i]) /\ ~FieldAt(text, i) /\ ~NestedAt(text, i)
        /\ text[i].form # "blank"
    BY <2>2 DEF IsSection, FieldAt, NestedAt
  <2>. QED BY <1>1, <2>3, Zenon DEF WellFormed
<1>3. IsPathLine(text[i]) => NestedAt(text, i)
  <2>1. SUFFICES ASSUME IsPathLine(text[i]) PROVE NestedAt(text, i)
    OBVIOUS
  <2>2. text[i].indent = 6 /\ text[i].form = "entry"
    BY <2>1 DEF IsPathLine
  <2>3. /\ ~IsSection(text[i]) /\ ~PackageAt(text, i) /\ ~FieldAt(text, i)
        /\ ~SdkAt(text, i) /\ text[i].form # "blank"
    BY <2>2 DEF IsSection, PackageAt, SdkAt, UnderHeader, FieldAt
  <2>. QED BY <1>1, <2>3, Zenon DEF WellFormed
<1>4. IsSourceLine(text[i]) => FieldAt(text, i) /\ ~MapAt(text, i)
  <2>1. SUFFICES ASSUME IsSourceLine(text[i]) PROVE FieldAt(text, i) /\ ~MapAt(text, i)
    OBVIOUS
  <2>2. text[i].indent = 4 /\ text[i].form = "entry" /\ text[i].key = "source"
    BY <2>1 DEF IsSourceLine
  <2>3. /\ ~IsSection(text[i]) /\ ~PackageAt(text, i) /\ ~NestedAt(text, i)
        /\ ~SdkAt(text, i) /\ text[i].form # "blank" /\ ~MapAt(text, i)
    BY <2>2 DEF IsSection, PackageAt, SdkAt, UnderHeader, NestedAt, MapAt, Opens
  <2>. QED BY <1>1, <2>3, Zenon DEF WellFormed
<1>5. PackageAt(text, i) => IsPackageLine(text[i])
  <2>1. SUFFICES ASSUME PackageAt(text, i) PROVE IsPackageLine(text[i])
    OBVIOUS
  <2>2. text[i].indent = 2 /\ text[i].form = "entry" /\ HasOwner(text, i)
    BY <2>1 DEF PackageAt, UnderHeader, HasOwner, Content
  <2>3. ~SdkAt(text, i)
    BY <2>1 DEF PackageAt, SdkAt, UnderHeader, HeaderAt
  <2>4. ~IsSection(text[i]) /\ ~FieldAt(text, i) /\ ~NestedAt(text, i) /\ text[i].form # "blank"
    BY <2>2 DEF IsSection, FieldAt, NestedAt
  <2>5. text[i].value = ""
    BY <1>1, <2>3, <2>4, Zenon DEF WellFormed
  <2>6. text[i].key \in declared
    BY <2>1 DEF Accepted, IInv, ReadsAsIndented, DeclaredBy
  <2>7. text[i].key \in Identifiers
    BY <2>6, ScanAssumption DEF Accepted, ResolvedInv, Accepts
  <2>. QED BY <2>2, <2>5, <2>7 DEF IsPackageLine
<1>. QED BY <1>2, <1>3, <1>4, <1>5

(* The lines below an owner are indented more than it, and package lines are not. *)
LEMMA FieldOwner ==
    ASSUME Accepted, NEW m \in 1..line, FieldAt(text, m)
    PROVE  /\ Owner(text, m) \in 1..(m - 1) /\ PackageAt(text, Owner(text, m))
           /\ LastPackageLine(Owner(text, m), m)
<1>0. line \in Nat /\ line = Len(text)
  BY LineType DEF Accepted, IInv
<1>. DEFINE o == Owner(text, m)
<1>1. o \in 1..(m - 1) /\ Parent(text, o, m) /\ PackageAt(text, o) /\ text[m].indent = 4
  BY OwnerType DEF FieldAt
<1>. HIDE DEF o
<1>2. \A k \in (o + 1)..m : ~IsPackageLine(text[k])
  <2>1. ASSUME NEW k \in (o + 1)..m, IsPackageLine(text[k]) PROVE FALSE
    <3>1. text[k].form = "entry" /\ text[k].indent = 2
      BY <2>1 DEF IsPackageLine
    <3>2. k # m
      BY <1>1, <3>1
    <3>3. k \in (o + 1)..(m - 1)
      BY <1>1, <3>2
    <3>4. text[k].indent >= text[m].indent
      BY <1>1, <3>1, <3>3 DEF Parent, Content
    <3>. QED BY <1>1, <3>1, <3>4
  <2>. QED BY <2>1
<1>3. o \in 1..line /\ o \in 1..m
  BY <1>0, <1>1
<1>4. LastPackageLine(o, m)
  BY <1>1, <1>2, <1>3, LinesAre DEF LastPackageLine
<1>. QED BY <1>1, <1>4 DEF o

LEMMA NestedOwner ==
    ASSUME Accepted, NEW m \in 1..line, NestedAt(text, m)
    PROVE  /\ Owner(text, m) \in 1..(m - 1) /\ FieldAt(text, Owner(text, m))
           /\ LastPackageLine(Owner(text, Owner(text, m)), m)
<1>0. line \in Nat
  BY LineType DEF Accepted, IInv
<1>. DEFINE q == Owner(text, m)
            o == Owner(text, q)
<1>1. /\ q \in 1..(m - 1) /\ Parent(text, q, m) /\ FieldAt(text, q) /\ text[q].indent = 4
      /\ text[m].indent = 6
  BY OwnerType DEF NestedAt, MapAt, FieldAt
<1>. HIDE DEF q
<1>2. q \in 1..line
  BY <1>0, <1>1
<1>3. o \in 1..(q - 1) /\ LastPackageLine(o, q)
  BY <1>1, <1>2, FieldOwner
<1>. HIDE DEF o
<1>4. \A k \in (o + 1)..m : ~IsPackageLine(text[k])
  <2>1. ASSUME NEW k \in (o + 1)..m, IsPackageLine(text[k]) PROVE FALSE
    <3>1. text[k].form = "entry" /\ text[k].indent = 2
      BY <2>1 DEF IsPackageLine
    <3>2. k # m
      BY <1>1, <3>1
    <3>3. CASE k \in (o + 1)..q
      BY <1>3, <2>1, <3>3 DEF LastPackageLine
    <3>4. CASE k \in (q + 1)..(m - 1)
      <4>1. text[k].indent >= text[m].indent
        BY <3>1, <3>4, <1>1 DEF Parent, Content
      <4>. QED BY <1>1, <3>1, <4>1
    <3>5. k \in (o + 1)..q \/ k \in (q + 1)..(m - 1)
      BY <1>1, <1>3, <3>2
    <3>. QED BY <3>3, <3>4, <3>5
  <2>. QED BY <2>1
<1>5. o \in 1..m
  BY <1>1, <1>3
<1>6. LastPackageLine(o, m)
  BY <1>3, <1>4, <1>5 DEF LastPackageLine
<1>. QED BY <1>1, <1>6 DEF q, o

(* A package has one line, one field of a key, and one key of its description. *)
LEMMA OneLine ==
    ASSUME IInv, NEW m \in 1..line, NEW n \in 1..line, PackageAt(text, m), PackageAt(text, n),
           text[m].key = text[n].key
    PROVE  ~(m < n)
<1>. SUFFICES ASSUME m < n PROVE FALSE
  OBVIOUS
<1>1. m \in 1..(n - 1)
  <2>1. line \in Nat
    BY LineType DEF IInv
  <2>. QED BY <2>1
<1>2. text[n].indent = 2 /\ text[n].form = "entry"
  BY DEF PackageAt, UnderHeader, HasOwner, Content
<1>3. /\ ~IsSection(text[n]) /\ ~FieldAt(text, n) /\ ~NestedAt(text, n)
      /\ ~SdkAt(text, n) /\ text[n].form # "blank"
  BY <1>2 DEF IsSection, PackageAt, SdkAt, UnderHeader, HeaderAt, FieldAt, NestedAt
<1>4. WellFormed(text, n)
  BY DEF IInv, RefusesIllFormed
<1>5. text[n].key \notin DeclaredBy(text, n - 1)
  BY <1>3, <1>4, Zenon DEF WellFormed
<1>. QED BY <1>1, <1>5, Zenon DEF DeclaredBy

LEMMA OneField ==
    ASSUME IInv, NEW m \in 1..line, NEW n \in 1..line, FieldAt(text, m), FieldAt(text, n),
           text[m].key = text[n].key, PackageOfField(text, m) = PackageOfField(text, n)
    PROVE  ~(m < n)
<1>. SUFFICES ASSUME m < n PROVE FALSE
  OBVIOUS
<1>1. m \in 1..(n - 1)
  <2>1. line \in Nat
    BY LineType DEF IInv
  <2>. QED BY <2>1
<1>2. text[n].indent = 4 /\ text[n].form = "entry"
  BY DEF FieldAt, HasOwner, Content
<1>3. /\ ~IsSection(text[n]) /\ ~PackageAt(text, n) /\ ~NestedAt(text, n)
      /\ ~SdkAt(text, n) /\ text[n].form # "blank"
  BY <1>2 DEF IsSection, PackageAt, SdkAt, UnderHeader, NestedAt
<1>4. WellFormed(text, n)
  BY DEF IInv, RefusesIllFormed
<1>. QED BY <1>1, <1>3, <1>4, Zenon DEF WellFormed

LEMMA OneNested ==
    ASSUME IInv, NEW m \in 1..line, NEW n \in 1..line, NestedAt(text, m), NestedAt(text, n),
           text[m].key = text[n].key, PackageOfNested(text, m) = PackageOfNested(text, n)
    PROVE  ~(m < n)
<1>. SUFFICES ASSUME m < n PROVE FALSE
  OBVIOUS
<1>1. m \in 1..(n - 1)
  <2>1. line \in Nat
    BY LineType DEF IInv
  <2>. QED BY <2>1
<1>2. text[n].indent = 6 /\ text[n].form = "entry"
  BY DEF NestedAt, HasOwner, Content
<1>3. /\ ~IsSection(text[n]) /\ ~PackageAt(text, n) /\ ~FieldAt(text, n)
      /\ ~SdkAt(text, n) /\ text[n].form # "blank"
  BY <1>2 DEF IsSection, PackageAt, SdkAt, UnderHeader, FieldAt
<1>4. WellFormed(text, n)
  BY DEF IInv, RefusesIllFormed
<1>. QED BY <1>1, <1>3, <1>4, Zenon DEF WellFormed

(* So what Get finds is the line's. *)
LEMMA GetIsOne ==
    ASSUME NEW rel, NEW f \in rel, NEW p, NEW k, f[1] = p, f[2] = k,
           \A g \in rel : g[1] = p /\ g[2] = k => g[3] = f[3]
    PROVE  Get(rel, p, k) = f[3]
<1>. DEFINE c == CHOOSE g \in rel : g[1] = p /\ g[2] = k
<1>1. c \in rel /\ c[1] = p /\ c[2] = k
  BY Zenon
<1>2. Get(rel, p, k) = c[3]
  BY Zenon DEF Get
<1>. QED BY <1>1, <1>2, Zenon

LEMMA FieldRead ==
    ASSUME IInv, NEW m \in 1..line, FieldAt(text, m), ~MapAt(text, m)
    PROVE  Get(fields, PackageOfField(text, m), text[m].key) = Scalar(text[m].value)
<1>. DEFINE f == Triple(PackageOfField(text, m), text[m])
<1>0. line \in Nat
  BY LineType DEF IInv
<1>1. f \in fields
  BY Zenon DEF IInv, ReadsAsIndented, FieldsBy
<1>2. f[1] = PackageOfField(text, m) /\ f[2] = text[m].key /\ f[3] = Scalar(text[m].value)
  BY DEF Triple
<1>3. ASSUME NEW g \in fields, g[1] = f[1], g[2] = f[2]
      PROVE  g[3] = f[3]
  <2>1. PICK n \in 1..line : FieldAt(text, n) /\ g = Triple(PackageOfField(text, n), text[n])
    BY Zenon DEF IInv, ReadsAsIndented, FieldsBy
  <2>2. PackageOfField(text, n) = PackageOfField(text, m) /\ text[n].key = text[m].key
    BY <1>2, <1>3, <2>1 DEF Triple
  <2>3. ~(m < n) /\ ~(n < m)
    BY <2>1, <2>2, OneField
  <2>4. m = n
    BY <1>0, <2>3
  <2>. QED BY <2>1, <2>4
<1>. HIDE DEF f
<1>. QED BY <1>1, <1>2, <1>3, GetIsOne

LEMMA NestedRead ==
    ASSUME IInv, NEW m \in 1..line, NestedAt(text, m)
    PROVE  Description(PackageOfNested(text, m), text[m].key) = Scalar(text[m].value)
<1>. DEFINE f == Triple(PackageOfNested(text, m), text[m])
<1>0. line \in Nat
  BY LineType DEF IInv
<1>1. f \in nested
  BY Zenon DEF IInv, ReadsAsIndented, NestedBy
<1>2. f[1] = PackageOfNested(text, m) /\ f[2] = text[m].key /\ f[3] = Scalar(text[m].value)
  BY DEF Triple
<1>3. ASSUME NEW g \in nested, g[1] = f[1], g[2] = f[2]
      PROVE  g[3] = f[3]
  <2>1. PICK n \in 1..line : NestedAt(text, n) /\ g = Triple(PackageOfNested(text, n), text[n])
    BY Zenon DEF IInv, ReadsAsIndented, NestedBy
  <2>2. PackageOfNested(text, n) = PackageOfNested(text, m) /\ text[n].key = text[m].key
    BY <1>2, <1>3, <2>1 DEF Triple
  <2>3. ~(m < n) /\ ~(n < m)
    BY <2>1, <2>2, OneNested
  <2>4. m = n
    BY <1>0, <2>3
  <2>. QED BY <2>1, <2>4
<1>. HIDE DEF f
<1>. QED BY <1>1, <1>2, <1>3, GetIsOne DEF Description

(* A field that Get finds stands in the text. *)
LEMMA FieldStands ==
    ASSUME IInv, NEW p, NEW k, Get(fields, p, k) # ""
    PROVE  \E i \in 1..line : /\ FieldAt(text, i) /\ text[i].key = k
                               /\ Scalar(text[i].value) = Get(fields, p, k)
                               /\ PackageOfField(text, i) = p
<1>1. PICK f \in fields : f[1] = p /\ f[2] = k /\ f[3] = Get(fields, p, k)
  BY Zenon DEF Get
<1>2. PICK i \in 1..line :
         FieldAt(text, i) /\ f = Triple(PackageOfField(text, i), text[i])
  BY <1>1, Zenon DEF IInv, ReadsAsIndented, FieldsBy
<1>3. /\ f[1] = PackageOfField(text, i) /\ f[2] = text[i].key
      /\ f[3] = Scalar(text[i].value)
  BY <1>2 DEF Triple
<1>. QED BY <1>1, <1>2, <1>3

-----------------------------------------------------------------------------
(* What the second finds, the first has resolved: the source line, the path line and the
   package line it remembers are the field, the description's field and the package.   *)
LEMMA FoundIsPath ==
    ASSUME Accepted, AsPubWrites, NEW d, NEW s \in 1..line, Finds(d, s)
    PROVE  \E e \in resolved :
              e.source = "path" /\ e.where # "" /\ d = <<e.name, <<e.where>>>>
<1>0. line \in Nat /\ IInv
  BY LineType DEF Accepted, IInv
<1>1. PICK j, k : /\ LastPackageLine(j, s) /\ LastPathLine(j, k, s)
                  /\ d = <<text[j].key, Captured(text[k])>>
  BY DEF Finds
<1>2. j \in 1..s /\ k \in (j + 1)..s /\ IsPathLine(text[k]) /\ IsSourceLine(text[s])
  BY <1>1 DEF LastPackageLine, LastPathLine, Finds
<1>3. k \in 1..line /\ j \in 1..line
  BY <1>0, <1>2
<1>4. FieldAt(text, s) /\ ~MapAt(text, s) /\ NestedAt(text, k)
  BY <1>2, <1>3, LinesAre
<1>. DEFINE o == Owner(text, s)
            q == Owner(text, Owner(text, k))
<1>5. LastPackageLine(o, s) /\ LastPackageLine(q, k) /\ PackageAt(text, o)
  BY <1>3, <1>4, FieldOwner, NestedOwner
<1>6. PackageOfField(text, s) = text[o].key /\ PackageOfNested(text, k) = text[q].key
  BY DEF PackageOfField, PackageOfNested
<1>. HIDE DEF o, q
<1>7. LastPackageLine(j, k)
  <2>1. j \in 1..k /\ \A m \in (j + 1)..k : m \in (j + 1)..s
    BY <1>0, <1>2
  <2>. QED BY <1>1, <2>1 DEF LastPackageLine
<1>8. o = j /\ q = j
  <2>1. s \in Nat /\ k \in Nat
    BY <1>0, <1>2
  <2>. QED BY <1>1, <1>5, <1>7, <2>1, OneLastPackage
<1>. DEFINE p == text[j].key
<1>9. p \in declared
  BY <1>0, <1>3, <1>5, <1>8 DEF IInv, ReadsAsIndented, DeclaredBy
<1>10. Source(p) = "path"
  <2>1. Get(fields, p, "source") = Scalar(text[s].value)
    BY <1>0, <1>2, <1>4, <1>6, <1>8, FieldRead DEF IsSourceLine
  <2>. QED BY <1>2, <2>1, ScanAssumption DEF Source, Scalar, IsSourceLine
<1>a. text[k].style \in {"plain", "double"}
  <2>1. k \in 1..Len(text)
    BY <1>3 DEF Accepted, IInv
  <2>. QED BY <1>2, <1>4, <2>1 DEF AsPubWrites, IsPathLine
<1>11. Description(p, "path") = text[k].value /\ text[k].value # ""
  <2>1. Description(p, "path") = Scalar(text[k].value)
    BY <1>0, <1>2, <1>3, <1>4, <1>6, <1>8, NestedRead DEF IsPathLine
  <2>2. text[k].value # "" /\ text[k].value # EmptyQuotes
    BY <1>2, <1>a DEF IsPathLine
  <2>. QED BY <2>1, <2>2 DEF Scalar
<1>. HIDE DEF p
<1>12. Entry(p).name = p /\ Entry(p).source = "path" /\ Entry(p).where = text[k].value
  BY <1>10, <1>11 DEF Entry
<1>13. Entry(p) \in resolved
  BY <1>9 DEF Accepted, ResolvedInv
<1>14. d = <<p, <<text[k].value>>>>
  BY <1>1, <1>a DEF p, Captured
<1>. QED BY <1>11, <1>12, <1>13, <1>14

(* And the other way, of a lock in pub's order: the path of a package is the last path
   before its source.                                                                   *)
FromPath(p) == p \in declared /\ Source(p) = "path" /\ Description(p, "path") # ""
LEMMA PathIsFound ==
    ASSUME Accepted, InPubsOrder, AsPubWrites, NEW p, FromPath(p)
    PROVE  \E s \in 1..line : Finds(<<p, <<Description(p, "path")>>>>, s)
<1>. DEFINE place == Description(p, "path")
<1>0. line \in Nat /\ IInv
  BY LineType DEF Accepted, IInv
<1>d. place # ""
  BY DEF FromPath
<1>3. PICK k \in 1..line : /\ NestedAt(text, k) /\ text[k].key = "path"
                           /\ Scalar(text[k].value) = place
                           /\ PackageOfNested(text, k) = p
  BY <1>0, <1>d, NestedStands
<1>. HIDE DEF place
<1>4. PICK s \in 1..line : /\ FieldAt(text, s) /\ text[s].key = "source"
                           /\ Scalar(text[s].value) = "path"
                           /\ PackageOfField(text, s) = p
  <2>1. Get(fields, p, "source") = "path"
    BY DEF Source, FromPath
  <2>2. \E i \in 1..line : /\ FieldAt(text, i) /\ text[i].key = "source"
                            /\ Scalar(text[i].value) = Get(fields, p, "source")
                            /\ PackageOfField(text, i) = p
    BY <1>0, <2>1, FieldStands
  <2>. QED BY <2>1, <2>2
<1>5. k < s /\ k \in Nat /\ s \in Nat
  <2>1. line = Len(text)
    BY DEF Accepted, IInv
  <2>2. k < s
    BY <1>3, <1>4, <2>1 DEF InPubsOrder
  <2>3. k \in Nat /\ s \in Nat
    BY LineType DEF Accepted, IInv
  <2>. QED BY <2>2, <2>3
<1>6. IsPathLine(text[k])
  <2>1. text[k].indent = 6 /\ text[k].form = "entry"
    BY <1>3 DEF NestedAt, HasOwner, Content
  <2>2. text[k].value # "" /\ text[k].value # EmptyQuotes
    BY <1>d, <1>3 DEF Scalar
  <2>. QED BY <1>3, <2>1, <2>2 DEF IsPathLine
<1>7. IsSourceLine(text[s])
  <2>1. text[s].indent = 4 /\ text[s].form = "entry"
    BY <1>4 DEF FieldAt, HasOwner, Content
  <2>2. s \in 1..Len(text)
    BY <1>4 DEF Accepted, IInv
  <2>3. text[s].style = "plain"
    BY <1>4, <2>2 DEF AsPubWrites
  <2>4. text[s].value = "path"
    BY <1>4 DEF Scalar
  <2>. QED BY <1>4, <2>1, <2>3, <2>4 DEF IsSourceLine
<1>. DEFINE o == Owner(text, s)
            r == Owner(text, k)
            q == Owner(text, r)
<1>8. /\ o \in 1..(s - 1) /\ PackageAt(text, o) /\ LastPackageLine(o, s)
      /\ text[o].key = p
  BY <1>4, FieldOwner DEF PackageOfField
<1>9. r \in 1..(k - 1) /\ FieldAt(text, r) /\ LastPackageLine(q, k) /\ text[q].key = p
  BY <1>3, NestedOwner DEF PackageOfField, PackageOfNested
<1>10. r \in 1..line
  <2>1. r \in 1..(k - 1) /\ k \in 1..line
    BY <1>3, <1>9
  <2>. QED BY <1>0, <2>1
<1>11. q \in 1..(r - 1) /\ PackageAt(text, q)
  BY <1>9, <1>10, FieldOwner
<1>. HIDE DEF o, r, q
<1>12. o = q
  <2>0. o \in 1..(s - 1) /\ s \in 1..line /\ q \in 1..(r - 1) /\ r \in 1..line
    BY <1>4, <1>8, <1>10, <1>11
  <2>1. o \in 1..line /\ q \in 1..line
    BY <1>0, <2>0
  <2>2. ~(o < q) /\ ~(q < o)
    BY <1>0, <1>8, <1>9, <1>11, <2>1, OneLine
  <2>. QED BY <2>1, <2>2
<1>13. k \in (o + 1)..s
  <2>1. r \in 1..(k - 1) /\ q \in 1..(r - 1)
    BY <1>9, <1>11
  <2>2. q \in Nat /\ q < k
    BY <1>5, <2>1
  <2>. QED BY <1>5, <1>12, <2>2
<1>14. \A m \in (k + 1)..s : ~IsPathLine(text[m])
  <2>1. ASSUME NEW m \in (k + 1)..s, IsPathLine(text[m]) PROVE FALSE
    <3>0. s \in 1..line /\ k \in 1..line /\ m \in (k + 1)..s
      BY <1>3, <1>4
    <3>1. m \in 1..line /\ m \in Nat /\ k < m
      BY <1>0, <3>0
    <3>2. NestedAt(text, m) /\ text[m].key = "path"
      BY <2>1, <3>1, LinesAre DEF IsPathLine
    <3>3. LastPackageLine(o, m)
      <4>1. o \in 1..m /\ \A i \in (o + 1)..m : i \in (o + 1)..s
        <5>1. o \in 1..(s - 1) /\ k \in (o + 1)..s /\ m \in (k + 1)..s
          BY <1>8, <1>13
        <5>. QED BY <1>5, <5>1
      <4>. QED BY <1>8, <4>1 DEF LastPackageLine
    <3>4. LastPackageLine(Owner(text, Owner(text, m)), m)
      BY <3>1, <3>2, NestedOwner
    <3>5. Owner(text, Owner(text, m)) = o
      BY <3>1, <3>3, <3>4, OneLastPackage
    <3>6. PackageOfNested(text, m) = p
      BY <1>8, <3>5 DEF PackageOfNested, PackageOfField
    <3>. QED BY <1>0, <1>3, <3>1, <3>2, <3>6, OneNested
  <2>. QED BY <2>1
<1>15. LastPathLine(o, k, s)
  BY <1>6, <1>13, <1>14 DEF LastPathLine
<1>16. Captured(text[k]) = <<place>>
  <2>1. k \in 1..Len(text)
    BY <1>3 DEF Accepted, IInv
  <2>2. text[k].style \in {"plain", "double"}
    BY <1>3, <2>1 DEF AsPubWrites
  <2>3. text[k].value = place
    BY <1>d, <1>3 DEF Scalar
  <2>. QED BY <2>2, <2>3 DEF Captured
<1>. QED BY <1>4, <1>7, <1>8, <1>15, <1>16 DEF Finds, place

LEMMA AgreeAtEnd ==
    ASSUME IInv, ResolvedInv, ScanInv
    PROVE  ReadersAgree
<1>. SUFFICES ASSUME check # "scanning", InPubsOrder, AsPubWrites PROVE ReadersAgree
  BY DEF ReadersAgree
<1>1. Accepted /\ scanned = Len(text) /\ line = Len(text) /\ scanned = line
  BY DEF Accepted, ScanInv, IInv
<1>2. \A d : d \in found <=> \E s \in 1..line : Finds(d, s)
  BY <1>1 DEF ScanInv, FoundBy
<1>. DEFINE paths == {<<e.name, <<e.where>>>> :
                    e \in {r \in resolved : r.source = "path" /\ r.where # ""}}
<1>3. \A d : d \in paths <=>
         \E e \in resolved : e.source = "path" /\ e.where # "" /\ d = <<e.name, <<e.where>>>>
  BY Zenon
<1>4. \A d : d \in found <=> d \in paths
  <2>1. \A d \in found : d \in paths
    BY <1>1, <1>2, <1>3, FoundIsPath
  <2>2. \A d \in paths : d \in found
    <3>1. ASSUME NEW e \in resolved, e.source = "path", e.where # ""
          PROVE  \E s \in 1..line : Finds(<<e.name, <<e.where>>>>, s)
      <4>1. PICK p \in declared : e = Entry(p)
        BY <1>1 DEF Accepted, ResolvedInv
      <4>2. e.name = p /\ Source(p) = "path"
        BY <3>1, <4>1 DEF Entry
      <4>3. e.where = Description(p, "path")
        BY <4>1, <4>2 DEF Entry
      <4>. QED BY <1>1, <3>1, <4>1, <4>2, <4>3, PathIsFound DEF FromPath
    <3>. QED BY <1>2, <1>3, <3>1
  <2>. QED BY <2>1, <2>2
<1>5. found = paths
  BY <1>4
<1>6. check = "passed" => \A d \in found : d[2] \in covered
  BY DEF ScanInv
<1>. HIDE DEF paths
<1>7. check = "passed" => \A d \in paths : d[2] \in covered
  BY <1>5, <1>6
<1>. QED BY <1>5, <1>7, Zenon DEF ReadersAgree, paths

(* check_path_deps and pub_lock_parser, which share nothing but the file: for every lock
   whose packages come in pub's order and whose sources and paths are written as pub writes
   them, the path dependencies the check asks for are those
   that were resolved, and the files of each are declared when it passes. *)
THEOREM ReadersAgreeCorrect == PathSpec => []ReadersAgree
<1>. DEFINE Both == IInv /\ ResolvedInv /\ ScanInv
<1>1. PathInit => Both
  BY InvInit, ScanStart DEF PathInit, Init, Start, ResolvedInv
<1>2. Both /\ [PathNext]_<<vars, scanVars>> => Both'
  BY InvStep, ResolvedStep, ScanStep, FirstReaderSteps DEF IInv
<1>3. Both => ReadersAgree
  BY AgreeAtEnd
<1>. QED BY <1>1, <1>2, <1>3, PTL DEF PathSpec

-----------------------------------------------------------------------------
(* The hub.  Its closure is at work, or done. *)
Closing == step \in {"close", "write", "written"}

EntriesOK ==
    /\ on \in HubProjects /\ IsFiniteSet(Names)
    /\ step \in {"root", "close", "write", "written"} => on.root \in Names

ReachedOK ==
    /\ reached \subseteq Reachable /\ on.root \in reached /\ frontier \subseteq reached
    /\ \A n \in reached \ frontier : DepsOf(n) \cap Names \subseteq reached

(* A round that leaves something to do has added a package. *)
RoundsOK ==
    /\ rounds \in Nat
    /\ frontier # {} => Cardinality(reached) >= rounds + 1

HubInv ==
    /\ EntriesOK
    /\ Closing => ReachedOK /\ RoundsOK
    /\ step \in {"write", "written"} => frontier = {}
    /\ step = "written" => out = Written

LEMMA ReachableIsClosed ==
    ASSUME on.root \in Names
    PROVE  IsClosed(Reachable)
<1>1. on.root \in Reachable
  BY DEF Reachable, IsClosed
<1>2. ASSUME NEW n \in Reachable, NEW d \in DepsOf(n) \cap Names
      PROVE  d \in Reachable
  BY <1>2 DEF Reachable, IsClosed
<1> QED BY <1>1, <1>2 DEF IsClosed

LEMMA ReachedIsAll ==
    ASSUME ReachedOK, frontier = {}
    PROVE  reached = Reachable
<1>1. reached \subseteq Names
  BY DEF ReachedOK, Reachable
<1>2. IsClosed(reached)
  BY DEF ReachedOK, IsClosed
<1>3. Reachable \subseteq reached
  BY <1>1, <1>2 DEF Reachable
<1> QED BY <1>3 DEF ReachedOK

LEMMA SameHub ==
    ASSUME UNCHANGED <<on, entries, reached>>
    PROVE  Names' = Names /\ Reachable' = Reachable /\ Written' = Written
BY DEF Names, Reachable, IsClosed, DepsOf, Written, Config, Others, Systems, PlatformsOf,
       WithPlatform, Metadata, ImplementingOn, DartPlugins

LEMMA HubKept ==
    ASSUME HubInv, UNCHANGED hubVars
    PROVE  HubInv'
<1>1. UNCHANGED <<on, step, entries, reached, frontier, rounds, out>>
  BY DEF hubVars
<1>2. Names' = Names /\ Reachable' = Reachable /\ Written' = Written
  BY <1>1, SameHub
<1> QED BY <1>1, <1>2 DEF HubInv, EntriesOK, ReachedOK, RoundsOK, Closing, DepsOf

(* Before the closure, only what the entries hold matters. *)
LEMMA PlacesOK ==
    ASSUME HubInv, step = "places",
           NEW name, NEW place, AddEntry(name, place), step' \in {"places", "root"},
           step' = "root" => name = on.root
    PROVE  HubInv'
<1>1. Names' = Names \cup {name} /\ on' = on
  BY DEF AddEntry, Names
<1>2. IsFiniteSet(Names')
  BY <1>1, FS_AddElement DEF HubInv, EntriesOK
<1>3. EntriesOK'
  BY <1>1, <1>2 DEF HubInv, EntriesOK
<1> QED BY <1>3 DEF HubInv, Closing

LEMMA RefusedOK ==
    ASSUME HubInv, Refused
    PROVE  HubInv'
<1>1. on' = on /\ Names' = Names /\ step' = "refused"
  BY DEF Refused, Names
<1> QED BY <1>1 DEF HubInv, EntriesOK, Closing

LEMMA StartOK ==
    ASSUME HubInv, StartClosure
    PROVE  HubInv'
<1>1. /\ step = "root" /\ step' = "close" /\ on' = on /\ Names' = Names
      /\ reached' = {on.root} /\ frontier' = {on.root} /\ rounds' = 0
      /\ Reachable' = Reachable
  BY DEF StartClosure, Names, Reachable, IsClosed, DepsOf
<1>2. on.root \in Names
  BY <1>1 DEF HubInv, EntriesOK
<1>3. ReachedOK'
  BY <1>1, <1>2, ReachableIsClosed DEF ReachedOK, IsClosed
<1>4. Cardinality(reached') = 1
  BY <1>1, FS_Singleton
<1> QED BY <1>1, <1>3, <1>4 DEF HubInv, EntriesOK, Closing, RoundsOK

(* A round takes what the frontier names; what it names nothing more of is closed. *)
LEMMA RoundOK ==
    ASSUME HubInv, CloseOnce
    PROVE  HubInv'
<1> DEFINE next == ((UNION {DepsOf(n) : n \in frontier}) \cap Names) \ reached
<1>1. /\ step = "close" /\ step' = "close" /\ frontier # {}
      /\ frontier' = next /\ reached' = reached \cup next /\ rounds' = rounds + 1
      /\ on' = on /\ entries' = entries /\ out' = out
  BY DEF CloseOnce
<1>2. /\ Names' = Names /\ Reachable' = Reachable
      /\ \A n : DepsOf(n)' = DepsOf(n)
  BY <1>1 DEF Names, Reachable, IsClosed, DepsOf
<1>3. EntriesOK /\ ReachedOK /\ RoundsOK
  BY <1>1 DEF HubInv, Closing
<1>4. reached' \subseteq Reachable'
  <2>1. on.root \in Names
    BY <1>1, <1>3 DEF EntriesOK
  <2>2. next \subseteq Reachable
    BY <1>3, <2>1, ReachableIsClosed DEF ReachedOK, IsClosed
  <2> QED BY <1>1, <1>2, <1>3, <2>2 DEF ReachedOK
<1>5. \A n \in reached' \ frontier' : (DepsOf(n) \cap Names)' \subseteq reached'
  <2> SUFFICES ASSUME NEW n \in reached, n \notin next
               PROVE  DepsOf(n) \cap Names \subseteq reached \cup next
    BY <1>1, <1>2
  <2>1. CASE n \in frontier
    BY <2>1
  <2>2. CASE n \notin frontier
    BY <1>3, <2>2 DEF ReachedOK
  <2> QED BY <2>1, <2>2
<1>6. ReachedOK'
  BY <1>1, <1>2, <1>3, <1>4, <1>5 DEF ReachedOK
<1>7. RoundsOK'
  <2>1. IsFiniteSet(reached) /\ Cardinality(reached) \in Nat /\ rounds \in Nat
        /\ Cardinality(reached) >= rounds + 1
    <3>1. reached \subseteq Names
      BY <1>3 DEF ReachedOK, Reachable
    <3> QED BY <1>1, <1>3, <3>1, FS_Subset, FS_CardinalityType DEF EntriesOK, RoundsOK
  <2>2. ASSUME next # {}
        PROVE  Cardinality(reached') >= rounds + 2
    <3>1. PICK n \in next : TRUE
      BY <2>2
    <3>2. Cardinality(reached \cup {n}) = Cardinality(reached) + 1 /\ IsFiniteSet(reached \cup {n})
      BY <2>1, <3>1, FS_AddElement
    <3>3. IsFiniteSet(reached') /\ reached \cup {n} \subseteq reached'
      <4>1. reached' \subseteq Names
        BY <1>1, <1>3 DEF ReachedOK, Reachable
      <4> QED BY <1>1, <1>3, <3>1, <4>1, FS_Subset DEF EntriesOK
    <3>4. Cardinality(reached \cup {n}) <= Cardinality(reached') /\ Cardinality(reached') \in Nat
      BY <3>3, FS_Subset, FS_CardinalityType
    <3> QED BY <2>1, <3>2, <3>4
  <2> QED BY <1>1, <2>1, <2>2 DEF RoundsOK
<1> QED BY <1>1, <1>2, <1>3, <1>6, <1>7 DEF HubInv, EntriesOK, Closing

(* After as many rounds as there are packages, a frontier that is not empty would make
   more packages than there are. *)
LEMMA StopOK ==
    ASSUME HubInv, StopClosure
    PROVE  HubInv'
<1>1. /\ step = "close" /\ step' = "write"
      /\ rounds = Cardinality(Names) \/ frontier = {}
      /\ UNCHANGED <<on, entries, reached, frontier, rounds, out>>
  BY DEF StopClosure
<1>2. EntriesOK /\ ReachedOK /\ RoundsOK
  BY <1>1 DEF HubInv, Closing
<1>3. frontier = {}
  <2>1. reached \subseteq Names /\ IsFiniteSet(Names)
    BY <1>2 DEF ReachedOK, Reachable, EntriesOK
  <2>2. /\ Cardinality(reached) <= Cardinality(Names)
        /\ Cardinality(Names) \in Nat /\ Cardinality(reached) \in Nat
    BY <2>1, FS_Subset, FS_CardinalityType
  <2> QED BY <1>1, <1>2, <2>2 DEF RoundsOK
<1>4. Names' = Names /\ Reachable' = Reachable
  BY <1>1 DEF Names, Reachable, IsClosed, DepsOf
<1> QED BY <1>1, <1>2, <1>3, <1>4 DEF HubInv, EntriesOK, ReachedOK, RoundsOK, Closing, DepsOf

LEMMA WriteOK ==
    ASSUME HubInv, Write
    PROVE  HubInv'
<1>1. /\ step = "write" /\ step' = "written" /\ out' = Written
      /\ UNCHANGED <<on, entries, reached, frontier, rounds>>
  BY DEF Write
<1>2. Names' = Names /\ Reachable' = Reachable /\ Written' = Written
  BY <1>1, SameHub
<1>3. EntriesOK /\ ReachedOK /\ RoundsOK /\ frontier = {}
  BY <1>1 DEF HubInv, Closing
<1> QED BY <1>1, <1>2, <1>3 DEF HubInv, EntriesOK, ReachedOK, RoundsOK, Closing, DepsOf

LEMMA HubStep == HubInv /\ [HubNext]_hubVars => HubInv'
<1> SUFFICES ASSUME HubInv, [HubNext]_hubVars PROVE HubInv'
  OBVIOUS
<1>1. ASSUME NEW p \in on.lock, PlaceInRepository(p) \/ PlaceByPath(p)
      PROVE  HubInv'
  BY <1>1, PlacesOK DEF PlaceInRepository, PlaceByPath, Unplaced
<1>2. ASSUME NEW p \in on.lock, RefusePath(p)
      PROVE  HubInv'
  BY <1>2, RefusedOK DEF RefusePath
<1>3. CASE AddRoot
  BY <1>3, PlacesOK DEF AddRoot
<1>4. CASE RefusePubspec \/ RefuseCount \/ RefuseSection \/ RefuseWrite
  BY <1>4, RefusedOK DEF RefusePubspec, RefuseCount, RefuseSection, RefuseWrite
<1>5. CASE StartClosure
  BY <1>5, StartOK
<1>6. CASE CloseOnce
  BY <1>6, RoundOK
<1>7. CASE StopClosure
  BY <1>7, StopOK
<1>8. CASE Write
  BY <1>8, WriteOK
<1>9. CASE UNCHANGED hubVars
  BY <1>9, HubKept
<1> QED BY <1>1, <1>2, <1>3, <1>4, <1>5, <1>6, <1>7, <1>8, <1>9 DEF HubNext

(* pub_hub: for every lock and every graph of its packages, cycles among them, the rounds
   of _plugin_dependency_graph end with exactly the packages the root reaches, and these
   are what the metadata and the release registrant take for a release build's. *)
THEOREM ReleaseIsReachedCorrect == HubSpec => []ReleaseIsReached
<1>1. HubInit => HubInv
  <2> SUFFICES ASSUME HubInit PROVE HubInv
    OBVIOUS
  <2>1. Names = {} /\ on \in HubProjects /\ step = "places"
    BY DEF HubInit, HubStart, Names
  <2> QED BY <2>1, FS_EmptySet DEF HubInv, EntriesOK, Closing
<1>2. HubInv => ReleaseIsReached
  <2> SUFFICES ASSUME HubInv, step = "written" PROVE ReleaseIsReached
    BY DEF ReleaseIsReached
  <2>1. reached = Reachable /\ out = Written /\ on.root \in Names
    BY ReachedIsAll DEF HubInv, Closing, EntriesOK
  <2>2. out.release = {d \in out.debug : d[1] \in Reachable}
    <3>1. /\ out.debug = UNION {DartPlugins(n) : n \in Others}
          /\ out.release = UNION {DartPlugins(n) : n \in Others \cap reached}
      BY <2>1 DEF Written
    <3>2. ASSUME NEW n, NEW d \in DartPlugins(n)
          PROVE  d[1] = n
      <4>1. PICK os : d = <<n, os>>
        BY Zenon DEF DartPlugins
      <4> QED BY <4>1
    <3> QED BY <2>1, <3>1, <3>2
  <2>3. ASSUME NEW os \in DOMAIN out.plugins, NEW i \in out.plugins[os]
        PROVE  i.dev = (i.name \notin Reachable) /\ (i.direct => ~i.dev)
    <3>1. PICK n \in WithPlatform(os) : i = Metadata(n, os)
      BY <2>1, <2>3 DEF Written
    <3>2. i.name = n /\ i.dev = (n \notin reached) /\ i.direct = (n \in DepsOf(on.root))
      BY <3>1 DEF Metadata
    <3>3. n \in Names
      BY DEF WithPlatform, Others
    <3>4. DepsOf(on.root) \cap Names \subseteq Reachable
      BY <2>1, ReachableIsClosed DEF IsClosed
    <3> QED BY <2>1, <3>2, <3>3, <3>4
  <2> QED BY <2>1, <2>2, <2>3 DEF ReleaseIsReached
<1> QED BY <1>1, <1>2, HubStep, PTL DEF HubSpec

-----------------------------------------------------------------------------
(* The readers of a pubspec (PubspecReader). *)
LEMMA MaxOf ==
    ASSUME NEW n \in Nat, NEW P, P \subseteq 1..n
    PROVE  /\ Max({0} \cup P) \in {0} \cup P
           /\ \A j \in P : j <= Max({0} \cup P)
           /\ (Max({0} \cup P) = 0 <=> P = {})
<1>. DEFINE Q == {0} \cup P
            T == {n - q : q \in Q}
<1>1. Q \subseteq 0..n /\ 0 \in Q
  OBVIOUS
<1>. HIDE DEF Q
<1>2. PICK x \in Q : \A y \in Q : x >= y
  <2>1. T \subseteq Nat /\ T # {}
    BY <1>1
  <2>2. PICK t \in T : \A m \in T : t <= m
    <3>. HIDE DEF T
    <3>. QED BY <2>1, LeastNumber
  <2>3. PICK q \in Q : t = n - q
    BY <2>2
  <2>4. ASSUME NEW y \in Q PROVE q >= y
    <3>1. n - q <= n - y
      BY <2>2, <2>3
    <3>2. q \in 0..n /\ y \in 0..n
      BY <1>1
    <3>. QED BY <3>1, <3>2
  <2>. QED BY <2>4
<1>3. Max(Q) \in Q /\ \A y \in Q : Max(Q) >= y
  BY <1>2 DEF Max
<1>4. Max(Q) \in {0} \cup P /\ \A j \in P : j <= Max(Q)
  <2>1. \A j \in P : j \in Q /\ j \in 0..n
    BY <1>1 DEF Q
  <2>2. Max(Q) \in 0..n
    BY <1>1, <1>3
  <2>. QED BY <1>3, <2>1, <2>2 DEF Q
<1>5. (Max(Q) = 0 <=> P = {})
  <2>1. ASSUME P # {} PROVE Max(Q) # 0
    <3>1. PICK j \in P : TRUE
      BY <2>1
    <3>2. j \in 1..n /\ j <= Max(Q)
      BY <1>4, <3>1
    <3>. QED BY <3>2
  <2>. QED BY <1>4, <2>1
<1>. QED BY <1>4, <1>5 DEF Q

\* The keys of a text.
IsKey(yaml, i) == i \in 1..Len(yaml) /\ yaml[i].kind # "item"

LEMMA KeyAboveIs ==
    ASSUME NEW yaml, IsText(yaml), NEW i \in 1..Len(yaml)
    PROVE  /\ KeyAbove(yaml, i) = 0 <=> \A j \in 1..(i - 1) : IsKey(yaml, j) => yaml[j].indent >= yaml[i].indent
           /\ KeyAbove(yaml, i) # 0 =>
                 /\ KeyAbove(yaml, i) \in 1..(i - 1) /\ IsKey(yaml, KeyAbove(yaml, i))
                 /\ yaml[KeyAbove(yaml, i)].indent < yaml[i].indent
                 /\ \A j \in (KeyAbove(yaml, i) + 1)..(i - 1) :
                       IsKey(yaml, j) => yaml[j].indent >= yaml[i].indent
<1>. DEFINE P == {j \in 1..(i - 1) : yaml[j].kind # "item" /\ yaml[j].indent < yaml[i].indent}
<1>1. Len(yaml) \in Nat /\ i - 1 \in Nat /\ P \subseteq 1..(i - 1)
  BY DEF IsText
<1>2. \A j \in 1..(i - 1) : j \in 1..Len(yaml)
  BY <1>1
<1>3. \A j \in 1..(i - 1) : j \in P <=> IsKey(yaml, j) /\ ~(yaml[j].indent >= yaml[i].indent)
  <2>1. \A j \in 1..Len(yaml) : yaml[j].indent \in Nat
    BY DEF IsText
  <2>. QED BY <1>2, <2>1 DEF IsKey
<1>4. KeyAbove(yaml, i) = Max({0} \cup P)
  BY DEF KeyAbove
<1>5. /\ KeyAbove(yaml, i) \in {0} \cup P /\ \A j \in P : j <= KeyAbove(yaml, i)
      /\ (KeyAbove(yaml, i) = 0 <=> P = {})
  <2>. DEFINE n == i - 1
  <2>. HIDE DEF n, P
  <2>1. n \in Nat /\ P \subseteq 1..n
    BY <1>1 DEF n
  <2>2. /\ Max({0} \cup P) \in {0} \cup P
        /\ \A j \in P : j <= Max({0} \cup P)
        /\ (Max({0} \cup P) = 0 <=> P = {})
    BY <2>1, MaxOf, Zenon
  <2>. QED BY <1>4, <2>2
<1>. DEFINE k == KeyAbove(yaml, i)
<1>6. \A j \in P : yaml[j].indent < yaml[i].indent
  OBVIOUS
<1>. HIDE DEF P, k
<1>7. k \in {0} \cup P /\ (\A j \in P : j <= k) /\ (k = 0 <=> P = {})
  BY <1>5 DEF k
<1>8. ASSUME k # 0
      PROVE  /\ k \in 1..(i - 1) /\ IsKey(yaml, k) /\ yaml[k].indent < yaml[i].indent
             /\ \A j \in (k + 1)..(i - 1) : IsKey(yaml, j) => yaml[j].indent >= yaml[i].indent
  <2>1. k \in P /\ k \in 1..(i - 1)
    BY <1>1, <1>7, <1>8
  <2>2. IsKey(yaml, k) /\ yaml[k].indent < yaml[i].indent
    BY <1>3, <1>6, <2>1
  <2>3. ASSUME NEW j \in (k + 1)..(i - 1), IsKey(yaml, j)
        PROVE  yaml[j].indent >= yaml[i].indent
    <3>1. j \in 1..(i - 1) /\ ~(j <= k)
      BY <2>1
    <3>2. j \notin P
      BY <1>7, <3>1
    <3>. QED BY <1>3, <2>3, <3>1, <3>2
  <2>. QED BY <2>1, <2>2, <2>3
<1>9. k = 0 <=> \A j \in 1..(i - 1) : IsKey(yaml, j) => yaml[j].indent >= yaml[i].indent
  BY <1>1, <1>3, <1>7
<1>. QED BY <1>8, <1>9 DEF k

LEMMA SectionIs ==
    ASSUME NEW yaml, IsText(yaml), NEW i \in Nat, i <= Len(yaml) + 1
    PROVE  /\ SectionOf(yaml, i) = 0 <=> \A j \in 1..(i - 1) : IsKey(yaml, j) => yaml[j].indent # 0
           /\ SectionOf(yaml, i) # 0 =>
                 /\ SectionOf(yaml, i) \in 1..(i - 1) /\ IsKey(yaml, SectionOf(yaml, i))
                 /\ yaml[SectionOf(yaml, i)].indent = 0
                 /\ \A j \in (SectionOf(yaml, i) + 1)..(i - 1) : IsKey(yaml, j) => yaml[j].indent # 0
<1>. DEFINE P == {j \in 1..(i - 1) : yaml[j].kind # "item" /\ yaml[j].indent = 0}
<1>1. Len(yaml) \in Nat
  BY DEF IsText
<1>2. \A j \in 1..(i - 1) : j \in 1..Len(yaml)
  BY <1>1
<1>3. \A j \in 1..(i - 1) : j \in P <=> IsKey(yaml, j) /\ yaml[j].indent = 0
  BY <1>2 DEF IsKey
<1>5. /\ SectionOf(yaml, i) \in {0} \cup P /\ \A j \in P : j <= SectionOf(yaml, i)
      /\ (SectionOf(yaml, i) = 0 <=> P = {})
  <2>1. CASE i = 0
    <3>1. P \subseteq 1..0 /\ 0 \in Nat
      BY <2>1
    <3>2. SectionOf(yaml, i) = Max({0} \cup P)
      BY DEF SectionOf
    <3>. HIDE DEF P
    <3>3. /\ Max({0} \cup P) \in {0} \cup P
          /\ \A j \in P : j <= Max({0} \cup P)
          /\ (Max({0} \cup P) = 0 <=> P = {})
      BY <3>1, MaxOf, Zenon
    <3>. QED BY <3>2, <3>3
  <2>2. CASE i # 0
    <3>. DEFINE n == i - 1
    <3>1. n \in Nat /\ P \subseteq 1..n
      BY <2>2
    <3>2. SectionOf(yaml, i) = Max({0} \cup P)
      BY DEF SectionOf
    <3>. HIDE DEF P, n
    <3>3. /\ Max({0} \cup P) \in {0} \cup P
          /\ \A j \in P : j <= Max({0} \cup P)
          /\ (Max({0} \cup P) = 0 <=> P = {})
      BY <3>1, MaxOf, Zenon
    <3>. QED BY <3>2, <3>3
  <2>. QED BY <2>1, <2>2
<1>. DEFINE k == SectionOf(yaml, i)
<1>6. P \subseteq 1..(i - 1)
  OBVIOUS
<1>. HIDE DEF P, k
<1>7. k \in {0} \cup P /\ (\A j \in P : j <= k) /\ (k = 0 <=> P = {})
  BY <1>5 DEF k
<1>8. ASSUME k # 0
      PROVE  /\ k \in 1..(i - 1) /\ IsKey(yaml, k) /\ yaml[k].indent = 0
             /\ \A j \in (k + 1)..(i - 1) : IsKey(yaml, j) => yaml[j].indent # 0
  <2>1. k \in P /\ k \in 1..(i - 1)
    BY <1>6, <1>7, <1>8
  <2>2. IsKey(yaml, k) /\ yaml[k].indent = 0
    BY <1>3, <2>1
  <2>3. ASSUME NEW j \in (k + 1)..(i - 1), IsKey(yaml, j), yaml[j].indent = 0
        PROVE  FALSE
    <3>1. j \in 1..(i - 1) /\ ~(j <= k)
      BY <2>1
    <3>2. j \notin P
      BY <1>7, <3>1
    <3>. QED BY <1>3, <2>3, <3>1, <3>2
  <2>. QED BY <2>1, <2>2, <2>3
<1>9. k = 0 <=> \A j \in 1..(i - 1) : IsKey(yaml, j) => yaml[j].indent # 0
  BY <1>3, <1>6, <1>7
<1>. QED BY <1>8, <1>9 DEF k

LEMMA MappingSays ==
    ASSUME NEW yaml, IsText(yaml), IsMapping(yaml)
    PROVE  /\ \A i \in 1..Len(yaml) :
                 IF KeyAbove(yaml, i) = 0 THEN yaml[i].indent = 0
                 ELSE yaml[KeyAbove(yaml, i)].kind = "open"
           /\ \A i, j \in 1..Len(yaml) :
                 IsKey(yaml, i) /\ IsKey(yaml, j) /\ KeyAbove(yaml, i) = KeyAbove(yaml, j) =>
                    yaml[i].indent = yaml[j].indent /\ (i # j => yaml[i].key # yaml[j].key)
           /\ \A i \in 1..Len(yaml) :
                 ~IsKey(yaml, i) /\ SectionOf(yaml, i) # 0 =>
                    yaml[SectionOf(yaml, i)].key # "dependencies"
<1>. DEFINE owner == [i \in DOMAIN yaml |-> KeyAbove(yaml, i)]
            keys  == {i \in DOMAIN yaml : yaml[i].kind # "item"}
<1>1. /\ \A i \in DOMAIN yaml : IF owner[i] = 0 THEN yaml[i].indent = 0
                                ELSE yaml[owner[i]].kind = "open"
      /\ \A i, j \in keys : i < j /\ owner[i] = owner[j] =>
              yaml[i].indent = yaml[j].indent /\ yaml[i].key # yaml[j].key
      /\ \A i \in DOMAIN yaml \ keys :
              SectionOf(yaml, i) # 0 => yaml[SectionOf(yaml, i)].key # "dependencies"
  BY Zenon DEF IsMapping
<1>2. Len(yaml) \in Nat /\ DOMAIN yaml = 1..Len(yaml)
  BY DEF IsText
<1>3. \A i \in 1..Len(yaml) : owner[i] = KeyAbove(yaml, i) /\ (i \in keys <=> IsKey(yaml, i))
  BY <1>2 DEF IsKey
<1>. HIDE DEF owner, keys
<1>4. \A i \in 1..Len(yaml) : IF KeyAbove(yaml, i) = 0 THEN yaml[i].indent = 0
                              ELSE yaml[KeyAbove(yaml, i)].kind = "open"
  BY <1>1, <1>2, <1>3
<1>5. ASSUME NEW i \in 1..Len(yaml), NEW j \in 1..Len(yaml),
             IsKey(yaml, i), IsKey(yaml, j), KeyAbove(yaml, i) = KeyAbove(yaml, j)
      PROVE  yaml[i].indent = yaml[j].indent /\ (i # j => yaml[i].key # yaml[j].key)
  <2>1. i \in keys /\ j \in keys /\ owner[i] = owner[j]
    BY <1>3, <1>5
  <2>2. CASE i < j
    BY <1>1, <2>1, <2>2
  <2>3. CASE j < i
    BY <1>1, <2>1, <2>3
  <2>4. i < j \/ j < i \/ i = j
    BY <1>2
  <2>. QED BY <2>2, <2>3, <2>4
<1>6. \A i \in 1..Len(yaml) :
         ~IsKey(yaml, i) /\ SectionOf(yaml, i) # 0 => yaml[SectionOf(yaml, i)].key # "dependencies"
  BY <1>1, <1>2, <1>3
<1>. QED BY <1>4, <1>5, <1>6

LEMMA SectionNext ==
    ASSUME NEW yaml, IsText(yaml), NEW n \in 1..Len(yaml)
    PROVE  SectionOf(yaml, n + 1) = IF IsKey(yaml, n) /\ yaml[n].indent = 0 THEN n ELSE SectionOf(yaml, n)
<1>1. n \in Nat /\ n + 1 \in Nat /\ n <= Len(yaml) + 1 /\ n + 1 <= Len(yaml) + 1 /\ n + 1 - 1 = n
  BY DEF IsText
<1>. DEFINE s == SectionOf(yaml, n)
            t == SectionOf(yaml, n + 1)
<1>2. /\ s = 0 <=> \A j \in 1..(n - 1) : IsKey(yaml, j) => yaml[j].indent # 0
      /\ s # 0 => /\ s \in 1..(n - 1) /\ IsKey(yaml, s) /\ yaml[s].indent = 0
                  /\ \A j \in (s + 1)..(n - 1) : IsKey(yaml, j) => yaml[j].indent # 0
  BY <1>1, SectionIs
<1>3. /\ t = 0 <=> \A j \in 1..(n + 1 - 1) : IsKey(yaml, j) => yaml[j].indent # 0
      /\ t # 0 => /\ t \in 1..(n + 1 - 1) /\ IsKey(yaml, t) /\ yaml[t].indent = 0
                  /\ \A j \in (t + 1)..(n + 1 - 1) : IsKey(yaml, j) => yaml[j].indent # 0
  BY <1>1, SectionIs
<1>4. /\ t = 0 <=> \A j \in 1..n : IsKey(yaml, j) => yaml[j].indent # 0
      /\ t # 0 => /\ t \in 1..n /\ IsKey(yaml, t) /\ yaml[t].indent = 0
                  /\ \A j \in (t + 1)..n : IsKey(yaml, j) => yaml[j].indent # 0
  BY <1>1, <1>3
<1>. HIDE DEF s, t
<1>5. CASE IsKey(yaml, n) /\ yaml[n].indent = 0
  <2>1. t # 0
    BY <1>1, <1>4, <1>5
  <2>2. ASSUME t # n PROVE FALSE
    <3>1. n \in (t + 1)..n
      BY <1>1, <1>4, <2>1, <2>2
    <3>. QED BY <1>4, <1>5, <2>1, <3>1
  <2>. QED BY <1>5, <2>2 DEF t
<1>6. CASE ~(IsKey(yaml, n) /\ yaml[n].indent = 0)
  <2>1. CASE s = 0
    <3>1. ASSUME NEW j \in 1..n, IsKey(yaml, j) PROVE yaml[j].indent # 0
      BY <1>1, <1>2, <1>6, <2>1, <3>1
    <3>. QED BY <1>4, <1>6, <2>1, <3>1 DEF s, t
  <2>2. CASE s # 0
    <3>1. s \in 1..n /\ IsKey(yaml, s) /\ yaml[s].indent = 0
      BY <1>1, <1>2, <2>2
    <3>2. t # 0
      BY <1>4, <3>1
    <3>3. ASSUME t < s PROVE FALSE
      <4>1. s \in (t + 1)..n
        BY <1>1, <1>4, <3>1, <3>2, <3>3
      <4>. QED BY <1>4, <3>1, <3>2, <4>1
    <3>4. ASSUME s < t PROVE FALSE
      <4>1. t # n
        BY <1>4, <1>6, <3>2
      <4>2. t \in (s + 1)..(n - 1)
        BY <1>1, <1>4, <3>1, <3>2, <3>4, <4>1
      <4>. QED BY <1>2, <1>4, <2>2, <3>2, <4>2
    <3>5. t \in 1..n
      BY <1>4, <3>2
    <3>6. s = t
      BY <1>1, <3>1, <3>3, <3>4, <3>5
    <3>. QED BY <1>6, <3>6 DEF s, t
  <2>. QED BY <2>1, <2>2
<1>. QED BY <1>5, <1>6

\* A child of the dependencies.
IsDependency(yaml, j) ==
    /\ KeyAbove(yaml, j) # 0 /\ KeyAbove(yaml, KeyAbove(yaml, j)) = 0
    /\ yaml[KeyAbove(yaml, j)].key = "dependencies"

LEMMA TopLine ==
    ASSUME NEW yaml, IsText(yaml), IsMapping(yaml), NEW i \in 1..Len(yaml)
    PROVE  KeyAbove(yaml, i) = 0 <=> yaml[i].indent = 0
<1>1. \A j \in 1..Len(yaml) : yaml[j].indent \in Nat
  BY DEF IsText
<1>2. KeyAbove(yaml, i) = 0 => yaml[i].indent = 0
  BY MappingSays
<1>3. ASSUME yaml[i].indent = 0, KeyAbove(yaml, i) # 0 PROVE FALSE
  <2>1. IsKey(yaml, KeyAbove(yaml, i)) /\ yaml[KeyAbove(yaml, i)].indent < yaml[i].indent
    BY <1>3, KeyAboveIs
  <2>. QED BY <1>1, <1>3, <2>1 DEF IsKey
<1>. QED BY <1>2, <1>3

\* Of a line that is indented, what lies in the section.
LEMMA InSection ==
    ASSUME NEW yaml, IsText(yaml), IsMapping(yaml), NEW i \in 1..Len(yaml), yaml[i].indent # 0,
           NEW s, s = SectionOf(yaml, i)
    PROVE  /\ IsDependency(yaml, i) => s # 0 /\ KeyAbove(yaml, i) = s
           /\ s # 0 /\ KeyAbove(yaml, i) = s /\ yaml[s].key = "dependencies" => IsDependency(yaml, i)
<1>1. i \in Nat /\ i <= Len(yaml) + 1 /\ Len(yaml) \in Nat
  BY DEF IsText
<1>2. /\ s = 0 <=> \A j \in 1..(i - 1) : IsKey(yaml, j) => yaml[j].indent # 0
      /\ s # 0 => /\ s \in 1..(i - 1) /\ IsKey(yaml, s) /\ yaml[s].indent = 0
                  /\ \A j \in (s + 1)..(i - 1) : IsKey(yaml, j) => yaml[j].indent # 0
  BY <1>1, SectionIs
<1>3. \A j \in 1..Len(yaml) : yaml[j].indent \in Nat
  BY DEF IsText
<1>4. ASSUME IsDependency(yaml, i) PROVE s # 0 /\ KeyAbove(yaml, i) = s
  <2>. DEFINE o == KeyAbove(yaml, i)
  <2>1. /\ o # 0 /\ o \in 1..(i - 1) /\ IsKey(yaml, o)
        /\ \A j \in (o + 1)..(i - 1) : IsKey(yaml, j) => yaml[j].indent >= yaml[i].indent
    BY <1>4, KeyAboveIs DEF IsDependency
  <2>2. o \in 1..Len(yaml) /\ KeyAbove(yaml, o) = 0
    BY <1>1, <1>4, <2>1 DEF IsDependency
  <2>3. yaml[o].indent = 0
    BY <2>2, TopLine
  <2>. HIDE DEF o
  <2>4. s # 0
    BY <1>2, <2>1, <2>3
  <2>5. ASSUME s < o PROVE FALSE
    <3>1. o \in (s + 1)..(i - 1)
      BY <1>1, <1>2, <2>1, <2>4, <2>5
    <3>. QED BY <1>2, <2>1, <2>3, <2>4, <3>1
  <2>6. ASSUME o < s PROVE FALSE
    <3>1. s \in (o + 1)..(i - 1)
      BY <1>1, <1>2, <2>1, <2>4, <2>6
    <3>2. yaml[s].indent >= yaml[i].indent
      BY <1>2, <2>1, <2>4, <3>1
    <3>3. yaml[i].indent \in Nat /\ yaml[s].indent = 0
      BY <1>2, <1>3, <2>4
    <3>. QED BY <3>2, <3>3
  <2>7. s \in Nat /\ o \in Nat
    BY <1>2, <2>1, <2>4
  <2>8. s = o
    BY <2>5, <2>6, <2>7
  <2>. QED BY <2>4, <2>8 DEF o
<1>5. ASSUME s # 0, KeyAbove(yaml, i) = s, yaml[s].key = "dependencies" PROVE IsDependency(yaml, i)
  <2>1. s \in 1..Len(yaml) /\ yaml[s].indent = 0
    BY <1>1, <1>2, <1>5
  <2>2. KeyAbove(yaml, s) = 0
    BY <2>1, TopLine
  <2>. QED BY <1>5, <2>2 DEF IsDependency
<1>. QED BY <1>4, <1>5

\* The lines of the dependencies: none is indented less than the first.
LEMMA FirstChild ==
    ASSUME NEW yaml, IsText(yaml), IsMapping(yaml), NEW i \in 1..Len(yaml), yaml[i].indent # 0,
           NEW s, s = SectionOf(yaml, i), s # 0, yaml[s].key = "dependencies"
    PROVE  /\ s \in 1..(i - 1) /\ s + 1 \in 1..i
           /\ KeyAbove(yaml, i) = s <=> yaml[i].indent = yaml[s + 1].indent
           /\ IsKey(yaml, i)
<1>1. i \in Nat /\ i <= Len(yaml) + 1 /\ Len(yaml) \in Nat
  BY DEF IsText
<1>2. /\ s \in 1..(i - 1) /\ IsKey(yaml, s) /\ yaml[s].indent = 0
      /\ \A j \in (s + 1)..(i - 1) : IsKey(yaml, j) => yaml[j].indent # 0
  BY <1>1, SectionIs
<1>3. \A j \in 1..Len(yaml) : yaml[j].indent \in Nat
  BY DEF IsText
<1>4. s + 1 \in 1..i /\ s + 1 \in 1..Len(yaml) /\ s \in Nat
  BY <1>1, <1>2
<1>5. ASSUME NEW j \in (s + 1)..i
      PROVE  SectionOf(yaml, j) = s /\ IsKey(yaml, j) /\ yaml[j].indent # 0
  <2>1. j \in 1..Len(yaml) /\ j \in Nat /\ j <= Len(yaml) + 1 /\ s < j /\ j <= i
    BY <1>1, <1>4
  <2>. DEFINE t == SectionOf(yaml, j)
  <2>2. /\ t = 0 <=> \A k \in 1..(j - 1) : IsKey(yaml, k) => yaml[k].indent # 0
        /\ t # 0 => /\ t \in 1..(j - 1) /\ IsKey(yaml, t) /\ yaml[t].indent = 0
                    /\ \A k \in (t + 1)..(j - 1) : IsKey(yaml, k) => yaml[k].indent # 0
    BY <2>1, SectionIs
  <2>. HIDE DEF t
  <2>3. s \in 1..(j - 1)
    BY <1>2, <2>1
  <2>4. t # 0
    BY <1>2, <2>2, <2>3
  <2>5. ASSUME t < s PROVE FALSE
    <3>1. s \in (t + 1)..(j - 1)
      BY <2>2, <2>3, <2>4, <2>5
    <3>. QED BY <1>2, <2>2, <2>4, <3>1
  <2>6. ASSUME s < t PROVE FALSE
    <3>1. t \in (s + 1)..(i - 1)
      BY <1>1, <1>2, <2>1, <2>2, <2>4, <2>6
    <3>. QED BY <1>2, <2>2, <2>4, <3>1
  <2>7. t = s
    <3>1. t \in Nat /\ s \in Nat
      BY <2>2, <2>3, <2>4
    <3>. QED BY <2>5, <2>6, <3>1
  <2>8. IsKey(yaml, j)
    BY <2>1, <2>4, <2>7, MappingSays DEF t
  <2>9. yaml[j].indent # 0
    <3>1. CASE j = i
      BY <3>1
    <3>2. CASE j # i
      <4>1. j \in (s + 1)..(i - 1)
        BY <1>1, <1>4, <2>1, <3>2
      <4>. QED BY <1>2, <2>8, <4>1
    <3>. QED BY <3>1, <3>2
  <2>. QED BY <2>7, <2>8, <2>9 DEF t
<1>6. IsKey(yaml, i)
  BY <1>1, <1>4, <1>5
<1>7. KeyAbove(yaml, s + 1) = s
  <2>. DEFINE o == KeyAbove(yaml, s + 1)
  <2>1. s + 1 \in (s + 1)..i
    BY <1>1, <1>4
  <2>2. yaml[s + 1].indent # 0 /\ yaml[s + 1].indent \in Nat
    BY <1>3, <1>4, <1>5, <2>1
  <2>3. /\ o = 0 <=> \A j \in 1..(s + 1 - 1) : IsKey(yaml, j) => yaml[j].indent >= yaml[s + 1].indent
        /\ o # 0 => /\ o \in 1..(s + 1 - 1)
                    /\ \A j \in (o + 1)..(s + 1 - 1) :
                          IsKey(yaml, j) => yaml[j].indent >= yaml[s + 1].indent
    BY <1>4, KeyAboveIs
  <2>. HIDE DEF o
  <2>4. s \in 1..(s + 1 - 1) /\ ~(yaml[s].indent >= yaml[s + 1].indent)
    BY <1>2, <1>4, <2>2
  <2>5. o # 0
    BY <1>2, <2>3, <2>4
  <2>6. ASSUME o # s PROVE FALSE
    <3>1. s \in (o + 1)..(s + 1 - 1)
      BY <1>4, <2>3, <2>5, <2>6
    <3>. QED BY <1>2, <2>3, <2>4, <2>5, <3>1
  <2>. QED BY <2>6 DEF o
<1>8. ASSUME NEW j \in (s + 1)..i PROVE yaml[j].indent >= yaml[s + 1].indent
  <2>. DEFINE T == {k \in (s + 1)..i : ~(yaml[k].indent >= yaml[s + 1].indent)}
  <2>1. T \subseteq Nat
    BY <1>4
  <2>2. CASE T = {}
    BY <2>2
  <2>3. CASE T # {}
    <3>1. PICK k \in T : \A m \in T : k <= m
      <4>. HIDE DEF T
      <4>. QED BY <2>1, <2>3, LeastNumber
    <3>2. k \in (s + 1)..i /\ k \in 1..Len(yaml) /\ yaml[k].indent \in Nat
          /\ ~(yaml[k].indent >= yaml[s + 1].indent) /\ yaml[s + 1].indent \in Nat
      BY <1>1, <1>3, <1>4, <3>1
    <3>3. \A m \in (s + 1)..(k - 1) : m \notin T
      <4>. HIDE DEF T
      <4>. QED BY <1>4, <3>1, <3>2
    <3>4. ASSUME NEW m \in (s + 1)..(k - 1)
          PROVE  yaml[m].indent >= yaml[s + 1].indent /\ yaml[m].indent \in Nat
      BY <1>1, <1>3, <1>4, <3>2, <3>3
    <3>. HIDE DEF T
    <3>. DEFINE o == KeyAbove(yaml, k)
    <3>5. /\ o = 0 <=> \A m \in 1..(k - 1) : IsKey(yaml, m) => yaml[m].indent >= yaml[k].indent
          /\ o # 0 => /\ o \in 1..(k - 1) /\ yaml[o].indent < yaml[k].indent
                      /\ \A m \in (o + 1)..(k - 1) : IsKey(yaml, m) => yaml[m].indent >= yaml[k].indent
      BY <3>2, KeyAboveIs
    <3>. HIDE DEF o
    <3>6. yaml[k].indent # 0
      BY <1>5, <3>2
    <3>7. s \in 1..(k - 1) /\ ~(yaml[s].indent >= yaml[k].indent)
      BY <1>2, <1>4, <3>2, <3>6
    <3>8. o # 0
      BY <1>2, <3>5, <3>7
    <3>9. ASSUME o < s PROVE FALSE
      <4>1. s \in (o + 1)..(k - 1)
        BY <3>5, <3>7, <3>8, <3>9
      <4>. QED BY <1>2, <3>5, <3>7, <3>8, <4>1
    <3>10. ASSUME s < o PROVE FALSE
      <4>1. o \in (s + 1)..(k - 1)
        BY <1>4, <3>2, <3>5, <3>8, <3>10
      <4>2. yaml[o].indent >= yaml[s + 1].indent /\ yaml[o].indent \in Nat
        BY <3>4, <4>1
      <4>. QED BY <3>2, <3>5, <3>8, <4>2, SMTT(40)
    <3>11. o = s
      <4>1. o \in Nat
        BY <3>5, <3>8
      <4>. QED BY <1>4, <3>9, <3>10, <4>1
    <3>12. IsKey(yaml, k) /\ IsKey(yaml, s + 1)
      BY <1>4, <1>5, <3>2
    <3>13. yaml[k].indent = yaml[s + 1].indent
      BY <1>4, <1>7, <3>2, <3>11, <3>12, MappingSays DEF o
    <3>. QED BY <3>2, <3>13
  <2>. QED BY <2>2, <2>3
<1>9. ASSUME KeyAbove(yaml, i) = s PROVE yaml[i].indent = yaml[s + 1].indent
  <2>1. IsKey(yaml, s + 1)
    BY <1>4, <1>5
  <2>. QED BY <1>4, <1>6, <1>7, <1>9, <2>1, MappingSays
<1>10. ASSUME yaml[i].indent = yaml[s + 1].indent PROVE KeyAbove(yaml, i) = s
  <2>. DEFINE o == KeyAbove(yaml, i)
  <2>1. /\ o = 0 <=> \A m \in 1..(i - 1) : IsKey(yaml, m) => yaml[m].indent >= yaml[i].indent
        /\ o # 0 => /\ o \in 1..(i - 1) /\ yaml[o].indent < yaml[i].indent
                    /\ \A m \in (o + 1)..(i - 1) : IsKey(yaml, m) => yaml[m].indent >= yaml[i].indent
    BY KeyAboveIs
  <2>. HIDE DEF o
  <2>2. yaml[i].indent \in Nat /\ ~(yaml[s].indent >= yaml[i].indent)
    BY <1>2, <1>3
  <2>3. o # 0
    BY <1>2, <2>1, <2>2
  <2>4. ASSUME o < s PROVE FALSE
    <3>1. s \in (o + 1)..(i - 1)
      BY <1>2, <2>1, <2>3, <2>4
    <3>. QED BY <1>2, <2>1, <2>2, <2>3, <3>1
  <2>5. ASSUME s < o PROVE FALSE
    <3>1. o \in (s + 1)..i /\ o \in 1..Len(yaml)
      BY <1>1, <1>4, <2>1, <2>3, <2>5
    <3>2. yaml[o].indent >= yaml[s + 1].indent /\ yaml[o].indent \in Nat
      BY <1>3, <1>8, <3>1
    <3>. QED BY <1>10, <2>1, <2>2, <2>3, <3>2, SMTT(40)
  <2>6. o \in Nat
    BY <2>1, <2>3
  <2>7. o = s
    BY <1>4, <2>4, <2>5, <2>6
  <2>. QED BY <2>7 DEF o
<1>. QED BY <1>2, <1>4, <1>6, <1>9, <1>10

-----------------------------------------------------------------------------
\* What PathsOf says: the recursion goes to an earlier line, so it has a solution.
IsPathsUpTo(yaml, f, n) ==
    \A i \in 1..n : f[i] = Append(IF KeyAbove(yaml, i) = 0 THEN <<>> ELSE f[KeyAbove(yaml, i)], yaml[i].key)

LEMMA PathsOfIs ==
    ASSUME NEW yaml, IsText(yaml)
    PROVE  IsPathsUpTo(yaml, PathsOf(yaml), Len(yaml))
<1>. DEFINE L == Len(yaml)
            After(f, i) == Append(IF KeyAbove(yaml, i) = 0 THEN <<>> ELSE f[KeyAbove(yaml, i)], yaml[i].key)
            T == {n \in 0..L : ~\E f : IsPathsUpTo(yaml, f, n)}
<1>1. L \in Nat /\ DOMAIN yaml = 1..L
  BY DEF IsText
<1>2. \A i \in 1..L : KeyAbove(yaml, i) # 0 => KeyAbove(yaml, i) \in 1..(i - 1)
  BY KeyAboveIs
<1>3. ASSUME T # {} PROVE FALSE
  <2>1. PICK n \in T : \A m \in T : n <= m
    <3>1. T \subseteq Nat
      BY <1>1
    <3>. HIDE DEF T
    <3>. QED BY <1>3, <3>1, LeastNumber
  <2>2. n \in 0..L /\ ~\E f : IsPathsUpTo(yaml, f, n)
    BY <2>1
  <2>3. n # 0
    <3>1. IsPathsUpTo(yaml, <<>>, 0)
      BY DEF IsPathsUpTo
    <3>. QED BY <2>2, <3>1
  <2>4. n - 1 \in 0..L /\ ~(n <= n - 1) /\ n \in 1..L /\ n \in Nat
    BY <1>1, <2>2, <2>3
  <2>5. n - 1 \notin T
    <3>. HIDE DEF T
    <3>. QED BY <2>1, <2>4
  <2>6. PICK f : IsPathsUpTo(yaml, f, n - 1)
    BY <2>4, <2>5
  <2>. DEFINE x == After(f, n)
              g == [i \in 1..n |-> IF i = n THEN x ELSE f[i]]
  <2>7. g[n] = x /\ \A i \in 1..(n - 1) : g[i] = f[i]
    <3>. HIDE DEF x
    <3>. QED BY <2>4
  <2>. HIDE DEF g
  <2>8. ASSUME NEW i \in 1..n PROVE g[i] = After(g, i)
    <3>1. i \in 1..L
      BY <1>1, <2>4
    <3>2. KeyAbove(yaml, i) # 0 => KeyAbove(yaml, i) \in 1..(n - 1)
      BY <1>1, <1>2, <2>4, <3>1
    <3>3. After(g, i) = After(f, i)
      <4>. DEFINE k == KeyAbove(yaml, i)
      <4>. HIDE DEF k
      <4>1. k # 0 => g[k] = f[k]
        BY <2>7, <3>2 DEF k
      <4>. QED BY <4>1 DEF k
    <3>4. CASE i = n
      BY <2>7, <3>3, <3>4
    <3>5. CASE i # n
      <4>1. i \in 1..(n - 1)
        BY <2>4, <3>5
      <4>2. f[i] = After(f, i)
        BY <2>6, <4>1 DEF IsPathsUpTo
      <4>. QED BY <2>7, <3>3, <4>1, <4>2
    <3>. QED BY <3>4, <3>5
  <2>9. IsPathsUpTo(yaml, g, n)
    BY <2>8 DEF IsPathsUpTo
  <2>. QED BY <2>2, <2>9
<1>4. PICK f : IsPathsUpTo(yaml, f, L)
  <2>1. L \in 0..L
    BY <1>1
  <2>. QED BY <1>3, <2>1
<1>. DEFINE h == [i \in DOMAIN yaml |-> f[i]]
<1>5. \A i \in 1..L : h[i] = f[i]
  BY <1>1
<1>6. \A i \in 1..L : h[i] = After(h, i)
  <2>1. ASSUME NEW i \in 1..L PROVE h[i] = After(h, i)
    <3>. DEFINE k == KeyAbove(yaml, i)
    <3>1. k # 0 => k \in 1..L
      BY <1>1, <1>2
    <3>2. f[i] = After(f, i)
      BY <1>4 DEF IsPathsUpTo
    <3>. HIDE DEF h, k
    <3>3. k # 0 => h[k] = f[k]
      BY <1>5, <3>1
    <3>4. h[i] = f[i]
      BY <1>5
    <3>. QED BY <3>2, <3>3, <3>4 DEF k
  <2>. QED BY <2>1
<1>7. h = [i \in DOMAIN yaml |-> After(h, i)]
  <2>1. h = [i \in DOMAIN yaml |-> h[i]]
    OBVIOUS
  <2>. HIDE DEF h, After
  <2>. QED BY <1>1, <1>6, <2>1
<1>. HIDE DEF h
<1>8. PathsOf(yaml) = CHOOSE route : route = [i \in DOMAIN yaml |-> After(route, i)]
  BY Zenon DEF PathsOf
<1>9. PathsOf(yaml) = [i \in DOMAIN yaml |-> After(PathsOf(yaml), i)]
  <2>. HIDE DEF After
  <2>. QED BY <1>7, <1>8, Zenon
<1>10. ASSUME NEW i \in 1..L PROVE PathsOf(yaml)[i] = After(PathsOf(yaml), i)
  <2>. DEFINE P == PathsOf(yaml)
  <2>. HIDE DEF P, After
  <2>1. P = [j \in DOMAIN yaml |-> After(P, j)]
    BY <1>9 DEF P
  <2>2. P[i] = After(P, i)
    BY <1>1, <2>1
  <2>. QED BY <2>2 DEF P
<1>. QED BY <1>10 DEF IsPathsUpTo

\* The path above a line.
PathAbove(yaml, i) == IF KeyAbove(yaml, i) = 0 THEN <<>> ELSE PathsOf(yaml)[KeyAbove(yaml, i)]
KeysOf(yaml) == {yaml[i].key : i \in 1..Len(yaml)}

LEMMA PathsAreLists ==
    ASSUME NEW yaml, IsText(yaml), NEW i \in 1..Len(yaml)
    PROVE  /\ PathsOf(yaml)[i] = Append(PathAbove(yaml, i), yaml[i].key)
           /\ PathAbove(yaml, i) \in Seq(KeysOf(yaml)) /\ PathsOf(yaml)[i] \in Seq(KeysOf(yaml))
           /\ Len(PathsOf(yaml)[i]) = Len(PathAbove(yaml, i)) + 1
           /\ Len(PathAbove(yaml, i)) \in Nat /\ Len(PathsOf(yaml)[i]) \in Nat
<1>. DEFINE L == Len(yaml)
            P == PathsOf(yaml)
            S == KeysOf(yaml)
            T == {j \in 1..L : P[j] \notin Seq(S)}
<1>1. L \in Nat
  BY DEF IsText
<1>2. \A j \in 1..L : KeyAbove(yaml, j) # 0 => KeyAbove(yaml, j) \in 1..(j - 1)
  BY KeyAboveIs
<1>3. \A j \in 1..L : P[j] = Append(PathAbove(yaml, j), yaml[j].key)
  BY PathsOfIs DEF IsPathsUpTo, PathAbove
<1>4. \A j \in 1..L : yaml[j].key \in S
  BY DEF KeysOf
<1>. HIDE DEF P, S
<1>5. ASSUME NEW j \in 1..L, PathAbove(yaml, j) \in Seq(S)
      PROVE  /\ P[j] \in Seq(S) /\ Len(P[j]) = Len(PathAbove(yaml, j)) + 1
             /\ Len(PathAbove(yaml, j)) \in Nat /\ Len(P[j]) \in Nat
  <2>. DEFINE a == PathAbove(yaml, j)
              k == yaml[j].key
  <2>1. a \in Seq(S) /\ k \in S /\ P[j] = Append(a, k)
    BY <1>3, <1>4, <1>5
  <2>. HIDE DEF a, k
  <2>2. P[j] \in Seq(S) /\ Len(P[j]) = Len(a) + 1 /\ Len(a) \in Nat /\ Len(P[j]) \in Nat
    BY <2>1
  <2>. QED BY <2>2 DEF a
<1>6. ASSUME NEW j \in 1..L, \A m \in 1..(j - 1) : P[m] \in Seq(S)
      PROVE  PathAbove(yaml, j) \in Seq(S)
  BY <1>2, <1>6 DEF PathAbove, P
<1>7. ASSUME T # {} PROVE FALSE
  <2>1. PICK j \in T : \A m \in T : j <= m
    <3>1. T \subseteq Nat
      BY <1>1
    <3>. HIDE DEF T
    <3>. QED BY <1>7, <3>1, LeastNumber
  <2>2. j \in 1..L /\ P[j] \notin Seq(S)
    BY <2>1
  <2>3. ASSUME NEW m \in 1..(j - 1) PROVE P[m] \in Seq(S)
    <3>1. m \in 1..L /\ ~(j <= m)
      BY <1>1, <2>2
    <3>2. m \notin T
      <4>. HIDE DEF T
      <4>. QED BY <2>1, <3>1
    <3>. QED BY <3>1, <3>2
  <2>. QED BY <1>5, <1>6, <2>2, <2>3
<1>8. \A m \in 1..L : P[m] \in Seq(S)
  BY <1>7
<1>9. PathAbove(yaml, i) \in Seq(S)
  <2>1. \A m \in 1..(i - 1) : m \in 1..L
    BY <1>1
  <2>. QED BY <1>6, <1>8, <2>1
<1>10. /\ P[i] \in Seq(S) /\ Len(P[i]) = Len(PathAbove(yaml, i)) + 1
       /\ Len(PathAbove(yaml, i)) \in Nat /\ Len(P[i]) \in Nat
  BY <1>5, <1>9
<1>. QED BY <1>3, <1>9, <1>10 DEF P, S

LEMMA PathAboveIs ==
    ASSUME NEW yaml, IsText(yaml), NEW i \in 1..Len(yaml)
    PROVE  /\ Len(PathAbove(yaml, i)) = 0 <=> KeyAbove(yaml, i) = 0
           /\ KeyAbove(yaml, i) # 0 =>
                 /\ KeyAbove(yaml, i) \in 1..Len(yaml)
                 /\ PathAbove(yaml, i) = PathsOf(yaml)[KeyAbove(yaml, i)]
<1>1. Len(yaml) \in Nat
  BY DEF IsText
<1>2. ASSUME KeyAbove(yaml, i) # 0
      PROVE  /\ KeyAbove(yaml, i) \in 1..Len(yaml)
             /\ PathAbove(yaml, i) = PathsOf(yaml)[KeyAbove(yaml, i)]
             /\ Len(PathAbove(yaml, i)) # 0
  <2>1. KeyAbove(yaml, i) \in 1..(i - 1)
    BY <1>2, KeyAboveIs
  <2>2. KeyAbove(yaml, i) \in 1..Len(yaml)
    BY <1>1, <2>1
  <2>3. PathAbove(yaml, i) = PathsOf(yaml)[KeyAbove(yaml, i)]
    BY <1>2 DEF PathAbove
  <2>. DEFINE k == KeyAbove(yaml, i)
  <2>. HIDE DEF k
  <2>4. Len(PathsOf(yaml)[k]) = Len(PathAbove(yaml, k)) + 1 /\ Len(PathAbove(yaml, k)) \in Nat
    BY <2>2, PathsAreLists DEF k
  <2>5. Len(PathsOf(yaml)[k]) # 0
    BY <2>4
  <2>. QED BY <2>2, <2>3, <2>5 DEF k
<1>3. KeyAbove(yaml, i) = 0 => Len(PathAbove(yaml, i)) = 0
  BY DEF PathAbove
<1>. QED BY <1>2, <1>3

LEMMA AppendedAt ==
    ASSUME NEW S, NEW s \in Seq(S), NEW x \in S
    PROVE  /\ Append(s, x)[Len(s) + 1] = x /\ Len(s) \in Nat
           /\ \A i \in 1..Len(s) : Append(s, x)[i] = s[i]
OBVIOUS

LEMMA DependenciesAre ==
    ASSUME NEW yaml, IsText(yaml), IsMapping(yaml)
    PROVE  DependenciesSaid(yaml) = {yaml[j].key : j \in {m \in 1..Len(yaml) : IsDependency(yaml, m)}}
<1>1. Len(yaml) \in Nat /\ DOMAIN yaml = 1..Len(yaml)
  BY DEF IsText
<1>2. ASSUME NEW j \in 1..Len(yaml)
      PROVE  (Len(PathsOf(yaml)[j]) = 2 /\ PathsOf(yaml)[j][1] = "dependencies") <=> IsDependency(yaml, j)
  <2>. DEFINE o == KeyAbove(yaml, j)
              a == PathAbove(yaml, j)
              P == PathsOf(yaml)
  <2>1. /\ P[j] = Append(a, yaml[j].key) /\ a \in Seq(KeysOf(yaml)) /\ Len(P[j]) = Len(a) + 1 /\ Len(a) \in Nat
        /\ yaml[j].key \in KeysOf(yaml)
    BY PathsAreLists DEF KeysOf
  <2>2. /\ Len(a) = 0 <=> o = 0
        /\ o # 0 => o \in 1..Len(yaml) /\ a = P[o]
    BY PathAboveIs
  <2>3. ASSUME o # 0
        PROVE  /\ Len(a) = 1 <=> KeyAbove(yaml, o) = 0
               /\ Len(a) = 1 => a[1] = yaml[o].key
    <3>. DEFINE b == PathAbove(yaml, o)
    <3>1. o \in 1..Len(yaml) /\ a = P[o]
      BY <2>2, <2>3
    <3>2. P[o] = Append(b, yaml[o].key) /\ b \in Seq(KeysOf(yaml)) /\ Len(P[o]) = Len(b) + 1 /\ Len(b) \in Nat
          /\ yaml[o].key \in KeysOf(yaml)
      BY <3>1, PathsAreLists DEF KeysOf
    <3>3. Len(b) = 0 <=> KeyAbove(yaml, o) = 0
      BY <3>1, PathAboveIs
    <3>. HIDE DEF o, a, b, P
    <3>4. Append(b, yaml[o].key)[Len(b) + 1] = yaml[o].key
      BY <3>2, AppendedAt
    <3>5. Len(a) = 1 <=> Len(b) = 0
      BY <3>1, <3>2
    <3>6. Len(b) = 0 => Len(b) + 1 = 1
      OBVIOUS
    <3>7. Len(b) = 0 => a[1] = yaml[o].key
      BY <3>1, <3>2, <3>4, <3>6
    <3>. QED BY <3>3, <3>5, <3>7
  <2>4. Len(a) = 1 => P[j][1] = a[1]
    <3>. HIDE DEF a, P
    <3>1. \A i \in 1..Len(a) : Append(a, yaml[j].key)[i] = a[i]
      BY <2>1, AppendedAt
    <3>2. Len(a) = 1 => 1 \in 1..Len(a)
      OBVIOUS
    <3>. QED BY <2>1, <3>1, <3>2
  <2>5. Len(P[j]) = 2 <=> Len(a) = 1
    <3>. DEFINE x == Len(P[j])
                y == Len(a)
    <3>1. x = y + 1 /\ y \in Nat
      BY <2>1
    <3>. HIDE DEF x, y
    <3>2. x = 2 <=> y = 1
      BY <3>1
    <3>. QED BY <3>2 DEF x, y
  <2>6. IsDependency(yaml, j) <=> o # 0 /\ KeyAbove(yaml, o) = 0 /\ yaml[o].key = "dependencies"
    BY DEF IsDependency
  <2>7. o = 0 => Len(a) # 1
    <3>. HIDE DEF a, o
    <3>. QED BY <2>2
  <2>. HIDE DEF o, a, P
  <2>8. (Len(P[j]) = 2 /\ P[j][1] = "dependencies") <=> IsDependency(yaml, j)
    BY <2>3, <2>4, <2>5, <2>6, <2>7
  <2>. QED BY <2>8 DEF P
<1>3. {j \in DOMAIN yaml : Len(PathsOf(yaml)[j]) = 2 /\ PathsOf(yaml)[j][1] = "dependencies"}
         = {m \in 1..Len(yaml) : IsDependency(yaml, m)}
  BY <1>1, <1>2, Zenon
<1>. QED BY <1>3, Zenon DEF DependenciesSaid

-----------------------------------------------------------------------------
\* What pubspec_dependencies holds after n lines.
InDependencies(yaml, n) ==
    LET s == SectionOf(yaml, n + 1)
    IN  s # 0 /\ yaml[s].key = "dependencies" /\ yaml[s].kind = "open"
ChildIndent(yaml, n) ==
    IF InDependencies(yaml, n) /\ SectionOf(yaml, n + 1) # n
    THEN yaml[SectionOf(yaml, n + 1) + 1].indent ELSE -1
ChildrenUpTo(yaml, n) == {yaml[j].key : j \in {m \in 1..n : IsDependency(yaml, m)}}
Held(yaml, n) ==
    [inside |-> InDependencies(yaml, n), child |-> ChildIndent(yaml, n), names |-> ChildrenUpTo(yaml, n)]

LEMMA ChildrenNext ==
    ASSUME NEW yaml, IsText(yaml), NEW n \in 1..Len(yaml)
    PROVE  /\ IsDependency(yaml, n) => ChildrenUpTo(yaml, n) = ChildrenUpTo(yaml, n - 1) \cup {yaml[n].key}
           /\ ~IsDependency(yaml, n) => ChildrenUpTo(yaml, n) = ChildrenUpTo(yaml, n - 1)
<1>1. n \in Nat /\ 1..n = 1..(n - 1) \cup {n}
  BY DEF IsText
<1>2. IsDependency(yaml, n) =>
         {m \in 1..n : IsDependency(yaml, m)} = {m \in 1..(n - 1) : IsDependency(yaml, m)} \cup {n}
  BY <1>1
<1>3. ~IsDependency(yaml, n) =>
         {m \in 1..n : IsDependency(yaml, m)} = {m \in 1..(n - 1) : IsDependency(yaml, m)}
  BY <1>1
<1>. QED BY <1>2, <1>3 DEF ChildrenUpTo

\* A line at column zero: the section it opens, or, an item of another, closes.
LEMMA HeldAtTop ==
    ASSUME NEW yaml, IsText(yaml), IsMapping(yaml), IsReadable(yaml),
           NEW n \in 1..Len(yaml), yaml[n].indent = 0
    PROVE  /\ InDependencies(yaml, n) <=> yaml[n].key = "dependencies" /\ yaml[n].kind = "open"
           /\ ChildIndent(yaml, n) = -1
           /\ ChildrenUpTo(yaml, n) = ChildrenUpTo(yaml, n - 1)
<1>1. KeyAbove(yaml, n) = 0
  BY TopLine
<1>2. ChildrenUpTo(yaml, n) = ChildrenUpTo(yaml, n - 1)
  <2>1. ~IsDependency(yaml, n)
    BY <1>1 DEF IsDependency
  <2>. QED BY <2>1, ChildrenNext
<1>3. SectionOf(yaml, n + 1) = IF IsKey(yaml, n) THEN n ELSE SectionOf(yaml, n)
  BY SectionNext
<1>4. n # 0
  BY DEF IsText
<1>5. CASE IsKey(yaml, n)
  <2>1. InDependencies(yaml, n) <=> yaml[n].key = "dependencies" /\ yaml[n].kind = "open"
    BY <1>3, <1>4, <1>5 DEF InDependencies
  <2>2. ChildIndent(yaml, n) = -1
    BY <1>3, <1>5 DEF ChildIndent
  <2>. QED BY <1>2, <2>1, <2>2
<1>6. CASE ~IsKey(yaml, n)
  <2>1. yaml[n].kind = "item"
    BY <1>6 DEF IsKey
  <2>2. ~InDependencies(yaml, n)
    <3>. DEFINE s == SectionOf(yaml, n)
    <3>1. s # 0 => yaml[s].key # "dependencies"
      BY <1>6, MappingSays
    <3>2. SectionOf(yaml, n + 1) = s
      BY <1>3, <1>6
    <3>. HIDE DEF s
    <3>. QED BY <3>1, <3>2 DEF InDependencies
  <2>3. ChildIndent(yaml, n) = -1
    BY <2>2 DEF ChildIndent
  <2>4. ~(yaml[n].key = "dependencies" /\ yaml[n].kind = "open")
    BY <2>1
  <2>. QED BY <1>2, <2>2, <2>3, <2>4
<1>. QED BY <1>5, <1>6

\* A line below one of column zero.
LEMMA HeldBelow ==
    ASSUME NEW yaml, IsText(yaml), IsMapping(yaml), IsReadable(yaml),
           NEW n \in 1..Len(yaml), yaml[n].indent # 0
    PROVE  /\ InDependencies(yaml, n) = InDependencies(yaml, n - 1)
           /\ ~InDependencies(yaml, n) =>
                 /\ ChildIndent(yaml, n) = ChildIndent(yaml, n - 1)
                 /\ ChildrenUpTo(yaml, n) = ChildrenUpTo(yaml, n - 1)
           /\ InDependencies(yaml, n) =>
                 /\ ChildIndent(yaml, n) =
                       IF ChildIndent(yaml, n - 1) = -1 THEN yaml[n].indent ELSE ChildIndent(yaml, n - 1)
                 /\ ChildrenUpTo(yaml, n) =
                       IF yaml[n].indent = ChildIndent(yaml, n)
                       THEN ChildrenUpTo(yaml, n - 1) \cup {yaml[n].key} ELSE ChildrenUpTo(yaml, n - 1)
<1>. DEFINE s == SectionOf(yaml, n)
<1>1. n \in Nat /\ n <= Len(yaml) + 1 /\ n - 1 + 1 = n
  BY DEF IsText
<1>2. SectionOf(yaml, n + 1) = s /\ SectionOf(yaml, n - 1 + 1) = s
  BY <1>1, SectionNext
<1>3. /\ InDependencies(yaml, n) = (s # 0 /\ yaml[s].key = "dependencies" /\ yaml[s].kind = "open")
      /\ InDependencies(yaml, n - 1) = (s # 0 /\ yaml[s].key = "dependencies" /\ yaml[s].kind = "open")
  BY <1>2 DEF InDependencies
<1>4. s # 0 => s \in 1..(n - 1) /\ IsKey(yaml, s) /\ yaml[s].indent = 0
  BY <1>1, SectionIs
<1>5. \A j \in 1..Len(yaml) : yaml[j].indent \in Nat
  BY DEF IsText
<1>6. ASSUME ~InDependencies(yaml, n)
      PROVE  /\ ChildIndent(yaml, n) = ChildIndent(yaml, n - 1)
             /\ ChildrenUpTo(yaml, n) = ChildrenUpTo(yaml, n - 1)
  <2>1. ~InDependencies(yaml, n - 1)
    BY <1>3, <1>6
  <2>2. ~IsDependency(yaml, n)
    <3>1. SUFFICES ASSUME IsDependency(yaml, n) PROVE FALSE
      OBVIOUS
    <3>2. s # 0 /\ KeyAbove(yaml, n) = s
      BY <3>1, InSection
    <3>3. yaml[s].key = "dependencies" /\ yaml[s].kind = "open"
      <4>1. yaml[s].key = "dependencies"
        BY <3>1, <3>2 DEF IsDependency
      <4>2. yaml[s].kind = "open"
        BY <3>2, MappingSays
      <4>. QED BY <4>1, <4>2
    <3>. QED BY <1>3, <1>6, <3>2, <3>3
  <2>3. ChildIndent(yaml, n) = -1 /\ ChildIndent(yaml, n - 1) = -1
    BY <1>6, <2>1 DEF ChildIndent
  <2>4. ChildrenUpTo(yaml, n) = ChildrenUpTo(yaml, n - 1)
    BY <2>2, ChildrenNext
  <2>. QED BY <2>3, <2>4
<1>7. ASSUME InDependencies(yaml, n)
      PROVE  /\ ChildIndent(yaml, n) =
                   IF ChildIndent(yaml, n - 1) = -1 THEN yaml[n].indent ELSE ChildIndent(yaml, n - 1)
             /\ ChildrenUpTo(yaml, n) =
                   IF yaml[n].indent = ChildIndent(yaml, n)
                   THEN ChildrenUpTo(yaml, n - 1) \cup {yaml[n].key} ELSE ChildrenUpTo(yaml, n - 1)
  <2>1. InDependencies(yaml, n - 1) /\ s # 0 /\ yaml[s].key = "dependencies"
    BY <1>3, <1>7
  <2>2. /\ s \in 1..(n - 1) /\ s + 1 \in 1..n
        /\ KeyAbove(yaml, n) = s <=> yaml[n].indent = yaml[s + 1].indent
    BY <2>1, FirstChild
  <2>. HIDE DEF s
  <2>3. s # n /\ s + 1 \in 1..Len(yaml)
    BY <1>1, <2>2
  <2>4. ChildIndent(yaml, n) = yaml[s + 1].indent /\ yaml[s + 1].indent \in Nat
    BY <1>2, <1>5, <1>7, <2>3 DEF ChildIndent
  <2>5. ChildIndent(yaml, n - 1) = IF s = n - 1 THEN -1 ELSE yaml[s + 1].indent
    BY <1>2, <2>1 DEF ChildIndent
  <2>6. s = n - 1 => yaml[s + 1] = yaml[n]
    BY <1>1
  <2>7. ChildIndent(yaml, n) =
           IF ChildIndent(yaml, n - 1) = -1 THEN yaml[n].indent ELSE ChildIndent(yaml, n - 1)
    <3>1. CASE s = n - 1
      BY <2>4, <2>5, <2>6, <3>1
    <3>2. CASE s # n - 1
      <4>1. ChildIndent(yaml, n - 1) = yaml[s + 1].indent
        BY <2>5, <3>2
      <4>2. yaml[s + 1].indent # -1
        BY <2>4
      <4>. QED BY <2>4, <4>1, <4>2
    <3>. QED BY <3>1, <3>2
  <2>8. IsDependency(yaml, n) <=> KeyAbove(yaml, n) = s
    BY <2>1, InSection DEF s
  <2>9. IsDependency(yaml, n) <=> yaml[n].indent = ChildIndent(yaml, n)
    BY <2>2, <2>4, <2>8
  <2>10. /\ IsDependency(yaml, n) => ChildrenUpTo(yaml, n) = ChildrenUpTo(yaml, n - 1) \cup {yaml[n].key}
         /\ ~IsDependency(yaml, n) => ChildrenUpTo(yaml, n) = ChildrenUpTo(yaml, n - 1)
    BY ChildrenNext
  <2>11. ChildrenUpTo(yaml, n) =
           IF yaml[n].indent = ChildIndent(yaml, n)
           THEN ChildrenUpTo(yaml, n - 1) \cup {yaml[n].key} ELSE ChildrenUpTo(yaml, n - 1)
    BY <2>9, <2>10
  <2>. QED BY <2>7, <2>11
<1>. QED BY <1>3, <1>6, <1>7

LEMMA HeldNext ==
    ASSUME NEW yaml, IsText(yaml), IsMapping(yaml), IsReadable(yaml), NEW n \in 1..Len(yaml)
    PROVE  Held(yaml, n) = ReadDependency(Held(yaml, n - 1), yaml[n])
<1>. DEFINE r == Held(yaml, n - 1)
<1>1. /\ r.inside = InDependencies(yaml, n - 1) /\ r.child = ChildIndent(yaml, n - 1)
      /\ r.names = ChildrenUpTo(yaml, n - 1)
      /\ r = [inside |-> r.inside, child |-> r.child, names |-> r.names]
  BY DEF Held
<1>. HIDE DEF r
<1>2. Held(yaml, n) = [inside |-> InDependencies(yaml, n), child |-> ChildIndent(yaml, n),
                       names |-> ChildrenUpTo(yaml, n)]
  BY DEF Held
<1>3. CASE yaml[n].indent = 0
  <2>1. ReadDependency(r, yaml[n]) =
           [r EXCEPT !.inside = yaml[n].key = "dependencies" /\ yaml[n].kind = "open", !.child = -1]
    BY <1>3 DEF ReadDependency
  <2>. DEFINE b == (yaml[n].key = "dependencies" /\ yaml[n].kind = "open")
              i == r.inside
              c == r.child
              ns == r.names
  <2>. HIDE DEF b, i, c, ns
  <2>2. r = [inside |-> i, child |-> c, names |-> ns]
    BY <1>1 DEF i, c, ns
  <2>3. [r EXCEPT !.inside = b, !.child = -1] = [inside |-> b, child |-> -1, names |-> ns]
    <3>. DEFINE m == -1
                t == [r EXCEPT !.inside = b, !.child = m]
    <3>. HIDE DEF m
    <3>1. DOMAIN r = {"inside", "child", "names"} /\ r.names = ns
      BY <2>2
    <3>2. t = [f \in {"inside", "child", "names"} |-> t[f]]
      BY <3>1
    <3>3. t.inside = b /\ t.child = m /\ t.names = ns
      BY <3>1
    <3>4. t = [r EXCEPT !.inside = b, !.child = -1]
      BY DEF m
    <3>. HIDE DEF t
    <3>5. t = [inside |-> b, child |-> m, names |-> ns]
      BY <3>2, <3>3
    <3>. QED BY <3>4, <3>5, Zenon DEF m
  <2>4. (InDependencies(yaml, n) <=> b) /\ ChildIndent(yaml, n) = -1 /\ ChildrenUpTo(yaml, n) = ns
    BY <1>1, <1>3, HeldAtTop DEF b, ns
  <2>5. ReadDependency(r, yaml[n]) = [r EXCEPT !.inside = b, !.child = -1]
    BY <2>1 DEF b
  <2>7. InDependencies(yaml, n) = b
    <3>1. b \in BOOLEAN
      BY DEF b
    <3>2. InDependencies(yaml, n) \in BOOLEAN
      BY DEF InDependencies
    <3>. QED BY <2>4, <3>1, <3>2
  <2>6. Held(yaml, n) = [inside |-> b, child |-> -1, names |-> ns]
    BY <1>2, <2>4, <2>7
  <2>. QED BY <2>3, <2>5, <2>6 DEF r
<1>4. CASE yaml[n].indent # 0 /\ ~InDependencies(yaml, n)
  <2>1. /\ InDependencies(yaml, n) = r.inside
        /\ ChildIndent(yaml, n) = r.child
        /\ ChildrenUpTo(yaml, n) = r.names
    BY <1>1, <1>4, HeldBelow
  <2>2. ~r.inside
    BY <1>4, <2>1
  <2>3. ReadDependency(r, yaml[n]) = r
    BY <1>4, <2>2 DEF ReadDependency
  <2>4. Held(yaml, n) = r
    BY <1>1, <1>2, <2>1
  <2>. QED BY <2>3, <2>4 DEF r
<1>5. CASE yaml[n].indent # 0 /\ InDependencies(yaml, n)
  <2>1. /\ r.inside /\ InDependencies(yaml, n) = TRUE
        /\ ChildIndent(yaml, n) = IF r.child = -1 THEN yaml[n].indent ELSE r.child
        /\ ChildrenUpTo(yaml, n) =
              IF yaml[n].indent = ChildIndent(yaml, n) THEN r.names \cup {yaml[n].key} ELSE r.names
    BY <1>1, <1>5, HeldBelow DEF InDependencies
  <2>. DEFINE c == IF r.child = -1 THEN yaml[n].indent ELSE r.child
  <2>2. ReadDependency(r, yaml[n]) =
           [inside |-> TRUE, child |-> c,
            names |-> IF yaml[n].indent = c THEN r.names \cup {yaml[n].key} ELSE r.names]
    BY <1>5, <2>1 DEF ReadDependency
  <2>3. ChildIndent(yaml, n) = c
    BY <2>1
  <2>. HIDE DEF c
  <2>. QED BY <1>2, <2>1, <2>2, <2>3 DEF r
<1>. QED BY <1>3, <1>4, <1>5

LEMMA HeldAtStart ==
    ASSUME NEW yaml, IsText(yaml)
    PROVE  Held(yaml, 0) = [inside |-> FALSE, child |-> -1, names |-> {}]
<1>1. 0 <= Len(yaml) + 1 /\ 1 <= Len(yaml) + 1 /\ 1 \in Nat /\ 0 + 1 = 1 /\ 1 - 1 = 0
  BY DEF IsText
<1>2. SectionOf(yaml, 1) = 0
  <2>1. SectionOf(yaml, 1) # 0 => SectionOf(yaml, 1) \in 1..(1 - 1)
    BY <1>1, SectionIs
  <2>. QED BY <2>1
<1>3. InDependencies(yaml, 0) = FALSE
  BY <1>1, <1>2 DEF InDependencies
<1>4. ChildIndent(yaml, 0) = -1
  BY <1>3 DEF ChildIndent
<1>5. ChildrenUpTo(yaml, 0) = {}
  BY DEF ChildrenUpTo
<1>. QED BY <1>3, <1>4, <1>5 DEF Held

\* The two readings of the dependencies agree.
LEMMA DependenciesAgree ==
    ASSUME NEW yaml, IsText(yaml), IsMapping(yaml), IsReadable(yaml)
    PROVE  Dependencies(yaml) = DependenciesSaid(yaml)
<1>. DEFINE L == Len(yaml)
            start == [inside |-> FALSE, child |-> -1, names |-> {}]
            h == [n \in 0..L |-> Held(yaml, n)]
            R == DependenciesRead(yaml)
            T == {n \in 0..L : R[n] # Held(yaml, n)}
<1>. HIDE DEF start
<1>1. L \in Nat
  BY DEF IsText
<1>2. \A n \in 0..L : h[n] = Held(yaml, n)
  OBVIOUS
<1>3. Held(yaml, 0) = start
  BY HeldAtStart DEF start
<1>4. ASSUME NEW n \in 0..L
      PROVE  h[n] = IF n = 0 THEN start ELSE ReadDependency(h[n - 1], yaml[n])
  <2>. HIDE DEF h
  <2>1. CASE n = 0
    BY <1>2, <1>3, <2>1
  <2>2. CASE n # 0
    <3>1. n \in 1..L /\ n - 1 \in 0..L
      BY <1>1, <2>2
    <3>2. h[n] = Held(yaml, n) /\ h[n - 1] = Held(yaml, n - 1)
      BY <1>2, <3>1
    <3>3. Held(yaml, n) = ReadDependency(Held(yaml, n - 1), yaml[n])
      BY <3>1, HeldNext
    <3>. QED BY <2>2, <3>2, <3>3
  <2>. QED BY <2>1, <2>2
<1>. DEFINE Step(f, n) == IF n = 0 THEN start ELSE ReadDependency(f[n - 1], yaml[n])
<1>5. h = [n \in 0..L |-> Step(h, n)]
  <2>1. h = [n \in 0..L |-> h[n]]
    OBVIOUS
  <2>2. \A n \in 0..L : h[n] = Step(h, n)
    BY <1>4
  <2>. HIDE DEF h, Step
  <2>. QED BY <2>1, <2>2
<1>. HIDE DEF h
<1>6. R = CHOOSE read : read = [n \in 0..L |-> Step(read, n)]
  BY Zenon DEF DependenciesRead, start
<1>7. R = [n \in 0..L |-> Step(R, n)]
  <2>. HIDE DEF Step, R
  <2>. QED BY <1>5, <1>6, Zenon
<1>8. \A n \in 0..L : R[n] = Step(R, n)
  <2>. HIDE DEF Step, R
  <2>. QED BY <1>7
<1>9. ASSUME T # {} PROVE FALSE
  <2>1. PICK n \in T : \A m \in T : n <= m
    <3>1. T \subseteq Nat
      BY <1>1
    <3>. HIDE DEF T
    <3>. QED BY <1>9, <3>1, LeastNumber
  <2>. HIDE DEF R
  <2>2. n \in 0..L /\ R[n] # Held(yaml, n)
    BY <2>1
  <2>3. n # 0
    BY <1>3, <1>8, <2>2
  <2>4. n \in 1..L /\ n - 1 \in 0..L /\ ~(n <= n - 1)
    BY <1>1, <2>2, <2>3
  <2>5. n - 1 \notin T
    <3>. HIDE DEF T
    <3>. QED BY <2>1, <2>4
  <2>6. R[n - 1] = Held(yaml, n - 1)
    BY <2>4, <2>5
  <2>7. R[n] = ReadDependency(R[n - 1], yaml[n])
    BY <1>8, <2>2, <2>3
  <2>8. Held(yaml, n) = ReadDependency(Held(yaml, n - 1), yaml[n])
    BY <2>4, HeldNext
  <2>. QED BY <2>2, <2>6, <2>7, <2>8
<1>10. R[L] = Held(yaml, L)
  <2>1. L \in 0..L
    BY <1>1
  <2>. QED BY <1>9, <2>1
<1>11. Dependencies(yaml) = ChildrenUpTo(yaml, L)
  BY <1>10 DEF Dependencies, Held
<1>. QED BY <1>11, DependenciesAre DEF ChildrenUpTo

-----------------------------------------------------------------------------
\* Two keys that stand at the same path are one.
LEMMA SameAppended ==
    ASSUME NEW S, NEW a \in Seq(S), NEW b \in Seq(S), NEW x \in S, NEW y \in S, Append(a, x) = Append(b, y)
    PROVE  a = b /\ x = y
<1>. DEFINE c == Append(a, x)
            d == Append(b, y)
<1>1. /\ Len(c) = Len(a) + 1 /\ Len(a) \in Nat /\ c[Len(a) + 1] = x /\ \A i \in 1..Len(a) : c[i] = a[i]
  BY AppendedAt
<1>2. /\ Len(d) = Len(b) + 1 /\ Len(b) \in Nat /\ d[Len(b) + 1] = y /\ \A i \in 1..Len(b) : d[i] = b[i]
  BY AppendedAt
<1>3. c = d
  OBVIOUS
<1>. HIDE DEF c, d
<1>4. Len(a) = Len(b)
  BY <1>1, <1>2, <1>3
<1>5. \A i \in 1..Len(a) : a[i] = b[i]
  BY <1>1, <1>2, <1>3, <1>4
<1>6. x = y
  BY <1>1, <1>2, <1>3, <1>4
<1>. QED BY <1>4, <1>5, <1>6, SameList

LEMMA UniquePaths ==
    ASSUME NEW yaml, IsText(yaml), IsMapping(yaml),
           NEW i \in 1..Len(yaml), NEW j \in 1..Len(yaml), IsKey(yaml, i), IsKey(yaml, j),
           PathsOf(yaml)[i] = PathsOf(yaml)[j]
    PROVE  i = j
<1>. DEFINE L == Len(yaml)
            P == PathsOf(yaml)
            T == {m \in 1..L : IsKey(yaml, m) /\ \E k \in 1..L : IsKey(yaml, k) /\ P[m] = P[k] /\ m # k}
<1>1. L \in Nat
  BY DEF IsText
<1>2. ASSUME T # {} PROVE FALSE
  <2>1. PICK m \in T : \A k \in T : m <= k
    <3>1. T \subseteq Nat
      BY <1>1
    <3>. HIDE DEF T
    <3>. QED BY <1>2, <3>1, LeastNumber
  <2>2. m \in 1..L /\ IsKey(yaml, m)
    BY <2>1
  <2>3. PICK k \in 1..L : IsKey(yaml, k) /\ P[m] = P[k] /\ m # k
    BY <2>1
  <2>. DEFINE a == PathAbove(yaml, m)
              b == PathAbove(yaml, k)
              o == KeyAbove(yaml, m)
              u == KeyAbove(yaml, k)
  <2>4. a = b /\ yaml[m].key = yaml[k].key
    <3>1. /\ P[m] = Append(a, yaml[m].key) /\ a \in Seq(KeysOf(yaml)) /\ yaml[m].key \in KeysOf(yaml)
      BY <2>2, PathsAreLists DEF KeysOf
    <3>2. /\ P[k] = Append(b, yaml[k].key) /\ b \in Seq(KeysOf(yaml)) /\ yaml[k].key \in KeysOf(yaml)
      BY <2>3, PathsAreLists DEF KeysOf
    <3>3. P[m] = P[k]
      BY <2>3
    <3>. DEFINE x == yaml[m].key
                y == yaml[k].key
                S == KeysOf(yaml)
    <3>. HIDE DEF a, b, P, x, y, S
    <3>4. Append(a, x) = Append(b, y)
      BY <3>1, <3>2, <3>3 DEF x, y
    <3>5. a \in Seq(S) /\ b \in Seq(S) /\ x \in S /\ y \in S
      BY <3>1, <3>2 DEF x, y, S
    <3>. QED BY <3>4, <3>5, SameAppended DEF x, y
  <2>5. /\ Len(a) = 0 <=> o = 0
        /\ o # 0 => o \in 1..L /\ a = P[o]
    BY <2>2, PathAboveIs
  <2>6. /\ Len(b) = 0 <=> u = 0
        /\ u # 0 => u \in 1..L /\ b = P[u]
    BY <2>3, PathAboveIs
  <2>7. o # 0 => o \in 1..(m - 1) /\ IsKey(yaml, o)
    BY <2>2, KeyAboveIs
  <2>8. u # 0 => IsKey(yaml, u)
    BY <2>3, KeyAboveIs
  <2>9. o # u
    BY <2>2, <2>3, <2>4, MappingSays
  <2>. HIDE DEF a, b, o, u, P
  <2>10. o # 0 /\ u # 0
    BY <2>4, <2>5, <2>6, <2>9
  <2>11. o \in T
    BY <2>4, <2>5, <2>6, <2>7, <2>8, <2>9, <2>10
  <2>. HIDE DEF T
  <2>12. m <= o
    BY <2>1, <2>11
  <2>. QED BY <1>1, <2>2, <2>7, <2>10, <2>12
<1>3. \A m \in 1..L, k \in 1..L : IsKey(yaml, m) /\ IsKey(yaml, k) /\ P[m] = P[k] => m = k
  BY <1>2
<1>. QED BY <1>3

LEMMA UniqueKeys ==
    ASSUME NEW yaml, IsText(yaml), IsMapping(yaml),
           NEW i \in 1..Len(yaml), NEW j \in 1..Len(yaml), IsKey(yaml, i), IsKey(yaml, j),
           PathAbove(yaml, i) = PathAbove(yaml, j), yaml[i].key = yaml[j].key
    PROVE  i = j
<1>1. PathsOf(yaml)[i] = Append(PathAbove(yaml, i), yaml[i].key)
  BY PathsAreLists
<1>2. PathsOf(yaml)[j] = Append(PathAbove(yaml, j), yaml[j].key)
  BY PathsAreLists
<1>. QED BY <1>1, <1>2, UniquePaths

-----------------------------------------------------------------------------
\* The keys that are open after n lines, and the stack that has them, at the lines "at".
Lines(yaml) == {yaml[i] : i \in 1..Len(yaml)}
IsOpenAfter(yaml, j, n) ==
    /\ j \in 1..n /\ yaml[j].kind = "open"
    /\ \A m \in (j + 1)..n : IsKey(yaml, m) => yaml[j].indent < yaml[m].indent
PathTo(s, q) == [r \in 1..q |-> s[r].key]
Standing(yaml, n, s, at) ==
    /\ s \in Seq(Lines(yaml)) /\ at \in [1..Len(s) -> 1..n]
    /\ \A q \in 1..Len(s) :
          /\ s[q] = yaml[at[q]] /\ yaml[at[q]].kind = "open"
          /\ PathsOf(yaml)[at[q]] = PathTo(s, q)
    /\ \A q \in 1..Len(s), r \in 1..Len(s) : q < r => at[q] < at[r]
    /\ \A j \in 1..n : IsOpenAfter(yaml, j, n) => \E q \in 1..Len(s) : at[q] = j

LEMMA LastBelowIs ==
    ASSUME NEW S, NEW s \in Seq(S), NEW d
    PROVE  /\ LastBelow(s, d) \in 0..Len(s)
           /\ LastBelow(s, d) # 0 => s[LastBelow(s, d)].indent < d
           /\ \A q \in 1..Len(s) : s[q].indent < d => q <= LastBelow(s, d)
<1>. DEFINE P == {q \in DOMAIN s : s[q].indent < d}
            n == Len(s)
            k == LastBelow(s, d)
<1>1. n \in Nat /\ DOMAIN s = 1..n
  OBVIOUS
<1>2. P \subseteq 1..n /\ \A q \in 1..n : q \in P <=> s[q].indent < d
  BY <1>1
<1>3. k = Max({0} \cup P)
  BY DEF LastBelow
<1>. HIDE DEF P, n, k
<1>4. /\ Max({0} \cup P) \in {0} \cup P
      /\ \A j \in P : j <= Max({0} \cup P)
      /\ (Max({0} \cup P) = 0 <=> P = {})
  BY <1>1, <1>2, MaxOf, Zenon
<1>5. k \in {0} \cup P /\ \A j \in P : j <= k
  BY <1>3, <1>4
<1>6. k \in 0..n
  BY <1>1, <1>2, <1>5
<1>7. k # 0 => s[k].indent < d
  BY <1>2, <1>5
<1>8. \A q \in 1..n : s[q].indent < d => q <= k
  BY <1>2, <1>5
<1>. QED BY <1>6, <1>7, <1>8 DEF n, k

LEMMA StandingSays ==
    ASSUME NEW yaml, NEW n, NEW s, NEW at, Standing(yaml, n, s, at)
    PROVE  /\ s \in Seq(Lines(yaml)) /\ at \in [1..Len(s) -> 1..n] /\ Len(s) \in Nat
           /\ \A q \in 1..Len(s) :
                 /\ s[q] = yaml[at[q]] /\ yaml[at[q]].kind = "open" /\ at[q] \in 1..n
                 /\ PathsOf(yaml)[at[q]] = PathTo(s, q)
           /\ \A q \in 1..Len(s), r \in 1..Len(s) : q < r => at[q] < at[r]
           /\ \A j \in 1..n : IsOpenAfter(yaml, j, n) => \E q \in 1..Len(s) : at[q] = j
<1>1. s \in Seq(Lines(yaml)) /\ at \in [1..Len(s) -> 1..n]
  BY DEF Standing
<1>2. Len(s) \in Nat /\ \A q \in 1..Len(s) : at[q] \in 1..n
  BY <1>1
<1>. QED BY <1>1, <1>2 DEF Standing

\* The last key of the stack that is indented less is the key above the line.
LEMMA EnclosingIs ==
    ASSUME NEW yaml, IsText(yaml), IsMapping(yaml), NEW n \in 1..Len(yaml), IsKey(yaml, n),
           NEW s, NEW at, Standing(yaml, n - 1, s, at)
    PROVE  /\ LastBelow(s, yaml[n].indent) \in 0..Len(s) /\ Len(s) \in Nat
           /\ KeyAbove(yaml, n) = 0 <=> LastBelow(s, yaml[n].indent) = 0
           /\ LastBelow(s, yaml[n].indent) # 0 => at[LastBelow(s, yaml[n].indent)] = KeyAbove(yaml, n)
<1>. DEFINE d == yaml[n].indent
            k == LastBelow(s, d)
            o == KeyAbove(yaml, n)
            l == Len(s)
<1>1. /\ s \in Seq(Lines(yaml)) /\ l \in Nat
      /\ \A q \in 1..l : s[q] = yaml[at[q]] /\ yaml[at[q]].kind = "open" /\ at[q] \in 1..(n - 1)
      /\ \A q \in 1..l, r \in 1..l : q < r => at[q] < at[r]
      /\ \A j \in 1..(n - 1) : IsOpenAfter(yaml, j, n - 1) => \E q \in 1..l : at[q] = j
  <2>. DEFINE m == n - 1
  <2>1. Standing(yaml, m, s, at)
    OBVIOUS
  <2>. HIDE DEF m
  <2>2. /\ s \in Seq(Lines(yaml)) /\ l \in Nat
        /\ \A q \in 1..l : s[q] = yaml[at[q]] /\ yaml[at[q]].kind = "open" /\ at[q] \in 1..m
        /\ \A q \in 1..l, r \in 1..l : q < r => at[q] < at[r]
        /\ \A j \in 1..m : IsOpenAfter(yaml, j, m) => \E q \in 1..l : at[q] = j
    BY <2>1, StandingSays
  <2>. QED BY <2>2 DEF m
<1>2. /\ k \in 0..l
      /\ k # 0 => s[k].indent < d
      /\ \A q \in 1..l : s[q].indent < d => q <= k
  BY <1>1, LastBelowIs
<1>3. /\ o = 0 <=> \A j \in 1..(n - 1) : IsKey(yaml, j) => yaml[j].indent >= d
      /\ o # 0 => /\ o \in 1..(n - 1) /\ IsKey(yaml, o) /\ yaml[o].indent < d
                  /\ \A j \in (o + 1)..(n - 1) : IsKey(yaml, j) => yaml[j].indent >= d
  BY KeyAboveIs
<1>4. \A j \in 1..(n - 1) : j \in 1..Len(yaml) /\ yaml[j].indent \in Nat
  BY DEF IsText
<1>5. d \in Nat /\ n \in Nat
  BY DEF IsText
<1>6. o # 0 => yaml[o].kind = "open"
  BY MappingSays
<1>. HIDE DEF d, k, o, l
<1>7. \A q \in 1..l : at[q] \in 1..(n - 1) /\ IsKey(yaml, at[q]) /\ yaml[at[q]].indent = s[q].indent
      /\ yaml[at[q]].indent \in Nat
  BY <1>1, <1>4 DEF IsKey
<1>8. ASSUME o # 0 PROVE k # 0 /\ at[k] = o
  <2>1. /\ o \in 1..(n - 1) /\ yaml[o].indent < d /\ yaml[o].indent \in Nat
        /\ \A j \in (o + 1)..(n - 1) : IsKey(yaml, j) => yaml[j].indent >= d
    BY <1>3, <1>4, <1>8
  <2>2. IsOpenAfter(yaml, o, n - 1)
    <3>1. ASSUME NEW m \in (o + 1)..(n - 1), IsKey(yaml, m) PROVE yaml[o].indent < yaml[m].indent
      <4>1. yaml[m].indent >= d
        BY <2>1, <3>1
      <4>2. yaml[m].indent \in Nat
        BY <1>4, <2>1
      <4>. QED BY <1>5, <2>1, <4>1, <4>2
    <3>. QED BY <1>6, <1>8, <2>1, <3>1 DEF IsOpenAfter
  <2>3. PICK q \in 1..l : at[q] = o
    BY <1>1, <2>1, <2>2
  <2>4. s[q].indent < d
    BY <1>7, <2>1, <2>3
  <2>5. q <= k
    BY <1>2, <2>4
  <2>6. ASSUME q < k PROVE FALSE
    <3>1. k \in 1..l
      BY <1>1, <1>2, <2>6
    <3>2. o < at[k]
      BY <1>1, <2>3, <2>6, <3>1
    <3>3. at[k] \in (o + 1)..(n - 1) /\ IsKey(yaml, at[k])
      BY <1>7, <2>1, <3>1, <3>2
    <3>4. yaml[at[k]].indent >= d
      BY <2>1, <3>3
    <3>5. yaml[at[k]].indent < d /\ yaml[at[k]].indent \in Nat
      BY <1>2, <1>7, <3>1
    <3>. QED BY <1>5, <3>4, <3>5
  <2>7. q = k /\ k # 0
    BY <1>1, <1>2, <2>5, <2>6
  <2>. QED BY <2>3, <2>7
<1>9. ASSUME o = 0, k # 0 PROVE FALSE
  <2>1. k \in 1..l
    BY <1>1, <1>2, <1>9
  <2>2. yaml[at[k]].indent < d /\ yaml[at[k]].indent \in Nat
    BY <1>2, <1>7, <1>9, <2>1
  <2>3. yaml[at[k]].indent >= d
    BY <1>3, <1>7, <1>9, <2>1
  <2>. QED BY <1>5, <2>2, <2>3
<1>. QED BY <1>1, <1>2, <1>8, <1>9 DEF d, k, o, l

LEMMA EnclosingPath ==
    ASSUME NEW yaml, IsText(yaml), IsMapping(yaml), NEW n \in 1..Len(yaml), IsKey(yaml, n),
           NEW s, NEW at, Standing(yaml, n - 1, s, at)
    PROVE  /\ Enclosing(s, yaml[n].indent) \in Seq(Lines(yaml))
           /\ Len(Enclosing(s, yaml[n].indent)) = LastBelow(s, yaml[n].indent)
           /\ \A q \in 1..LastBelow(s, yaml[n].indent) : Enclosing(s, yaml[n].indent)[q] = s[q]
           /\ PathAbove(yaml, n) =
                 [i \in DOMAIN Enclosing(s, yaml[n].indent) |-> Enclosing(s, yaml[n].indent)[i].key]
<1>. DEFINE d == yaml[n].indent
            k == LastBelow(s, d)
            e == SubSeq(s, 1, k)
            o == KeyAbove(yaml, n)
<1>1. /\ k \in 0..Len(s) /\ Len(s) \in Nat
      /\ o = 0 <=> k = 0
      /\ k # 0 => at[k] = o
  BY EnclosingIs
<1>2. /\ s \in Seq(Lines(yaml))
      /\ \A q \in 1..Len(s) : PathsOf(yaml)[at[q]] = PathTo(s, q)
  BY StandingSays
<1>3. e = Enclosing(s, d)
  BY DEF Enclosing
<1>4. PathAbove(yaml, n) = IF o = 0 THEN <<>> ELSE PathsOf(yaml)[o]
  BY DEF PathAbove
<1>. HIDE DEF k, o
<1>5. e \in Seq(Lines(yaml)) /\ Len(e) = k /\ DOMAIN e = 1..k /\ \A q \in 1..k : e[q] = s[q]
  BY <1>1, <1>2
<1>. HIDE DEF e
<1>6. PathAbove(yaml, n) = [i \in DOMAIN e |-> e[i].key]
  <2>1. CASE k = 0
    <3>1. DOMAIN e = {}
      BY <1>5, <2>1
    <3>2. [i \in DOMAIN e |-> e[i].key] = <<>>
      BY <3>1
    <3>. QED BY <1>1, <1>4, <2>1, <3>2
  <2>2. CASE k # 0
    <3>1. k \in 1..Len(s)
      BY <1>1, <2>2
    <3>2. PathAbove(yaml, n) = [r \in 1..k |-> s[r].key]
      BY <1>1, <1>2, <1>4, <2>2, <3>1 DEF PathTo
    <3>3. [i \in DOMAIN e |-> e[i].key] = [r \in 1..k |-> s[r].key]
      BY <1>5
    <3>. QED BY <3>2, <3>3
  <2>. QED BY <2>1, <2>2
<1>. QED BY <1>3, <1>5, <1>6 DEF k, d

\* How a line changes what stands open.
LEMMA StandingNext ==
    ASSUME NEW yaml, IsText(yaml), IsMapping(yaml), NEW n \in 1..Len(yaml), IsKey(yaml, n),
           NEW s, NEW at, Standing(yaml, n - 1, s, at)
    PROVE  \E b : Standing(yaml, n,
                       IF yaml[n].kind = "open" THEN Append(Enclosing(s, yaml[n].indent), yaml[n])
                       ELSE Enclosing(s, yaml[n].indent), b)
<1>. DEFINE d == yaml[n].indent
            k == LastBelow(s, d)
            e == Enclosing(s, d)
            m == n - 1
            l == Len(s)
            P == PathsOf(yaml)
<1>1. /\ s \in Seq(Lines(yaml)) /\ l \in Nat
      /\ \A q \in 1..l : s[q] = yaml[at[q]] /\ yaml[at[q]].kind = "open" /\ at[q] \in 1..m
      /\ \A q \in 1..l : P[at[q]] = PathTo(s, q)
      /\ \A q \in 1..l, r \in 1..l : q < r => at[q] < at[r]
      /\ \A j \in 1..m : IsOpenAfter(yaml, j, m) => \E q \in 1..l : at[q] = j
  <2>1. Standing(yaml, m, s, at)
    OBVIOUS
  <2>. HIDE DEF m
  <2>. QED BY <2>1, StandingSays
<1>2. /\ k \in 0..l
      /\ \A q \in 1..l : s[q].indent < d => q <= k
  BY <1>1, LastBelowIs
<1>3. /\ e \in Seq(Lines(yaml)) /\ Len(e) = k
      /\ \A q \in 1..k : e[q] = s[q]
      /\ PathAbove(yaml, n) = [i \in DOMAIN e |-> e[i].key]
  BY EnclosingPath
<1>4. /\ P[n] = Append(PathAbove(yaml, n), yaml[n].key) /\ PathAbove(yaml, n) \in Seq(KeysOf(yaml))
      /\ yaml[n].key \in KeysOf(yaml) /\ yaml[n] \in Lines(yaml)
  BY PathsAreLists DEF KeysOf, Lines
<1>5. n \in Nat /\ m \in Nat /\ n = m + 1
  BY DEF IsText
<1>. HIDE DEF d, k, e, m, l, P
<1>6. \A q \in 1..k : q \in 1..l /\ e[q] = s[q] /\ at[q] \in 1..m /\ at[q] \in 1..n /\ k \in Nat /\ l \in Nat
  BY <1>1, <1>2, <1>3, <1>5
<1>7. ASSUME NEW j \in 1..m, IsOpenAfter(yaml, j, n) PROVE \E q \in 1..k : at[q] = j
  <2>1. IsOpenAfter(yaml, j, m) /\ yaml[j].indent < d
    <3>1. \A i \in (j + 1)..n : IsKey(yaml, i) => yaml[j].indent < yaml[i].indent
      BY <1>7 DEF IsOpenAfter
    <3>2. n \in (j + 1)..n /\ \A i \in (j + 1)..m : i \in (j + 1)..n
      BY <1>5
    <3>3. yaml[j].kind = "open"
      BY <1>7 DEF IsOpenAfter
    <3>. QED BY <3>1, <3>2, <3>3 DEF IsOpenAfter, d
  <2>2. PICK q \in 1..l : at[q] = j
    BY <1>1, <2>1
  <2>3. q <= k
    BY <1>1, <1>2, <2>1, <2>2
  <2>4. q \in 1..k
    BY <1>1, <1>2, <2>3
  <2>. QED BY <2>2, <2>4
<1>8. CASE yaml[n].kind # "open"
  <2>. DEFINE b == [q \in 1..k |-> at[q]]
  <2>1. b \in [1..Len(e) -> 1..n] /\ \A q \in 1..k : b[q] = at[q]
    BY <1>3, <1>6
  <2>. HIDE DEF b
  <2>2. ASSUME NEW q \in 1..Len(e)
        PROVE  /\ e[q] = yaml[b[q]] /\ yaml[b[q]].kind = "open"
               /\ PathsOf(yaml)[b[q]] = PathTo(e, q)
    <3>1. q \in 1..l /\ q \in 1..k /\ b[q] = at[q] /\ e[q] = s[q]
      BY <1>3, <1>6, <2>1
    <3>2. \A r \in 1..q : e[r] = s[r]
      BY <1>6, <3>1
    <3>3. P[at[q]] = PathTo(e, q)
      <4>1. PathTo(e, q) = PathTo(s, q)
        BY <3>2 DEF PathTo
      <4>. QED BY <1>1, <3>1, <4>1
    <3>. QED BY <1>1, <3>1, <3>3 DEF P
  <2>3. ASSUME NEW q \in 1..Len(e), NEW r \in 1..Len(e), q < r PROVE b[q] < b[r]
    BY <1>1, <1>3, <1>6, <2>1, <2>3
  <2>4. ASSUME NEW j \in 1..n, IsOpenAfter(yaml, j, n) PROVE \E q \in 1..Len(e) : b[q] = j
    <3>1. j # n
      BY <1>8, <2>4 DEF IsOpenAfter
    <3>2. j \in 1..m
      BY <1>5, <3>1
    <3>. QED BY <1>3, <1>7, <2>1, <2>4, <3>2
  <2>5. Standing(yaml, n, e, b)
    BY <1>3, <2>1, <2>2, <2>3, <2>4 DEF Standing
  <2>. QED BY <1>8, <2>5 DEF e, d
<1>9. CASE yaml[n].kind = "open"
  <2>. DEFINE b == [q \in 1..(k + 1) |-> IF q = k + 1 THEN n ELSE at[q]]
              g == Append(e, yaml[n])
  <2>1. /\ g \in Seq(Lines(yaml)) /\ Len(g) = k + 1 /\ g[k + 1] = yaml[n]
        /\ \A q \in 1..k : g[q] = e[q]
    <3>. DEFINE S == Lines(yaml)
                x == yaml[n]
    <3>. HIDE DEF S, x
    <3>1. e \in Seq(S) /\ x \in S /\ Len(e) = k
      BY <1>3, <1>4 DEF S, x
    <3>2. /\ Append(e, x) \in Seq(S) /\ Len(Append(e, x)) = k + 1 /\ Append(e, x)[k + 1] = x
          /\ \A q \in 1..k : Append(e, x)[q] = e[q]
      BY <3>1, AppendedAt
    <3>. QED BY <3>2 DEF S, x
  <2>2. b \in [1..(k + 1) -> 1..n] /\ b[k + 1] = n /\ \A q \in 1..k : b[q] = at[q]
    <3>1. ASSUME NEW q \in 1..(k + 1) PROVE (IF q = k + 1 THEN n ELSE at[q]) \in 1..n
      BY <1>2, <1>5, <1>6
    <3>2. k + 1 \in 1..(k + 1) /\ \A q \in 1..k : q \in 1..(k + 1) /\ q # k + 1
      BY <1>2, <1>1
    <3>. QED BY <3>1, <3>2
  <2>. HIDE DEF b, g
  <2>3. k \in Nat /\ \A q \in 1..(k + 1) : q = k + 1 \/ q \in 1..k
    BY <1>1, <1>2
  <2>4. ASSUME NEW q \in 1..k
        PROVE  /\ g[q] = yaml[b[q]] /\ yaml[b[q]].kind = "open"
               /\ P[b[q]] = PathTo(g, q)
    <3>1. q \in 1..l /\ b[q] = at[q] /\ g[q] = s[q]
      BY <1>6, <2>1, <2>2
    <3>2. \A r \in 1..q : g[r] = s[r]
      <4>1. \A r \in 1..q : r \in 1..k
        BY <2>3
      <4>. QED BY <1>6, <2>1, <4>1
    <3>3. P[at[q]] = PathTo(g, q)
      <4>1. PathTo(g, q) = PathTo(s, q)
        BY <3>2 DEF PathTo
      <4>. QED BY <1>1, <3>1, <4>1
    <3>. QED BY <1>1, <3>1, <3>3
  <2>5. P[n] = PathTo(g, k + 1)
    <3>. DEFINE a == PathAbove(yaml, n)
                x == yaml[n].key
                S == KeysOf(yaml)
                f == [r \in 1..(k + 1) |-> g[r].key]
    <3>1. a \in Seq(S) /\ x \in S /\ P[n] = Append(a, x)
      BY <1>4
    <3>2. DOMAIN e = 1..k
      BY <1>3
    <3>3. Len(a) = k /\ \A r \in 1..k : a[r] = e[r].key
      <4>1. a = [i \in 1..k |-> e[i].key]
        BY <1>3, <3>2
      <4>2. DOMAIN a = 1..k /\ \A r \in 1..k : a[r] = e[r].key
        BY <4>1
      <4>. HIDE DEF a
      <4>. QED BY <2>3, <3>1, <4>2
    <3>4. \A r \in 1..k : f[r] = e[r].key
      BY <2>1, <2>3
    <3>5. f[k + 1] = x /\ DOMAIN f = 1..(k + 1)
      BY <2>1, <2>3
    <3>6. f = [r \in 1..(k + 1) |-> f[r]]
      OBVIOUS
    <3>. HIDE DEF a, x, S, f
    <3>7. Append(a, x) = [r \in 1..(k + 1) |-> IF r = k + 1 THEN x ELSE a[r]]
      <4>1. k \in Nat /\ a \in Seq(S) /\ x \in S /\ Len(a) = k
        BY <2>3, <3>1, <3>3
      <4>2. Append(a, x) \in Seq(S) /\ Len(Append(a, x)) = k + 1 /\ Append(a, x)[k + 1] = x
            /\ \A r \in 1..k : Append(a, x)[r] = a[r]
        BY <4>1, AppendedAt
      <4>. DEFINE t == Append(a, x)
      <4>. HIDE DEF t
      <4>3. t \in Seq(S) /\ Len(t) = k + 1 /\ t[k + 1] = x /\ \A r \in 1..k : t[r] = a[r]
        BY <4>2 DEF t
      <4>4. t = [r \in 1..(k + 1) |-> t[r]]
        BY <4>3
      <4>5. \A r \in 1..(k + 1) : t[r] = IF r = k + 1 THEN x ELSE a[r]
        BY <2>3, <4>3
      <4>6. t = [r \in 1..(k + 1) |-> IF r = k + 1 THEN x ELSE a[r]]
        BY <4>4, <4>5
      <4>. QED BY <4>6 DEF t
    <3>8. \A r \in 1..(k + 1) : f[r] = IF r = k + 1 THEN x ELSE a[r]
      BY <2>3, <3>3, <3>4, <3>5
    <3>9. Append(a, x) = f
      BY <3>6, <3>7, <3>8
    <3>. QED BY <3>1, <3>9 DEF f, PathTo
  <2>6. ASSUME NEW q \in 1..(k + 1)
        PROVE  /\ g[q] = yaml[b[q]] /\ yaml[b[q]].kind = "open"
               /\ PathsOf(yaml)[b[q]] = PathTo(g, q)
    <3>1. CASE q = k + 1
      BY <1>9, <2>1, <2>2, <2>5, <3>1 DEF P
    <3>2. CASE q \in 1..k
      BY <2>4, <3>2 DEF P
    <3>. QED BY <2>3, <3>1, <3>2
  <2>7. ASSUME NEW q \in 1..(k + 1), NEW r \in 1..(k + 1), q < r PROVE b[q] < b[r]
    <3>1. q \in 1..k
      BY <2>3, <2>7
    <3>2. CASE r = k + 1
      <4>1. b[r] = n /\ b[q] \in 1..m
        BY <1>6, <2>2, <3>1, <3>2
      <4>. QED BY <1>5, <4>1
    <3>3. CASE r \in 1..k
      BY <1>1, <1>6, <2>2, <2>7, <3>1, <3>3
    <3>. QED BY <2>3, <3>2, <3>3
  <2>8. ASSUME NEW j \in 1..n, IsOpenAfter(yaml, j, n) PROVE \E q \in 1..(k + 1) : b[q] = j
    <3>1. CASE j = n
      BY <2>2, <2>3, <3>1
    <3>2. CASE j # n
      <4>1. j \in 1..m
        BY <1>5, <3>2
      <4>2. PICK q \in 1..k : at[q] = j
        BY <1>7, <2>8, <4>1
      <4>3. q \in 1..(k + 1) /\ b[q] = j
        BY <2>2, <2>3, <4>2
      <4>. QED BY <4>3
    <3>. QED BY <3>1, <3>2
  <2>9. Standing(yaml, n, g, b)
    <3>. DEFINE K == k + 1
    <3>. HIDE DEF K
    <3>1. /\ g \in Seq(Lines(yaml)) /\ Len(g) = K /\ b \in [1..K -> 1..n]
          /\ \A q \in 1..K : /\ g[q] = yaml[b[q]] /\ yaml[b[q]].kind = "open"
                             /\ PathsOf(yaml)[b[q]] = PathTo(g, q)
          /\ \A q \in 1..K, r \in 1..K : q < r => b[q] < b[r]
          /\ \A j \in 1..n : IsOpenAfter(yaml, j, n) => \E q \in 1..K : b[q] = j
      BY <2>1, <2>2, <2>6, <2>7, <2>8 DEF K
    <3>. QED BY <3>1 DEF Standing
  <2>. QED BY <1>9, <2>9 DEF g, e, d
<1>. QED BY <1>8, <1>9

LEMMA StandingStays ==
    ASSUME NEW yaml, IsText(yaml), NEW n \in 1..Len(yaml), ~IsKey(yaml, n),
           NEW s, NEW at, Standing(yaml, n - 1, s, at)
    PROVE  Standing(yaml, n, s, at)
<1>. DEFINE m == n - 1
            l == Len(s)
<1>1. /\ s \in Seq(Lines(yaml)) /\ at \in [1..l -> 1..m] /\ l \in Nat
      /\ \A q \in 1..l : /\ s[q] = yaml[at[q]] /\ yaml[at[q]].kind = "open"
                         /\ PathsOf(yaml)[at[q]] = PathTo(s, q)
      /\ \A q \in 1..l, r \in 1..l : q < r => at[q] < at[r]
      /\ \A j \in 1..m : IsOpenAfter(yaml, j, m) => \E q \in 1..l : at[q] = j
  <2>1. Standing(yaml, m, s, at)
    OBVIOUS
  <2>2. l \in Nat
    BY StandingSays
  <2>. HIDE DEF m
  <2>. QED BY <2>1, <2>2 DEF Standing
<1>2. n \in Nat /\ m \in Nat /\ n = m + 1
  BY DEF IsText
<1>3. yaml[n].kind = "item"
  BY DEF IsKey
<1>. HIDE DEF m, l
<1>4. at \in [1..l -> 1..n]
  <2>1. \A q \in 1..m : q \in 1..n
    BY <1>2
  <2>. QED BY <1>1, <2>1
<1>5. ASSUME NEW j \in 1..n, IsOpenAfter(yaml, j, n) PROVE \E q \in 1..l : at[q] = j
  <2>1. j # n
    BY <1>3, <1>5 DEF IsOpenAfter
  <2>2. j \in 1..m /\ \A i \in (j + 1)..m : i \in (j + 1)..n
    BY <1>2, <2>1
  <2>3. IsOpenAfter(yaml, j, m)
    BY <1>5, <2>2 DEF IsOpenAfter
  <2>. QED BY <1>1, <2>2, <2>3
<1>. QED BY <1>1, <1>4, <1>5 DEF Standing, l

-----------------------------------------------------------------------------
\* What the lines of a pubspec say of its plugin, by the path above each.
DeclaresOne(yaml, i) == yaml[i].kind \in {"open", "flow"} /\ PathAbove(yaml, i) = PlatformsPath
FieldOf(yaml, i, p) ==
    IsKey(yaml, i) /\ yaml[i].kind # "open" /\ PathAbove(yaml, i) = Append(PlatformsPath, p)
FlowOf(yaml, i, p) == yaml[i].kind = "flow" /\ PathAbove(yaml, i) = PlatformsPath /\ yaml[i].key = p
ImplementsOne(yaml, i) ==
    /\ yaml[i].kind \in {"scalar", "flow"} /\ yaml[i].key = "implements"
    /\ PathAbove(yaml, i) = <<"flutter", "plugin">>

BlockUpTo(yaml, n, p) == {i \in 1..n : FieldOf(yaml, i, p)}
FlowUpTo(yaml, n, p) == {i \in 1..n : FlowOf(yaml, i, p)}
FieldsOf(yaml, block, flow) ==
    IF flow # {} THEN yaml[CHOOSE i \in flow : TRUE].value
    ELSE [f \in {yaml[i].key : i \in block} |-> yaml[CHOOSE i \in block : yaml[i].key = f].value]
FieldsUpTo(yaml, n, p) == FieldsOf(yaml, BlockUpTo(yaml, n, p), FlowUpTo(yaml, n, p))
DeclaredUpTo(yaml, n) == {yaml[i].key : i \in {m \in 1..n : DeclaresOne(yaml, m)}}
PlatformsUpTo(yaml, n) == [p \in DeclaredUpTo(yaml, n) |-> FieldsUpTo(yaml, n, p)]
NamedUpTo(yaml, n) == {i \in 1..n : ImplementsOne(yaml, i)}
ImplementsOf(yaml, named) == IF named = {} THEN "" ELSE yaml[CHOOSE i \in named : TRUE].value
ImplementsUpTo(yaml, n) == ImplementsOf(yaml, NamedUpTo(yaml, n))

LEMMA PlatformsPathIs ==
    /\ \A S : {"flutter", "plugin", "platforms"} \subseteq S => PlatformsPath \in Seq(S)
    /\ Len(PlatformsPath) = 3
BY DEF PlatformsPath

LEMMA Appended ==
    ASSUME NEW S, NEW s \in Seq(S), NEW x \in S, NEW n \in Nat, Len(s) = n
    PROVE  /\ Append(s, x) \in Seq(S) /\ Len(Append(s, x)) = n + 1 /\ Append(s, x)[n + 1] = x
           /\ \A i \in 1..n : Append(s, x)[i] = s[i]
<1>1. /\ Append(s, x)[Len(s) + 1] = x
      /\ \A i \in 1..Len(s) : Append(s, x)[i] = s[i]
  BY AppendedAt
<1>2. Append(s, x) \in Seq(S) /\ Len(Append(s, x)) = Len(s) + 1
  OBVIOUS
<1>. QED BY <1>1, <1>2

\* What is appended to a path, and what a path with one key more is.
LEMMA PathAndKey ==
    ASSUME NEW S, NEW p \in Seq(S), NEW n \in Nat, Len(p) = n, NEW a \in Seq(S), NEW x \in S
    PROVE  /\ Len(Append(a, x)) = n + 1 /\ IsPrefix(p, Append(a, x)) <=> a = p
           /\ Len(a) = n + 1 /\ IsPrefix(p, a) => a = Append(p, a[n + 1]) /\ a[n + 1] \in S
           /\ a = Append(p, x) => Len(a) = n + 1 /\ IsPrefix(p, a) /\ a[n + 1] = x
<1>1. ASSUME a = p PROVE Len(Append(a, x)) = n + 1 /\ IsPrefix(p, Append(a, x))
  BY <1>1, Appended, PrefixOfAppended
<1>2. ASSUME Len(Append(a, x)) = n + 1, IsPrefix(p, Append(a, x)) PROVE a = p
  <2>. DEFINE c == Append(a, x)
              m == Len(a)
  <2>1. c \in Seq(S) /\ IsPrefix(a, c) /\ IsPrefix(p, c) /\ Len(c) = n + 1
    BY <1>2, PrefixOfAppended
  <2>2. m \in Nat
    OBVIOUS
  <2>. HIDE DEF m
  <2>3. Len(c) = m + 1
    BY <2>2, Appended DEF m
  <2>. HIDE DEF c
  <2>. DEFINE k == Len(c)
  <2>4. k = n + 1 /\ k = m + 1
    BY <2>1, <2>3
  <2>. HIDE DEF k
  <2>5. m = n
    BY <2>2, <2>4
  <2>6. Len(a) = Len(p)
    BY <2>5 DEF m
  <2>. QED BY <2>1, <2>6, PrefixesChain
<1>3. ASSUME Len(a) = n + 1, IsPrefix(p, a) PROVE a = Append(p, a[n + 1]) /\ a[n + 1] \in S
  <2>1. a # <<>>
    <3>. DEFINE k == Len(a)
    <3>1. k = n + 1
      BY <1>3
    <3>2. a = <<>> => k = 0
      OBVIOUS
    <3>. HIDE DEF k
    <3>3. k # 0
      BY <3>1
    <3>. QED BY <3>2, <3>3
  <2>2. /\ Front(a) \in Seq(S) /\ Len(Front(a)) = Len(a) - 1
        /\ IsPrefix(Front(a), a) /\ a = Append(Front(a), Last(a)) /\ Last(a) \in S
    BY <2>1, FrontIs
  <2>. DEFINE f == Front(a)
              l == Last(a)
              k == Len(f)
  <2>3. k = Len(a) - 1
    BY <2>2
  <2>. HIDE DEF f, l, k
  <2>4. k = n
    BY <1>3, <2>3
  <2>5. f \in Seq(S) /\ IsPrefix(f, a) /\ Len(f) = Len(p) /\ a = Append(f, l) /\ l \in S
    BY <2>2, <2>4 DEF f, l, k
  <2>6. f = p
    BY <1>3, <2>5, PrefixesChain
  <2>7. Append(p, l)[n + 1] = l
    BY <2>5, Appended
  <2>. QED BY <2>5, <2>6, <2>7
<1>4. ASSUME a = Append(p, x) PROVE Len(a) = n + 1 /\ IsPrefix(p, a) /\ a[n + 1] = x
  BY <1>4, Appended, PrefixOfAppended
<1>. QED BY <1>1, <1>2, <1>3, <1>4

\* The path of a line has four keys and starts with that of the platforms.
LEMMA BelowPlatforms ==
    ASSUME NEW S, NEW a \in Seq(S), NEW x \in S
    PROVE  Len(Append(a, x)) = 4 /\ IsPrefix(PlatformsPath, Append(a, x)) <=> a = PlatformsPath
<1>. DEFINE Q == S \cup {"flutter", "plugin", "platforms"}
            p == PlatformsPath
            n == 3
<1>1. p \in Seq(Q) /\ Len(p) = n /\ n \in Nat
  BY PlatformsPathIs
<1>2. a \in Seq(Q) /\ x \in Q
  <2>1. S \subseteq Q
    OBVIOUS
  <2>. HIDE DEF Q
  <2>. QED BY <2>1
<1>3. n + 1 = 4
  OBVIOUS
<1>. HIDE DEF Q, p, n
<1>4. Len(Append(a, x)) = n + 1 /\ IsPrefix(p, Append(a, x)) <=> a = p
  BY <1>1, <1>2, PathAndKey
<1>. QED BY <1>3, <1>4, Zenon DEF p

\* The path above a line has four keys: the platforms' and a platform's.
LEMMA InPlatform ==
    ASSUME NEW S, NEW a \in Seq(S), NEW x
    PROVE  /\ Len(a) = 4 /\ IsPrefix(PlatformsPath, a) => a = Append(PlatformsPath, a[4]) /\ a[4] \in S
           /\ a = Append(PlatformsPath, x) => Len(a) = 4 /\ IsPrefix(PlatformsPath, a) /\ a[4] = x /\ a # PlatformsPath
<1>. DEFINE Q == S \cup {"flutter", "plugin", "platforms", x}
            p == PlatformsPath
            n == 3
<1>1. p \in Seq(Q) /\ Len(p) = n /\ n \in Nat /\ x \in Q
  BY PlatformsPathIs
<1>2. a \in Seq(Q)
  <2>1. S \subseteq Q
    OBVIOUS
  <2>. HIDE DEF Q
  <2>. QED BY <2>1
<1>3. n + 1 = 4 /\ 4 # n
  OBVIOUS
<1>. HIDE DEF Q, p, n
<1>4. /\ Len(a) = n + 1 /\ IsPrefix(p, a) => a = Append(p, a[n + 1]) /\ a[n + 1] \in Q
      /\ a = Append(p, x) => Len(a) = n + 1 /\ IsPrefix(p, a) /\ a[n + 1] = x
  BY <1>1, <1>2, PathAndKey
<1>5. Len(a) = 4 => a[4] \in S
  <2>1. \A i \in 1..Len(a) : a[i] \in S
    OBVIOUS
  <2>2. Len(a) = 4 => 4 \in 1..Len(a)
    OBVIOUS
  <2>. QED BY <2>1, <2>2, Zenon
<1>6. a = Append(p, x) => a # p
  BY <1>1, <1>3, <1>4
<1>. QED BY <1>3, <1>4, <1>5, <1>6, Zenon DEF p

\* What one more line adds.
LEMMA OneMore ==
    ASSUME NEW yaml, IsText(yaml), NEW n \in 1..Len(yaml)
    PROVE  /\ \A p : /\ FieldOf(yaml, n, p) => BlockUpTo(yaml, n, p) = BlockUpTo(yaml, n - 1, p) \cup {n}
                     /\ ~FieldOf(yaml, n, p) => BlockUpTo(yaml, n, p) = BlockUpTo(yaml, n - 1, p)
                     /\ FlowOf(yaml, n, p) => FlowUpTo(yaml, n, p) = FlowUpTo(yaml, n - 1, p) \cup {n}
                     /\ ~FlowOf(yaml, n, p) => FlowUpTo(yaml, n, p) = FlowUpTo(yaml, n - 1, p)
           /\ DeclaresOne(yaml, n) => DeclaredUpTo(yaml, n) = DeclaredUpTo(yaml, n - 1) \cup {yaml[n].key}
           /\ ~DeclaresOne(yaml, n) => DeclaredUpTo(yaml, n) = DeclaredUpTo(yaml, n - 1)
           /\ ImplementsOne(yaml, n) => NamedUpTo(yaml, n) = NamedUpTo(yaml, n - 1) \cup {n}
           /\ ~ImplementsOne(yaml, n) => NamedUpTo(yaml, n) = NamedUpTo(yaml, n - 1)
<1>1. n \in Nat /\ 1..n = 1..(n - 1) \cup {n}
  BY DEF IsText
<1>. DEFINE m == n - 1
<1>2. 1..n = 1..m \cup {n}
  BY <1>1
<1>. HIDE DEF m
<1>3. ASSUME NEW p
      PROVE  /\ FieldOf(yaml, n, p) => BlockUpTo(yaml, n, p) = BlockUpTo(yaml, m, p) \cup {n}
             /\ ~FieldOf(yaml, n, p) => BlockUpTo(yaml, n, p) = BlockUpTo(yaml, m, p)
             /\ FlowOf(yaml, n, p) => FlowUpTo(yaml, n, p) = FlowUpTo(yaml, m, p) \cup {n}
             /\ ~FlowOf(yaml, n, p) => FlowUpTo(yaml, n, p) = FlowUpTo(yaml, m, p)
  BY <1>2 DEF BlockUpTo, FlowUpTo
<1>4. /\ ImplementsOne(yaml, n) => NamedUpTo(yaml, n) = NamedUpTo(yaml, m) \cup {n}
      /\ ~ImplementsOne(yaml, n) => NamedUpTo(yaml, n) = NamedUpTo(yaml, m)
  BY <1>2 DEF NamedUpTo
<1>5. /\ DeclaresOne(yaml, n) =>
            {i \in 1..n : DeclaresOne(yaml, i)} = {i \in 1..m : DeclaresOne(yaml, i)} \cup {n}
      /\ ~DeclaresOne(yaml, n) => {i \in 1..n : DeclaresOne(yaml, i)} = {i \in 1..m : DeclaresOne(yaml, i)}
  BY <1>2
<1>6. /\ DeclaresOne(yaml, n) => DeclaredUpTo(yaml, n) = DeclaredUpTo(yaml, m) \cup {yaml[n].key}
      /\ ~DeclaresOne(yaml, n) => DeclaredUpTo(yaml, n) = DeclaredUpTo(yaml, m)
  BY <1>5 DEF DeclaredUpTo
<1>. QED BY <1>3, <1>4, <1>6 DEF m

\* The lines a platform is declared on, and the lines of its fields, are one for each key.
LEMMA OneLineEach ==
    ASSUME NEW yaml, IsText(yaml), IsMapping(yaml), NEW i \in 1..Len(yaml), NEW j \in 1..Len(yaml),
           yaml[i].key = yaml[j].key
    PROVE  /\ DeclaresOne(yaml, i) /\ DeclaresOne(yaml, j) => i = j
           /\ ImplementsOne(yaml, i) /\ ImplementsOne(yaml, j) => i = j
           /\ \A p : FieldOf(yaml, i, p) /\ FieldOf(yaml, j, p) => i = j
<1>1. ASSUME DeclaresOne(yaml, i), DeclaresOne(yaml, j) PROVE i = j
  <2>1. IsKey(yaml, i) /\ IsKey(yaml, j) /\ PathAbove(yaml, i) = PathAbove(yaml, j)
    BY <1>1 DEF DeclaresOne, IsKey
  <2>. QED BY <2>1, UniqueKeys
<1>2. ASSUME ImplementsOne(yaml, i), ImplementsOne(yaml, j) PROVE i = j
  <2>1. IsKey(yaml, i) /\ IsKey(yaml, j)
    BY <1>2 DEF ImplementsOne, IsKey
  <2>2. PathAbove(yaml, i) = PathAbove(yaml, j)
    BY <1>2, Zenon DEF ImplementsOne
  <2>. QED BY <2>1, <2>2, UniqueKeys
<1>3. ASSUME NEW p, FieldOf(yaml, i, p), FieldOf(yaml, j, p) PROVE i = j
  <2>1. IsKey(yaml, i) /\ IsKey(yaml, j) /\ PathAbove(yaml, i) = PathAbove(yaml, j)
    BY <1>3, Zenon DEF FieldOf
  <2>. QED BY <2>1, UniqueKeys
<1>. QED BY <1>1, <1>2, <1>3

LEMMA FlowDeclares ==
    ASSUME NEW yaml, NEW i, NEW p, FlowOf(yaml, i, p)
    PROVE  DeclaresOne(yaml, i) /\ yaml[i].key = p
BY DEF FlowOf, DeclaresOne

\* A field of a platform has the block of the platform above it.
LEMMA FieldsAreBelow ==
    ASSUME NEW yaml, IsText(yaml), IsMapping(yaml), NEW i \in 1..Len(yaml), NEW p, FieldOf(yaml, i, p)
    PROVE  \E o \in 1..(i - 1) : DeclaresOne(yaml, o) /\ yaml[o].key = p /\ yaml[o].kind = "open"
<1>. DEFINE o == KeyAbove(yaml, i)
            a == PathAbove(yaml, i)
            P == PathsOf(yaml)
            S == KeysOf(yaml)
<1>1. a = Append(PlatformsPath, p)
  BY Zenon DEF FieldOf
<1>2. a \in Seq(S)
  BY PathsAreLists
<1>3. Len(a) = 4 /\ IsPrefix(PlatformsPath, a) /\ a[4] = p
  <2>. HIDE DEF a, S
  <2>. QED BY <1>1, <1>2, InPlatform, ZenonT(60)
<1>4. /\ Len(a) = 0 <=> o = 0
      /\ o # 0 => o \in 1..Len(yaml) /\ a = P[o]
  BY PathAboveIs
<1>5. o # 0
  <2>. DEFINE l == Len(a)
  <2>1. l = 4 /\ (o = 0 => l = 0)
    BY <1>3, <1>4
  <2>. HIDE DEF l, o
  <2>. QED BY <2>1
<1>6. o \in 1..(i - 1) /\ IsKey(yaml, o)
  BY <1>5, KeyAboveIs
<1>7. yaml[o].kind = "open"
  BY <1>5, MappingSays
<1>8. PathAbove(yaml, o) \in Seq(S) /\ yaml[o].key \in S /\ P[o] = Append(PathAbove(yaml, o), yaml[o].key)
  BY <1>4, <1>5, PathsAreLists DEF KeysOf
<1>. DEFINE b == PathAbove(yaml, o)
            k == yaml[o].key
<1>9. b \in Seq(S) /\ k \in S /\ a = Append(b, k)
  BY <1>4, <1>5, <1>8
<1>10. b = PlatformsPath
  <2>. HIDE DEF a, b, k, S
  <2>1. Len(Append(b, k)) = 4 /\ IsPrefix(PlatformsPath, Append(b, k))
    BY <1>3, <1>9, Zenon
  <2>. QED BY <1>9, <2>1, BelowPlatforms
<1>11. k = p
  <2>. DEFINE Q == S \cup {"flutter", "plugin", "platforms", p}
  <2>1. S \subseteq Q /\ p \in Q
    OBVIOUS
  <2>2. PlatformsPath \in Seq(Q)
    BY PlatformsPathIs
  <2>. HIDE DEF a, b, k, S, Q
  <2>3. k \in Q /\ Append(PlatformsPath, k) = Append(PlatformsPath, p)
    BY <1>1, <1>9, <1>10, <2>1
  <2>. QED BY <2>1, <2>2, <2>3, SameAppended
<1>12. DeclaresOne(yaml, o)
  BY <1>7, <1>10 DEF DeclaresOne
<1>. QED BY <1>6, <1>7, <1>11, <1>12

\* The kinds of lines are apart.
LEMMA FieldsDeclareNone ==
    ASSUME NEW yaml, IsText(yaml), NEW i \in 1..Len(yaml), NEW p, FieldOf(yaml, i, p)
    PROVE  ~DeclaresOne(yaml, i)
<1>. DEFINE a == PathAbove(yaml, i)
            S == KeysOf(yaml)
<1>1. a = Append(PlatformsPath, p)
  BY Zenon DEF FieldOf
<1>2. a \in Seq(S)
  BY PathsAreLists
<1>. HIDE DEF a, S
<1>3. a # PlatformsPath
  BY <1>1, <1>2, InPlatform
<1>. QED BY <1>3 DEF DeclaresOne, a

IsBlockMap(yaml, block, F) ==
    /\ DOMAIN F = {yaml[i].key : i \in block} /\ F = [f \in DOMAIN F |-> F[f]]
    /\ \A i \in block : F[yaml[i].key] = yaml[i].value

LEMMA FieldsOfBlock ==
    ASSUME NEW yaml, IsText(yaml), IsMapping(yaml), NEW n \in 0..Len(yaml), NEW p
    PROVE  IsBlockMap(yaml, BlockUpTo(yaml, n, p), FieldsOf(yaml, BlockUpTo(yaml, n, p), {}))
<1>. DEFINE B == BlockUpTo(yaml, n, p)
            D == {yaml[i].key : i \in B}
            F == FieldsOf(yaml, B, {})
<1>1. F = [f \in D |-> yaml[CHOOSE i \in B : yaml[i].key = f].value]
  BY Zenon DEF FieldsOf
<1>2. \A i \in B : i \in 1..Len(yaml) /\ FieldOf(yaml, i, p)
  BY DEF BlockUpTo, IsText
<1>3. \A i \in B : yaml[i].key \in D
  OBVIOUS
<1>. HIDE DEF B, D
<1>4. ASSUME NEW i \in B PROVE F[yaml[i].key] = yaml[i].value
  <2>. DEFINE f == yaml[i].key
              c == CHOOSE j \in B : yaml[j].key = f
  <2>1. c \in B /\ yaml[c].key = f
    BY Zenon
  <2>. HIDE DEF c
  <2>2. c = i
    BY <1>2, <2>1, OneLineEach
  <2>3. F[f] = yaml[c].value
    BY <1>1, <1>3 DEF c
  <2>. QED BY <2>2, <2>3
<1>. HIDE DEF F
<1>. QED BY <1>1, <1>4 DEF B, D, F, IsBlockMap

LEMMA SameMap ==
    ASSUME NEW D, NEW f, NEW g, f = [x \in D |-> f[x]], g = [x \in D |-> g[x]], \A x \in D : f[x] = g[x]
    PROVE  f = g
OBVIOUS

LEMMA PlatformsSay ==
    ASSUME NEW yaml, NEW n
    PROVE  /\ PlatformsUpTo(yaml, n) = [p \in DeclaredUpTo(yaml, n) |-> PlatformsUpTo(yaml, n)[p]]
           /\ DOMAIN PlatformsUpTo(yaml, n) = DeclaredUpTo(yaml, n)
           /\ \A p \in DeclaredUpTo(yaml, n) : PlatformsUpTo(yaml, n)[p] = FieldsUpTo(yaml, n, p)
BY DEF PlatformsUpTo

\* No line of the plugin's platforms.
LEMMA PlatformsStay ==
    ASSUME NEW yaml, IsText(yaml), NEW n \in 1..Len(yaml),
           ~DeclaresOne(yaml, n), \A p : ~FieldOf(yaml, n, p)
    PROVE  PlatformsUpTo(yaml, n) = PlatformsUpTo(yaml, n - 1)
<1>. DEFINE m == n - 1
<1>1. ASSUME NEW p PROVE FieldsUpTo(yaml, n, p) = FieldsUpTo(yaml, m, p)
  <2>1. BlockUpTo(yaml, n, p) = BlockUpTo(yaml, m, p)
    BY OneMore
  <2>2. ~FlowOf(yaml, n, p)
    BY FlowDeclares
  <2>3. FlowUpTo(yaml, n, p) = FlowUpTo(yaml, m, p)
    BY <2>2, OneMore
  <2>. QED BY <2>1, <2>3 DEF FieldsUpTo
<1>2. DeclaredUpTo(yaml, n) = DeclaredUpTo(yaml, m)
  BY OneMore, Zenon
<1>. HIDE DEF m
<1>3. \A p \in DeclaredUpTo(yaml, n) : PlatformsUpTo(yaml, n)[p] = PlatformsUpTo(yaml, m)[p]
  BY <1>1, <1>2, PlatformsSay
<1>4. PlatformsUpTo(yaml, n) = PlatformsUpTo(yaml, m)
  BY <1>2, <1>3, PlatformsSay, SameMap
<1>. QED BY <1>4 DEF m

\* A line that declares a platform.
LEMMA PlatformIsNew ==
    ASSUME NEW yaml, IsText(yaml), IsMapping(yaml), NEW n \in 1..Len(yaml), DeclaresOne(yaml, n)
    PROVE  PlatformsUpTo(yaml, n) =
              SetKey(PlatformsUpTo(yaml, n - 1), yaml[n].key,
                     IF yaml[n].kind = "flow" THEN yaml[n].value ELSE NoFields)
<1>. DEFINE m == n - 1
            k == yaml[n].key
            v == IF yaml[n].kind = "flow" THEN yaml[n].value ELSE NoFields
            A == PlatformsUpTo(yaml, n)
            B == PlatformsUpTo(yaml, m)
            C == SetKey(B, k, v)
            D == DeclaredUpTo(yaml, n)
<1>1. n \in Nat /\ m \in 0..Len(yaml) /\ n = m + 1
  BY DEF IsText
<1>2. D = DeclaredUpTo(yaml, m) \cup {k}
  BY OneMore, Zenon
<1>3. ASSUME NEW p, FieldOf(yaml, n, p) PROVE FALSE
  BY <1>3, FieldsDeclareNone
<1>4. ASSUME NEW p, p # k PROVE FieldsUpTo(yaml, n, p) = FieldsUpTo(yaml, m, p)
  <2>1. BlockUpTo(yaml, n, p) = BlockUpTo(yaml, m, p)
    BY <1>3, OneMore
  <2>2. ~FlowOf(yaml, n, p)
    BY <1>4, FlowDeclares
  <2>3. FlowUpTo(yaml, n, p) = FlowUpTo(yaml, m, p)
    BY <2>2, OneMore
  <2>. QED BY <2>1, <2>3 DEF FieldsUpTo
<1>5. FieldsUpTo(yaml, n, k) = v
  <2>1. \A i \in 1..n : i \in 1..Len(yaml)
    BY <1>1
  <2>2. \A i \in FlowUpTo(yaml, n, k) : i = n
    <3>1. ASSUME NEW i \in FlowUpTo(yaml, n, k) PROVE i = n
      <4>1. i \in 1..Len(yaml) /\ FlowOf(yaml, i, k)
        BY <2>1 DEF FlowUpTo
      <4>2. DeclaresOne(yaml, i) /\ yaml[i].key = yaml[n].key
        BY <4>1, FlowDeclares
      <4>. QED BY <4>1, <4>2, OneLineEach
    <3>. QED BY <3>1
  <2>3. CASE yaml[n].kind = "flow"
    <3>1. n \in FlowUpTo(yaml, n, k)
      <4>1. FlowOf(yaml, n, k)
        BY <2>3 DEF FlowOf, DeclaresOne
      <4>2. n \in 1..n
        BY <1>1
      <4>. QED BY <4>1, <4>2 DEF FlowUpTo
    <3>2. FlowUpTo(yaml, n, k) = {n}
      BY <2>2, <3>1
    <3>3. (CHOOSE i \in {n} : TRUE) = n
      OBVIOUS
    <3>4. FieldsUpTo(yaml, n, k) = yaml[CHOOSE i \in {n} : TRUE].value
      BY <3>2 DEF FieldsUpTo, FieldsOf
    <3>. QED BY <2>3, <3>3, <3>4
  <2>4. CASE yaml[n].kind # "flow"
    <3>1. n \notin FlowUpTo(yaml, n, k)
      BY <2>4 DEF FlowUpTo, FlowOf
    <3>2. FlowUpTo(yaml, n, k) = {}
      BY <2>2, <3>1
    <3>3. BlockUpTo(yaml, n, k) = {}
      <4>1. ASSUME NEW i \in BlockUpTo(yaml, n, k) PROVE FALSE
        <5>1. i \in 1..n /\ i \in 1..Len(yaml) /\ FieldOf(yaml, i, k)
          BY <2>1, <4>1 DEF BlockUpTo
        <5>2. PICK o \in 1..(i - 1) : DeclaresOne(yaml, o) /\ yaml[o].key = k
          BY <5>1, FieldsAreBelow
        <5>3. o \in 1..Len(yaml) /\ o # n
          BY <1>1, <5>1, <5>2
        <5>. QED BY <5>2, <5>3, OneLineEach
      <4>. QED BY <4>1
    <3>4. FieldsUpTo(yaml, n, k) = FieldsOf(yaml, {}, {})
      BY <3>2, <3>3 DEF FieldsUpTo
    <3>5. FieldsOf(yaml, {}, {}) = NoFields
      BY DEF FieldsOf, NoFields
    <3>. QED BY <2>4, <3>4, <3>5
  <2>. QED BY <2>3, <2>4
<1>6. DOMAIN B = DeclaredUpTo(yaml, m)
  BY PlatformsSay
<1>. HIDE DEF m, k, v, B, D
<1>7. /\ C = [x \in D |-> C[x]]
      /\ \A x \in D : C[x] = IF x = k THEN v ELSE B[x]
  BY <1>2, <1>6 DEF SetKey
<1>8. /\ A = [x \in D |-> A[x]]
      /\ \A x \in D : A[x] = FieldsUpTo(yaml, n, x)
  BY PlatformsSay DEF D
<1>9. ASSUME NEW x \in D PROVE A[x] = C[x]
  <2>1. CASE x = k
    BY <1>5, <1>7, <1>8, <2>1
  <2>2. CASE x # k
    <3>1. x \in DeclaredUpTo(yaml, m)
      BY <1>2, <2>2
    <3>2. B[x] = FieldsUpTo(yaml, m, x)
      BY <3>1, PlatformsSay DEF B
    <3>. QED BY <1>4, <1>7, <1>8, <2>2, <3>2
  <2>. QED BY <2>1, <2>2
<1>. HIDE DEF A, C
<1>10. A = C
  BY <1>7, <1>8, <1>9, SameMap
<1>. QED BY <1>10 DEF A, C, B, k, v, m

\* A line that is a field of a platform.
LEMMA FieldIsNew ==
    ASSUME NEW yaml, IsText(yaml), IsMapping(yaml), NEW n \in 1..Len(yaml), NEW q, FieldOf(yaml, n, q)
    PROVE  PlatformsUpTo(yaml, n) =
              [PlatformsUpTo(yaml, n - 1) EXCEPT ![q] = SetKey(@, yaml[n].key, yaml[n].value)]
<1>. DEFINE m == n - 1
            k == yaml[n].key
            v == yaml[n].value
            A == PlatformsUpTo(yaml, n)
            B == PlatformsUpTo(yaml, m)
            C == [B EXCEPT ![q] = SetKey(B[q], k, v)]
            D == DeclaredUpTo(yaml, n)
<1>1. n \in Nat /\ m \in 0..Len(yaml) /\ n = m + 1 /\ n \in 0..Len(yaml)
  BY DEF IsText
<1>2. ~DeclaresOne(yaml, n)
  BY FieldsDeclareNone
<1>3. D = DeclaredUpTo(yaml, m)
  BY <1>2, OneMore, Zenon
<1>4. PICK o \in 1..(n - 1) : DeclaresOne(yaml, o) /\ yaml[o].key = q /\ yaml[o].kind = "open"
  BY FieldsAreBelow
<1>5. q \in DeclaredUpTo(yaml, m) /\ o \in 1..Len(yaml)
  BY <1>1, <1>4 DEF DeclaredUpTo
<1>6. FlowUpTo(yaml, n, q) = {} /\ FlowUpTo(yaml, m, q) = {}
  <2>1. ASSUME NEW i \in 1..n, FlowOf(yaml, i, q) PROVE FALSE
    <3>1. i \in 1..Len(yaml)
      BY <1>1
    <3>2. DeclaresOne(yaml, i) /\ yaml[i].key = q /\ yaml[i].kind = "flow"
      BY <2>1, FlowDeclares DEF FlowOf
    <3>3. i = o
      BY <1>4, <1>5, <3>1, <3>2, OneLineEach
    <3>. QED BY <1>4, <3>2, <3>3
  <2>2. \A i \in 1..m : i \in 1..n
    BY <1>1
  <2>. QED BY <2>1, <2>2 DEF FlowUpTo
<1>7. ASSUME NEW p, p # q PROVE FieldsUpTo(yaml, n, p) = FieldsUpTo(yaml, m, p)
  <2>1. ~FieldOf(yaml, n, p)
    <3>1. ASSUME FieldOf(yaml, n, p) PROVE FALSE
      <4>1. Append(PlatformsPath, p) = Append(PlatformsPath, q)
        BY <3>1, Zenon DEF FieldOf
      <4>. DEFINE Q == {"flutter", "plugin", "platforms", p, q}
      <4>2. PlatformsPath \in Seq(Q) /\ p \in Q /\ q \in Q
        BY PlatformsPathIs
      <4>. HIDE DEF Q
      <4>3. p = q
        BY <4>1, <4>2, SameAppended
      <4>. QED BY <1>7, <4>3
    <3>. QED BY <3>1
  <2>2. BlockUpTo(yaml, n, p) = BlockUpTo(yaml, m, p)
    BY <2>1, OneMore
  <2>3. ~FlowOf(yaml, n, p)
    BY <1>2, FlowDeclares
  <2>4. FlowUpTo(yaml, n, p) = FlowUpTo(yaml, m, p)
    BY <2>3, OneMore
  <2>. QED BY <2>2, <2>4 DEF FieldsUpTo
<1>8. FieldsUpTo(yaml, n, q) = SetKey(FieldsUpTo(yaml, m, q), k, v)
  <2>. DEFINE b == BlockUpTo(yaml, n, q)
              c == BlockUpTo(yaml, m, q)
              F == FieldsUpTo(yaml, n, q)
              G == FieldsUpTo(yaml, m, q)
              H == SetKey(G, k, v)
              E == {yaml[i].key : i \in b}
  <2>1. F = FieldsOf(yaml, b, {}) /\ G = FieldsOf(yaml, c, {})
    BY <1>6 DEF FieldsUpTo
  <2>2. b = c \cup {n}
    BY OneMore
  <2>3. /\ DOMAIN F = {yaml[i].key : i \in b} /\ F = [f \in DOMAIN F |-> F[f]]
        /\ \A i \in b : F[yaml[i].key] = yaml[i].value
    <3>1. IsBlockMap(yaml, b, FieldsOf(yaml, b, {}))
      BY <1>1, FieldsOfBlock
    <3>2. IsBlockMap(yaml, b, F)
      BY <2>1, <3>1, Zenon
    <3>. HIDE DEF F, b
    <3>. QED BY <3>2 DEF IsBlockMap
  <2>4. /\ DOMAIN G = {yaml[i].key : i \in c}
        /\ \A i \in c : G[yaml[i].key] = yaml[i].value
    <3>1. IsBlockMap(yaml, c, FieldsOf(yaml, c, {}))
      BY <1>1, FieldsOfBlock
    <3>2. IsBlockMap(yaml, c, G)
      BY <2>1, <3>1, Zenon
    <3>. HIDE DEF G, c
    <3>. QED BY <3>2 DEF IsBlockMap
  <2>5. ASSUME NEW i \in c PROVE yaml[i].key # k
    <3>1. i \in 1..m /\ FieldOf(yaml, i, q)
      BY DEF BlockUpTo
    <3>2. i \in 1..Len(yaml) /\ i # n
      BY <1>1, <3>1
    <3>. QED BY <3>1, <3>2, OneLineEach
  <2>. HIDE DEF F, G, b, c, k, v, E
  <2>6. E = {yaml[i].key : i \in c} \cup {k}
    BY <2>2 DEF E, k
  <2>7. /\ H = [f \in E |-> H[f]]
        /\ \A f \in E : H[f] = IF f = k THEN v ELSE G[f]
    BY <2>4, <2>6 DEF SetKey
  <2>8. ASSUME NEW f \in E PROVE F[f] = H[f]
    <3>1. PICK i \in b : f = yaml[i].key
      BY DEF E
    <3>2. CASE i = n
      BY <2>3, <2>7, <3>1, <3>2 DEF k, v
    <3>3. CASE i \in c
      BY <2>3, <2>4, <2>5, <2>7, <3>1, <3>3
    <3>. QED BY <2>2, <3>2, <3>3
  <2>9. F = [f \in E |-> F[f]]
    BY <2>3 DEF E
  <2>. HIDE DEF H
  <2>10. F = H
    BY <2>7, <2>8, <2>9, SameMap
  <2>. QED BY <2>10 DEF F, H, G
<1>9. /\ DOMAIN B = D /\ B = [x \in D |-> B[x]]
      /\ \A x \in D : B[x] = FieldsUpTo(yaml, m, x)
  BY <1>3, PlatformsSay
<1>10. /\ A = [x \in D |-> A[x]]
       /\ \A x \in D : A[x] = FieldsUpTo(yaml, n, x)
  BY PlatformsSay
<1>. HIDE DEF m, k, v, A, B, D
<1>11. /\ C = [x \in D |-> C[x]]
       /\ \A x \in D : C[x] = IF x = q THEN SetKey(B[q], k, v) ELSE B[x]
  BY <1>9
<1>12. ASSUME NEW x \in D PROVE A[x] = C[x]
  <2>1. CASE x = q
    BY <1>8, <1>9, <1>10, <1>11, <2>1
  <2>2. CASE x # q
    BY <1>7, <1>9, <1>10, <1>11, <2>2
  <2>. QED BY <2>1, <2>2
<1>. HIDE DEF C
<1>13. A = C
  BY <1>10, <1>11, <1>12, SameMap
<1>. QED BY <1>13 DEF A, C, B, k, v, m

LEMMA ImplementsNext ==
    ASSUME NEW yaml, IsText(yaml), IsMapping(yaml), NEW n \in 1..Len(yaml)
    PROVE  ImplementsUpTo(yaml, n) =
              IF ImplementsOne(yaml, n) THEN yaml[n].value ELSE ImplementsUpTo(yaml, n - 1)
<1>. DEFINE m == n - 1
            B == NamedUpTo(yaml, n)
<1>1. n \in Nat /\ \A i \in 1..n : i \in 1..Len(yaml)
  BY DEF IsText
<1>2. CASE ImplementsOne(yaml, n)
  <2>1. ASSUME NEW i \in B PROVE i = n
    <3>1. i \in 1..Len(yaml) /\ ImplementsOne(yaml, i)
      BY <1>1 DEF NamedUpTo
    <3>2. yaml[i].key = yaml[n].key
      BY <1>2, <3>1 DEF ImplementsOne
    <3>. QED BY <1>2, <3>1, <3>2, OneLineEach
  <2>2. n \in B
    BY <1>1, <1>2 DEF NamedUpTo
  <2>. HIDE DEF B
  <2>3. B = {n}
    BY <2>1, <2>2
  <2>4. (CHOOSE i \in {n} : TRUE) = n
    OBVIOUS
  <2>5. ImplementsUpTo(yaml, n) = yaml[CHOOSE i \in {n} : TRUE].value
    BY <2>3 DEF ImplementsUpTo, ImplementsOf, B
  <2>. QED BY <1>2, <2>4, <2>5
<1>3. CASE ~ImplementsOne(yaml, n)
  <2>1. NamedUpTo(yaml, n) = NamedUpTo(yaml, m)
    BY <1>3, OneMore, Zenon
  <2>. HIDE DEF m
  <2>2. ImplementsUpTo(yaml, n) = ImplementsUpTo(yaml, m)
    BY <2>1 DEF ImplementsUpTo
  <2>. QED BY <1>3, <2>2 DEF m
<1>. QED BY <1>2, <1>3

\* What pubspec_flutter_plugins holds after n lines.
ReadIs(yaml, n, r) ==
    /\ \E at : Standing(yaml, n, r.stack, at)
    /\ r.implements = ImplementsUpTo(yaml, n) /\ r.platforms = PlatformsUpTo(yaml, n)

LEMMA ReadAtStart ==
    ASSUME NEW yaml, IsText(yaml)
    PROVE  ReadIs(yaml, 0, NothingRead)
<1>1. 1..0 = {}
  OBVIOUS
<1>2. Standing(yaml, 0, <<>>, <<>>)
  <2>1. <<>> \in Seq(Lines(yaml)) /\ Len(<<>>) = 0 /\ <<>> \in [1..0 -> 1..0]
    OBVIOUS
  <2>. QED BY <1>1, <2>1 DEF Standing
<1>3. NamedUpTo(yaml, 0) = {} /\ DeclaredUpTo(yaml, 0) = {}
  BY <1>1 DEF NamedUpTo, DeclaredUpTo
<1>4. ImplementsUpTo(yaml, 0) = ""
  BY <1>3 DEF ImplementsUpTo, ImplementsOf
<1>5. PlatformsUpTo(yaml, 0) = [p \in {} |-> NoFields]
  BY <1>3 DEF PlatformsUpTo
<1>6. NothingRead.stack = <<>> /\ NothingRead.implements = "" /\ NothingRead.platforms = [p \in {} |-> NoFields]
  BY DEF NothingRead
<1>. QED BY <1>2, <1>4, <1>5, <1>6 DEF ReadIs

\* No comment is where a value is read (CommentsAreNone), by the path above each line.
NoComments(yaml) ==
    \A i \in 1..Len(yaml) : yaml[i].kind = "open" /\ yaml[i].value # "" =>
        /\ ~(yaml[i].key = "implements" /\ PathAbove(yaml, i) = <<"flutter", "plugin">>)
        /\ \A p : PathAbove(yaml, i) # Append(PlatformsPath, p)

LEMMA ReadNext ==
    ASSUME NEW yaml, IsText(yaml), IsMapping(yaml), NoComments(yaml),
           NEW n \in 1..Len(yaml), NEW r, ReadIs(yaml, n - 1, r)
    PROVE  ReadIs(yaml, n, ReadPlugin(r, yaml[n]))
<1>. DEFINE row == yaml[n]
            s == r.stack
            a == PathAbove(yaml, n)
            S == KeysOf(yaml)
<1>1. PICK at : Standing(yaml, n - 1, s, at)
  BY DEF ReadIs
<1>2. r.implements = ImplementsUpTo(yaml, n - 1) /\ r.platforms = PlatformsUpTo(yaml, n - 1)
  BY DEF ReadIs
<1>3. row.kind \in {"open", "scalar", "flow", "item"} /\ (IsKey(yaml, n) <=> row.kind # "item")
  <2>1. n \in DOMAIN yaml /\ row.kind \in {"open", "scalar", "flow", "cut", "item"}
    BY DEF IsText
  <2>2. row.kind # "cut"
    BY <2>1, Zenon DEF IsMapping
  <2>. QED BY <2>1, <2>2 DEF IsKey
<1>4. CASE ~IsKey(yaml, n)
  <2>1. ReadPlugin(r, row) = r
    BY <1>3, <1>4 DEF ReadPlugin
  <2>2. Standing(yaml, n, s, at)
    BY <1>1, <1>4, StandingStays
  <2>3. ~ImplementsOne(yaml, n) /\ ~DeclaresOne(yaml, n) /\ \A p : ~FieldOf(yaml, n, p)
    BY <1>3, <1>4 DEF ImplementsOne, DeclaresOne, FieldOf
  <2>4. ImplementsUpTo(yaml, n) = ImplementsUpTo(yaml, n - 1)
    BY <2>3, ImplementsNext
  <2>5. PlatformsUpTo(yaml, n) = PlatformsUpTo(yaml, n - 1)
    BY <2>3, PlatformsStay
  <2>. QED BY <1>2, <2>1, <2>2, <2>4, <2>5 DEF ReadIs
<1>5. CASE IsKey(yaml, n)
  <2>. DEFINE e == Enclosing(s, row.indent)
              g == IF row.kind = "open" THEN Append(e, row) ELSE e
              i == IF a = <<"flutter", "plugin">> /\ row.key = "implements" /\ HasValue(row)
                   THEN row.value ELSE r.implements
              f == IF DeclaresPlatform(a, row)
                   THEN SetKey(r.platforms, row.key, IF row.kind = "flow" THEN row.value ELSE NoFields)
                   ELSE IF IsPlatformField(a, row)
                   THEN [r.platforms EXCEPT ![a[4]] = SetKey(@, row.key, row.value)]
                   ELSE r.platforms
              z == ReadPlugin(r, row)
  <2>1. a = [j \in DOMAIN e |-> e[j].key]
    BY <1>1, <1>5, EnclosingPath
  <2>2. z = ReadKey(r, row)
    BY <1>3, <1>5 DEF ReadPlugin
  <2>3. ReadKey(r, row) = [stack |-> g, implements |-> i, platforms |-> f]
    <3>. DEFINE route == RouteOf(e)
    <3>1. ReadKey(r, row) =
             [stack |-> IF row.kind = "open" THEN Append(e, row) ELSE e,
              implements |->
                 IF route = <<"flutter", "plugin">> /\ row.key = "implements" /\ HasValue(row)
                 THEN row.value ELSE r.implements,
              platforms |->
                 IF DeclaresPlatform(route, row)
                 THEN SetKey(r.platforms, row.key, IF row.kind = "flow" THEN row.value ELSE NoFields)
                 ELSE IF IsPlatformField(route, row)
                 THEN [r.platforms EXCEPT ![route[4]] = SetKey(@, row.key, row.value)]
                 ELSE r.platforms]
      BY Zenon DEF ReadKey
    <3>2. a = route
      BY <2>1, Zenon DEF RouteOf
    <3>. HIDE DEF a, route
    <3>. QED BY <3>1, <3>2, Zenon
  <2>4. \E b : Standing(yaml, n, g, b)
    BY <1>1, <1>5, StandingNext
  <2>5. a \in Seq(S)
    BY PathsAreLists
  <2>6. i = ImplementsUpTo(yaml, n)
    <3>1. (a = <<"flutter", "plugin">> /\ row.key = "implements" /\ HasValue(row)) <=> ImplementsOne(yaml, n)
      BY <1>3, <1>5 DEF ImplementsOne, HasValue, NoComments
    <3>2. ImplementsUpTo(yaml, n) =
             IF ImplementsOne(yaml, n) THEN row.value ELSE ImplementsUpTo(yaml, n - 1)
      BY ImplementsNext
    <3>. QED BY <1>2, <3>1, <3>2
  <2>7. DeclaresPlatform(a, row) <=> DeclaresOne(yaml, n)
    BY <1>3, <1>5 DEF DeclaresPlatform, DeclaresOne
  <2>8. \A p : FieldOf(yaml, n, p) => IsPlatformField(a, row) /\ a[4] = p
    <3>1. ASSUME NEW p, FieldOf(yaml, n, p) PROVE IsPlatformField(a, row) /\ a[4] = p
      <4>1. a = Append(PlatformsPath, p)
        BY <3>1, Zenon DEF FieldOf
      <4>3. row.kind # "open"
        BY <3>1, Zenon DEF FieldOf
      <4>. HIDE DEF a, S
      <4>2. Len(a) = 4 /\ IsPrefix(PlatformsPath, a) /\ a[4] = p
        BY <2>5, <4>1, InPlatform, ZenonT(60)
      <4>. QED BY <4>2, <4>3 DEF IsPlatformField, HasValue
    <3>. QED BY <3>1
  <2>9. IsPlatformField(a, row) => FieldOf(yaml, n, a[4])
    <3>1. ASSUME IsPlatformField(a, row) PROVE FieldOf(yaml, n, a[4])
      <4>1. Len(a) = 4 /\ IsPrefix(PlatformsPath, a) /\ HasValue(row)
        BY <3>1 DEF IsPlatformField
      <4>2. a = Append(PlatformsPath, a[4])
        <5>. HIDE DEF a, S
        <5>. QED BY <2>5, <4>1, InPlatform
      <4>3. row.kind # "open"
        BY <4>1, <4>2, Zenon DEF HasValue, NoComments
      <4>. QED BY <1>5, <4>2, <4>3 DEF FieldOf
    <3>. QED BY <3>1
  <2>10. f = PlatformsUpTo(yaml, n)
    <3>1. CASE DeclaresOne(yaml, n)
      <4>1. f = SetKey(r.platforms, row.key, IF row.kind = "flow" THEN row.value ELSE NoFields)
        BY <2>7, <3>1
      <4>. HIDE DEF f
      <4>. QED BY <1>2, <3>1, <4>1, PlatformIsNew
    <3>2. CASE ~DeclaresOne(yaml, n) /\ IsPlatformField(a, row)
      <4>1. f = [r.platforms EXCEPT ![a[4]] = SetKey(@, row.key, row.value)]
        BY <2>7, <3>2
      <4>2. FieldOf(yaml, n, a[4])
        BY <2>9, <3>2
      <4>3. PlatformsUpTo(yaml, n) =
               [PlatformsUpTo(yaml, n - 1) EXCEPT ![a[4]] = SetKey(@, row.key, row.value)]
        BY <4>2, FieldIsNew
      <4>. HIDE DEF f, a
      <4>. QED BY <1>2, <4>1, <4>3
    <3>3. CASE ~DeclaresOne(yaml, n) /\ ~IsPlatformField(a, row)
      <4>1. f = r.platforms
        BY <2>7, <3>3
      <4>2. \A p : ~FieldOf(yaml, n, p)
        BY <2>8, <3>3
      <4>3. PlatformsUpTo(yaml, n) = PlatformsUpTo(yaml, n - 1)
        BY <3>3, <4>2, PlatformsStay
      <4>. HIDE DEF f
      <4>. QED BY <1>2, <4>1, <4>3
    <3>. QED BY <3>1, <3>2, <3>3
  <2>. HIDE DEF f, g, i, z
  <2>11. z.stack = g /\ z.implements = i /\ z.platforms = f
    BY <2>2, <2>3
  <2>12. ReadIs(yaml, n, z)
    BY <2>4, <2>6, <2>10, <2>11 DEF ReadIs
  <2>. QED BY <2>12 DEF z
<1>. QED BY <1>4, <1>5

\* The reading is a recursion that has a solution.
IsReadingUpTo(yaml, f, n) ==
    \A i \in 0..n : f[i] = IF i = 0 THEN NothingRead ELSE ReadPlugin(f[i - 1], yaml[i])

LEMMA PluginsReadIs ==
    ASSUME NEW yaml, IsText(yaml)
    PROVE  IsReadingUpTo(yaml, PluginsRead(yaml), Len(yaml))
<1>. DEFINE L == Len(yaml)
            After(f, i) == IF i = 0 THEN NothingRead ELSE ReadPlugin(f[i - 1], yaml[i])
            T == {n \in 0..L : ~\E f : IsReadingUpTo(yaml, f, n)}
<1>1. L \in Nat
  BY DEF IsText
<1>2. ASSUME T # {} PROVE FALSE
  <2>1. PICK n \in T : \A m \in T : n <= m
    <3>1. T \subseteq Nat
      BY <1>1
    <3>. HIDE DEF T
    <3>. QED BY <1>2, <3>1, LeastNumber
  <2>2. n \in 0..L /\ ~\E f : IsReadingUpTo(yaml, f, n)
    BY <2>1
  <2>3. n # 0
    <3>. DEFINE z == [i \in 0..0 |-> NothingRead]
    <3>1. z[0] = NothingRead /\ \A i \in 0..0 : i = 0
      OBVIOUS
    <3>. HIDE DEF z
    <3>2. IsReadingUpTo(yaml, z, 0)
      BY <3>1 DEF IsReadingUpTo
    <3>. QED BY <2>2, <3>2
  <2>4. n - 1 \in 0..L /\ ~(n <= n - 1) /\ n \in 1..L /\ n \in Nat
    BY <1>1, <2>2, <2>3
  <2>5. n - 1 \notin T
    <3>. HIDE DEF T
    <3>. QED BY <2>1, <2>4
  <2>6. PICK f : IsReadingUpTo(yaml, f, n - 1)
    BY <2>4, <2>5
  <2>. DEFINE x == After(f, n)
              g == [i \in 0..n |-> IF i = n THEN x ELSE f[i]]
  <2>7. g[n] = x /\ \A i \in 0..(n - 1) : g[i] = f[i]
    <3>. HIDE DEF x
    <3>. QED BY <2>4
  <2>. HIDE DEF g
  <2>8. ASSUME NEW i \in 0..n PROVE g[i] = After(g, i)
    <3>1. i # 0 => i - 1 \in 0..(n - 1)
      BY <2>4
    <3>2. After(g, i) = After(f, i)
      BY <2>7, <3>1
    <3>3. CASE i = n
      BY <2>7, <3>2, <3>3
    <3>4. CASE i # n
      <4>1. i \in 0..(n - 1)
        BY <2>4, <3>4
      <4>2. f[i] = After(f, i)
        BY <2>6, <4>1 DEF IsReadingUpTo
      <4>. HIDE DEF After
      <4>. QED BY <2>7, <3>2, <4>1, <4>2
    <3>. QED BY <3>3, <3>4
  <2>9. IsReadingUpTo(yaml, g, n)
    BY <2>8 DEF IsReadingUpTo
  <2>. QED BY <2>2, <2>9
<1>3. PICK f : IsReadingUpTo(yaml, f, L)
  <2>1. L \in 0..L
    BY <1>1
  <2>. QED BY <1>2, <2>1
<1>. DEFINE h == [i \in 0..L |-> f[i]]
<1>4. \A i \in 0..L : h[i] = f[i]
  OBVIOUS
<1>5. \A i \in 0..L : h[i] = After(h, i)
  <2>1. ASSUME NEW i \in 0..L PROVE h[i] = After(h, i)
    <3>1. i # 0 => i - 1 \in 0..L
      BY <1>1
    <3>2. f[i] = After(f, i)
      BY <1>3 DEF IsReadingUpTo
    <3>. HIDE DEF h
    <3>3. After(h, i) = After(f, i)
      BY <1>4, <3>1
    <3>4. h[i] = f[i]
      BY <1>4
    <3>. HIDE DEF After
    <3>. QED BY <3>2, <3>3, <3>4
  <2>. QED BY <2>1
<1>6. h = [i \in 0..L |-> After(h, i)]
  <2>1. h = [i \in 0..L |-> h[i]]
    OBVIOUS
  <2>. HIDE DEF h, After
  <2>. QED BY <1>5, <2>1
<1>. HIDE DEF h
<1>7. PluginsRead(yaml) = CHOOSE read : read = [i \in 0..L |-> After(read, i)]
  BY Zenon DEF PluginsRead
<1>8. PluginsRead(yaml) = [i \in 0..L |-> After(PluginsRead(yaml), i)]
  <2>. HIDE DEF After
  <2>. QED BY <1>6, <1>7, Zenon
<1>9. ASSUME NEW i \in 0..L PROVE PluginsRead(yaml)[i] = After(PluginsRead(yaml), i)
  <2>. DEFINE P == PluginsRead(yaml)
  <2>. HIDE DEF P, After
  <2>1. P = [j \in 0..L |-> After(P, j)]
    BY <1>8 DEF P
  <2>2. P[i] = After(P, i)
    BY <2>1
  <2>. QED BY <2>2 DEF P
<1>. QED BY <1>9 DEF IsReadingUpTo

LEMMA ReadAlways ==
    ASSUME NEW yaml, IsText(yaml), IsMapping(yaml), NoComments(yaml)
    PROVE  ReadIs(yaml, Len(yaml), PluginsRead(yaml)[Len(yaml)])
<1>. DEFINE L == Len(yaml)
            R == PluginsRead(yaml)
            T == {n \in 0..L : ~ReadIs(yaml, n, R[n])}
<1>1. L \in Nat
  BY DEF IsText
<1>2. \A i \in 0..L : R[i] = IF i = 0 THEN NothingRead ELSE ReadPlugin(R[i - 1], yaml[i])
  BY PluginsReadIs DEF IsReadingUpTo
<1>. HIDE DEF R
<1>3. ASSUME T # {} PROVE FALSE
  <2>1. PICK n \in T : \A m \in T : n <= m
    <3>1. T \subseteq Nat
      BY <1>1
    <3>. HIDE DEF T
    <3>. QED BY <1>3, <3>1, LeastNumber
  <2>2. n \in 0..L /\ ~ReadIs(yaml, n, R[n])
    BY <2>1
  <2>3. n # 0
    BY <1>2, <2>2, ReadAtStart
  <2>4. n - 1 \in 0..L /\ ~(n <= n - 1) /\ n \in 1..L
    BY <1>1, <2>2, <2>3
  <2>5. n - 1 \notin T
    <3>. HIDE DEF T
    <3>. QED BY <2>1, <2>4
  <2>6. ReadIs(yaml, n - 1, R[n - 1])
    BY <2>4, <2>5
  <2>7. R[n] = ReadPlugin(R[n - 1], yaml[n])
    BY <1>2, <2>2, <2>3
  <2>. QED BY <2>2, <2>4, <2>6, <2>7, ReadNext
<1>4. L \in 0..L
  BY <1>1
<1>. QED BY <1>3, <1>4 DEF R

LEMMA ThirdKey ==
    ASSUME NEW a, NEW b, NEW c
    PROVE  Append(<<a, b>>, c) = <<a, b, c>>
<1>. DEFINE S == {a, b, c}
            s == <<a, b>>
            d == <<a, b, c>>
            t == Append(s, c)
            n == 2
<1>1. s \in Seq(S) /\ Len(s) = n /\ s[1] = a /\ s[2] = b /\ c \in S /\ n \in Nat
  OBVIOUS
<1>2. d \in Seq(S) /\ Len(d) = 3 /\ d[1] = a /\ d[2] = b /\ d[3] = c
  OBVIOUS
<1>3. n + 1 = 3 /\ 1 \in 1..n /\ 2 \in 1..n /\ \A i \in 1..3 : i = 1 \/ i = 2 \/ i = 3
  OBVIOUS
<1>. HIDE DEF S, s, d, n
<1>4. t \in Seq(S) /\ Len(t) = n + 1 /\ t[n + 1] = c /\ \A i \in 1..n : t[i] = s[i]
  BY <1>1, Appended
<1>. HIDE DEF t
<1>5. t[1] = a /\ t[2] = b /\ t[3] = c /\ Len(t) = 3
  BY <1>1, <1>3, <1>4
<1>6. Len(t) = Len(d) /\ \A i \in 1..Len(t) : t[i] = d[i]
  BY <1>2, <1>3, <1>5
<1>7. t = d
  BY <1>2, <1>4, <1>6, SameList
<1>. QED BY <1>7 DEF t, s, d

\* A line's path: that of the line above it, and its key.
LEMMA PathEnds ==
    ASSUME NEW yaml, IsText(yaml), IsMapping(yaml), NEW i \in 1..Len(yaml)
    PROVE  /\ PathsOf(yaml)[i] = Append(PathAbove(yaml, i), yaml[i].key)
           /\ PathsOf(yaml)[i] # <<>> /\ Front(PathsOf(yaml)[i]) = PathAbove(yaml, i)
           /\ \A p : PathAbove(yaml, i) = Append(PlatformsPath, p) =>
                 /\ Len(PathsOf(yaml)[i]) = 5
                 /\ IsPrefix(PlatformsPath, PathAbove(yaml, i))
<1>. DEFINE S == KeysOf(yaml)
            c == PathsOf(yaml)[i]
            a == PathAbove(yaml, i)
            k == yaml[i].key
<1>1. a \in Seq(S) /\ k \in S /\ c = Append(a, k)
  BY PathsAreLists DEF KeysOf
<1>. HIDE DEF a, k, S, c
<1>2. c \in Seq(S) /\ c # <<>>
  BY <1>1
<1>3. Front(c) \in Seq(S) /\ c = Append(Front(c), Last(c)) /\ Last(c) \in S
  BY <1>2, FrontIs
<1>. DEFINE f == Front(c)
            l == Last(c)
<1>4. a = f
  <2>. HIDE DEF f, l
  <2>1. f \in Seq(S) /\ l \in S /\ Append(a, k) = Append(f, l)
    BY <1>1, <1>3 DEF f, l
  <2>. QED BY <1>1, <2>1, SameAppended
<1>5. ASSUME NEW p, a = Append(PlatformsPath, p) PROVE Len(c) = 5 /\ IsPrefix(PlatformsPath, a)
  <2>1. Len(a) = 4 /\ IsPrefix(PlatformsPath, a)
    BY <1>1, <1>5, InPlatform
  <2>. DEFINE m == Len(a)
              M == Len(Append(a, k))
  <2>2. m \in Nat /\ M = m + 1
    BY <1>1
  <2>3. m = 4
    BY <2>1
  <2>. HIDE DEF m, M
  <2>4. M = 5
    BY <2>2, <2>3
  <2>. QED BY <1>1, <2>1, <2>4, Zenon DEF M
<1>. QED BY <1>1, <1>2, <1>4, <1>5 DEF a, k, c

\* What the text says of the plugin, by the path above each line.
LEMMA PluginsAre ==
    ASSUME NEW yaml, IsText(yaml), IsMapping(yaml)
    PROVE  PluginsSaid(yaml) = [implements |-> ImplementsUpTo(yaml, Len(yaml)),
                                platforms |-> PlatformsUpTo(yaml, Len(yaml))]
<1>. DEFINE L == Len(yaml)
            S == KeysOf(yaml)
            at == PathsOf(yaml)
            declares == {i \in DOMAIN yaml : yaml[i].kind \in {"open", "flow"}
                                             /\ Len(at[i]) = 4 /\ IsPrefix(PlatformsPath, at[i])}
            named == {i \in DOMAIN yaml : yaml[i].kind \in {"scalar", "flow"}
                                          /\ at[i] = <<"flutter", "plugin", "implements">>}
<1>1. L \in Nat /\ DOMAIN yaml = 1..L
  BY DEF IsText
<1>2. ASSUME NEW i \in 1..L
      PROVE  /\ PathAbove(yaml, i) \in Seq(S) /\ yaml[i].key \in S
             /\ at[i] = Append(PathAbove(yaml, i), yaml[i].key)
  BY PathsAreLists DEF KeysOf
<1>3. ASSUME NEW i \in 1..L
      PROVE  Len(at[i]) = 4 /\ IsPrefix(PlatformsPath, at[i]) <=> PathAbove(yaml, i) = PlatformsPath
  <2>. DEFINE a == PathAbove(yaml, i)
              k == yaml[i].key
  <2>. HIDE DEF a, k, S, at
  <2>1. a \in Seq(S) /\ k \in S /\ at[i] = Append(a, k)
    BY <1>2 DEF a, k
  <2>2. Len(Append(a, k)) = 4 /\ IsPrefix(PlatformsPath, Append(a, k)) <=> a = PlatformsPath
    BY <2>1, BelowPlatforms
  <2>. QED BY <2>1, <2>2, Zenon DEF a
<1>4. ASSUME NEW i \in 1..L, NEW x, NEW p \in Seq({"flutter", "plugin", "platforms"})
      PROVE  at[i] = Append(p, x) <=> PathAbove(yaml, i) = p /\ yaml[i].key = x
  <2>. DEFINE a == PathAbove(yaml, i)
              k == yaml[i].key
              Q == S \cup {"flutter", "plugin", "platforms", x}
  <2>1. p \in Seq(Q) /\ a \in Seq(Q) /\ k \in Q /\ x \in Q
    <3>1. S \subseteq Q /\ {"flutter", "plugin", "platforms"} \subseteq Q /\ x \in Q
      OBVIOUS
    <3>2. a \in Seq(S) /\ k \in S
      BY <1>2
    <3>. HIDE DEF Q, S, a, k
    <3>3. a \in Seq(Q) /\ k \in Q /\ x \in Q
      BY <3>1, <3>2
    <3>4. p \in Seq(Q)
      BY <3>1
    <3>. QED BY <3>3, <3>4
  <2>2. at[i] = Append(a, k)
    BY <1>2
  <2>. HIDE DEF a, k, Q, at
  <2>3. at[i] = Append(p, x) => a = p /\ k = x
    BY <2>1, <2>2, SameAppended
  <2>. QED BY <2>2, <2>3 DEF a, k
<1>5. ASSUME NEW p, NEW i \in 1..L
      PROVE  /\ yaml[i].kind = "flow" /\ at[i] = Append(PlatformsPath, p) <=> FlowOf(yaml, i, p)
             /\ (/\ yaml[i].kind # "item" /\ yaml[i].kind # "open"
                 /\ Len(at[i]) = 5 /\ Front(at[i]) = Append(PlatformsPath, p)) <=> FieldOf(yaml, i, p)
  <2>1. PlatformsPath \in Seq({"flutter", "plugin", "platforms"})
    BY PlatformsPathIs
  <2>2. at[i] = Append(PlatformsPath, p) <=> PathAbove(yaml, i) = PlatformsPath /\ yaml[i].key = p
    BY <1>4, <2>1
  <2>. DEFINE a == PathAbove(yaml, i)
              k == yaml[i].key
              pp == Append(PlatformsPath, p)
  <2>3. at[i] # <<>> /\ Front(at[i]) = a /\ (a = pp => Len(at[i]) = 5)
    BY PathEnds
  <2>5. yaml[i].kind = "flow" /\ at[i] = Append(PlatformsPath, p) <=> FlowOf(yaml, i, p)
    BY <2>2, Zenon DEF FlowOf
  <2>6. FieldOf(yaml, i, p) <=> yaml[i].kind # "item" /\ yaml[i].kind # "open" /\ a = pp
    BY Zenon DEF FieldOf, IsKey
  <2>. HIDE DEF a, pp, at
  <2>7. (/\ yaml[i].kind # "item" /\ yaml[i].kind # "open"
         /\ Len(at[i]) = 5 /\ Front(at[i]) = pp) <=> FieldOf(yaml, i, p)
    BY <2>3, <2>6, Zenon
  <2>. QED BY <2>5, <2>7, Zenon DEF pp
<1>6. ASSUME NEW p PROVE FieldsSaid(yaml, p) = FieldsUpTo(yaml, L, p)
  <2>. DEFINE block == {i \in DOMAIN yaml : yaml[i].kind # "item" /\ yaml[i].kind # "open"
                                      /\ Len(at[i]) = 5 /\ Front(at[i]) = Append(PlatformsPath, p)}
              flow  == {i \in DOMAIN yaml : yaml[i].kind = "flow" /\ at[i] = Append(PlatformsPath, p)}
  <2>1. block = BlockUpTo(yaml, L, p)
    BY <1>1, <1>5, Zenon DEF BlockUpTo
  <2>2. flow = FlowUpTo(yaml, L, p)
    BY <1>1, <1>5, Zenon DEF FlowUpTo
  <2>3. FieldsSaid(yaml, p) = FieldsOf(yaml, block, flow)
    BY Zenon DEF FieldsSaid, FieldsOf
  <2>. HIDE DEF block, flow
  <2>. QED BY <2>1, <2>2, <2>3, Zenon DEF FieldsUpTo
<1>7. declares = {i \in 1..L : DeclaresOne(yaml, i)}
  BY <1>1, <1>3, Zenon DEF DeclaresOne
<1>8. named = NamedUpTo(yaml, L)
  <2>1. ASSUME NEW i \in 1..L
        PROVE  at[i] = <<"flutter", "plugin", "implements">> <=>
                  PathAbove(yaml, i) = <<"flutter", "plugin">> /\ yaml[i].key = "implements"
    <3>1. <<"flutter", "plugin">> \in Seq({"flutter", "plugin", "platforms"})
      OBVIOUS
    <3>2. Append(<<"flutter", "plugin">>, "implements") = <<"flutter", "plugin", "implements">>
      BY ThirdKey
    <3>3. at[i] = Append(<<"flutter", "plugin">>, "implements") <=>
             PathAbove(yaml, i) = <<"flutter", "plugin">> /\ yaml[i].key = "implements"
      BY <1>4, <3>1
    <3>. QED BY <3>2, <3>3, Zenon
  <2>2. \A i \in 1..L : (yaml[i].kind \in {"scalar", "flow"} /\ at[i] = <<"flutter", "plugin", "implements">>)
                          <=> ImplementsOne(yaml, i)
    BY <2>1, Zenon DEF ImplementsOne
  <2>. QED BY <1>1, <2>2, Zenon DEF NamedUpTo
<1>9. PluginsSaid(yaml) =
         [implements |-> IF named = {} THEN "" ELSE yaml[CHOOSE i \in named : TRUE].value,
          platforms  |-> [p \in {yaml[i].key : i \in declares} |-> FieldsSaid(yaml, p)]]
  BY Zenon DEF PluginsSaid
<1>10. (IF named = {} THEN "" ELSE yaml[CHOOSE i \in named : TRUE].value) = ImplementsUpTo(yaml, L)
  <2>. HIDE DEF named
  <2>1. ImplementsOf(yaml, named) = ImplementsUpTo(yaml, L)
    BY <1>8 DEF ImplementsUpTo
  <2>. QED BY <2>1, Zenon DEF ImplementsOf
<1>11. [p \in {yaml[i].key : i \in declares} |-> FieldsSaid(yaml, p)] = PlatformsUpTo(yaml, L)
  <2>1. {yaml[i].key : i \in declares} = DeclaredUpTo(yaml, L)
    <3>. HIDE DEF declares
    <3>. QED BY <1>7, Zenon DEF DeclaredUpTo
  <2>. DEFINE D == {yaml[i].key : i \in declares}
  <2>. HIDE DEF D
  <2>2. [p \in D |-> FieldsSaid(yaml, p)] = [p \in DeclaredUpTo(yaml, L) |-> FieldsUpTo(yaml, L, p)]
    BY <1>6, <2>1 DEF D
  <2>. QED BY <2>2, Zenon DEF D, PlatformsUpTo
<1>. HIDE DEF named, declares
<1>. QED BY <1>9, <1>10, <1>11, Zenon

\* A comment that is not where CommentsAreNone says.
LEMMA CommentsOutside ==
    ASSUME NEW yaml, IsText(yaml), IsMapping(yaml), CommentsAreNone(yaml)
    PROVE  NoComments(yaml)
<1>. SUFFICES ASSUME NEW i \in 1..Len(yaml), yaml[i].kind = "open", yaml[i].value # ""
              PROVE  /\ ~(yaml[i].key = "implements" /\ PathAbove(yaml, i) = <<"flutter", "plugin">>)
                     /\ \A p : PathAbove(yaml, i) # Append(PlatformsPath, p)
  BY DEF NoComments
<1>. DEFINE c == PathsOf(yaml)[i]
            a == PathAbove(yaml, i)
<1>1. i \in DOMAIN yaml
  BY DEF IsText
<1>2. /\ c # <<"flutter", "plugin", "implements">>
      /\ ~(Len(c) = 5 /\ IsPrefix(PlatformsPath, Front(c)))
  BY <1>1, Zenon DEF CommentsAreNone
<1>3. /\ c = Append(a, yaml[i].key) /\ Front(c) = a
      /\ \A p : a = Append(PlatformsPath, p) => Len(c) = 5 /\ IsPrefix(PlatformsPath, a)
  BY PathEnds
<1>. HIDE DEF a, c
<1>4. ~(yaml[i].key = "implements" /\ a = <<"flutter", "plugin">>)
  BY <1>2, <1>3, ThirdKey, Zenon
<1>5. \A p : a # Append(PlatformsPath, p)
  BY <1>2, <1>3, Zenon
<1>. QED BY <1>4, <1>5 DEF a

\* (PubspecReadAsIndented)  Both readings of a pubspec give what its indentation says.
LEMMA PubspecsAreRead ==
    ASSUME NEW yaml, IsText(yaml)
    PROVE  PubspecReadAsIndented(yaml)
<1>1. ASSUME IsMapping(yaml), CommentsAreNone(yaml)
      PROVE  FlutterPlugins(yaml) = PluginsSaid(yaml)
  <2>. DEFINE r == PluginsRead(yaml)[Len(yaml)]
  <2>1. r.implements = ImplementsUpTo(yaml, Len(yaml)) /\ r.platforms = PlatformsUpTo(yaml, Len(yaml))
    BY <1>1, ReadAlways, CommentsOutside DEF ReadIs
  <2>2. FlutterPlugins(yaml) = [implements |-> r.implements, platforms |-> r.platforms]
    BY Zenon DEF FlutterPlugins
  <2>. HIDE DEF r
  <2>. QED BY <1>1, <2>1, <2>2, PluginsAre
<1>. QED BY <1>1, DependenciesAgree DEF PubspecReadAsIndented

-----------------------------------------------------------------------------
(* The places of the hub: PathDir walks as the path leads, and Relative leads back. *)
(* A step of a walk. *)
LEMMA TowardIs ==
    ASSUME NEW S, NEW place \in Seq(S), NEW seg \in S
    PROVE  Toward(place, seg) \in Seq(S)
<1>1. CASE seg = Here
  BY <1>1 DEF Toward
<1>2. CASE seg # Here /\ seg # Up
  BY <1>2 DEF Toward
<1>3. CASE seg # Here /\ seg = Up /\ place = <<>>
  BY <1>3 DEF Toward
<1>4. CASE seg # Here /\ seg = Up /\ place # <<>>
  <2>1. Toward(place, seg) = Front(place)
    BY <1>4, Zenon DEF Toward
  <2>. QED BY <1>4, <2>1, FrontIs
<1>. QED BY <1>1, <1>2, <1>3, <1>4

LEMMA PassedIs ==
    ASSUME NEW S, NEW place \in Seq(S), NEW route \in Seq(S)
    PROVE  /\ \A n \in 0..Len(route) : Passed(place, route)[n] \in Seq(S)
           /\ Passed(place, route)[0] = place
           /\ \A n \in 1..Len(route) :
                 Passed(place, route)[n] = Toward(Passed(place, route)[n - 1], route[n])
<1>. DEFINE V == Seq(S)
            move == [x \in (1..Len(route)) \X V |-> Toward(x[2], route[x[1]])]
            G(f) == [n \in 0..Len(route) |-> IF n = 0 THEN place ELSE Toward(f[n - 1], route[n])]
<1>0. Len(route) \in Nat /\ \A i \in 1..Len(route) : route[i] \in S
  OBVIOUS
<1>1. move \in [(1..Len(route)) \X V -> V]
  <2>1. ASSUME NEW x \in (1..Len(route)) \X V PROVE Toward(x[2], route[x[1]]) \in V
    <3>1. x[1] \in 1..Len(route) /\ x[2] \in V
      OBVIOUS
    <3>2. route[x[1]] \in S
      BY <1>0, <3>1
    <3>. QED BY <3>1, <3>2, TowardIs
  <2>. HIDE DEF V
  <2>. QED BY <2>1
<1>2. \A i \in 1..Len(route) : \A d \in V : move[<<i, d>>] = Toward(d, route[i])
  <2>. HIDE DEF V
  <2>. QED OBVIOUS
<1>3. PICK f \in [0..Len(route) -> V] : Recurses(f, place, move, Len(route))
  <2>. HIDE DEF move
  <2>1. place \in V
    OBVIOUS
  <2>. HIDE DEF V
  <2>. QED BY <1>0, <1>1, <2>1, Recursion
<1>. HIDE DEF V, move
<1>4. f[0] = place /\ \A i \in 1..Len(route) : f[i] = Toward(f[i - 1], route[i])
  <2>1. f[0] = place /\ \A i \in 1..Len(route) : f[i] = move[<<i, f[i - 1]>>]
    BY <1>3, Zenon DEF Recurses
  <2>2. \A i \in 1..Len(route) : i - 1 \in 0..Len(route)
    BY <1>0
  <2>3. \A i \in 1..Len(route) : f[i - 1] \in V
    BY <1>3, <2>2
  <2>. QED BY <1>2, <2>1, <2>3
<1>5. f = G(f)
  <2>1. \A n \in 0..Len(route) : f[n] = IF n = 0 THEN place ELSE Toward(f[n - 1], route[n])
    <3>1. \A n \in 0..Len(route) : n = 0 \/ n \in 1..Len(route)
      BY <1>0
    <3>. QED BY <1>4, <3>1
  <2>2. DOMAIN f = 0..Len(route) /\ f = [n \in 0..Len(route) |-> f[n]]
    BY <1>3
  <2>. QED BY <2>1, <2>2
<1>6. Passed(place, route) = CHOOSE g : g = G(g)
  BY Zenon DEF Passed
<1>7. Passed(place, route) = G(Passed(place, route))
  <2>. DEFINE c == CHOOSE g : g = G(g)
  <2>1. c = G(c)
    <3>. HIDE DEF G
    <3>. QED BY <1>5, Zenon DEF c
  <2>. HIDE DEF G, c
  <2>. QED BY <1>6, <2>1, Zenon DEF c
<1>. DEFINE p == Passed(place, route)
<1>. HIDE DEF p
<1>8. p[0] = place /\ \A n \in 1..Len(route) : p[n] = Toward(p[n - 1], route[n])
  <2>1. p = [n \in 0..Len(route) |-> IF n = 0 THEN place ELSE Toward(p[n - 1], route[n])]
    BY <1>7, Zenon DEF p
  <2>2. 0 \in 0..Len(route) /\ \A n \in 1..Len(route) : n \in 0..Len(route) /\ n # 0
    BY <1>0
  <2>3. \A n \in 0..Len(route) : p[n] = IF n = 0 THEN place ELSE Toward(p[n - 1], route[n])
    BY <2>1, Zenon
  <2>. QED BY <2>2, <2>3
<1>9. \A n \in 0..Len(route) : p[n] \in Seq(S)
  <2>. DEFINE T == {n \in 0..Len(route) : p[n] \in Seq(S)}
  <2>1. 0 \in T
    BY <1>0, <1>8
  <2>2. ASSUME NEW m \in 1..Len(route), m - 1 \in T PROVE m \in T
    <3>1. p[m - 1] \in Seq(S) /\ route[m] \in S
      BY <1>0, <2>2
    <3>2. Toward(p[m - 1], route[m]) \in Seq(S)
      BY <3>1, TowardIs
    <3>3. m \in 0..Len(route)
      BY <1>0
    <3>. QED BY <1>8, <3>2, <3>3
  <2>. HIDE DEF T
  <2>3. \A m \in 0..Len(route) : m \in T
    BY <1>0, <2>1, <2>2, Upward
  <2>. QED BY <2>3, Zenon DEF T
<1>. QED BY <1>8, <1>9 DEF p

LEMMA CommonIs ==
    ASSUME NEW S, NEW a \in Seq(S), NEW b \in Seq(S)
    PROVE  /\ CommonLength(a, b) \in 0..Len(a) /\ CommonLength(a, b) \in 0..Len(b)
           /\ \A i \in 1..CommonLength(a, b) : a[i] = b[i]
<1>. DEFINE P == {n \in 1..Len(a) : n <= Len(b) /\ SubSeq(a, 1, n) = SubSeq(b, 1, n)}
            c == Max({0} \cup P)
<1>1. Len(a) \in Nat /\ Len(b) \in Nat /\ P \subseteq 1..Len(a)
  OBVIOUS
<1>2. c \in {0} \cup P
  <2>. HIDE DEF P
  <2>1. Max({0} \cup P) \in {0} \cup P
    BY <1>1, MaxOf, Zenon
  <2>. QED BY <2>1
<1>3. CommonLength(a, b) = c
  BY DEF CommonLength
<1>. HIDE DEF c
<1>4. CASE c = 0
  BY <1>1, <1>3, <1>4
<1>5. CASE c \in P
  <2>1. c \in 1..Len(a) /\ c <= Len(b) /\ SubSeq(a, 1, c) = SubSeq(b, 1, c)
    BY <1>5
  <2>2. c \in 0..Len(a) /\ c \in 0..Len(b)
    BY <1>1, <2>1
  <2>3. IsPrefix(SubSeq(a, 1, c), a) /\ IsPrefix(SubSeq(b, 1, c), b)
        /\ SubSeq(a, 1, c) \in Seq(S) /\ SubSeq(b, 1, c) \in Seq(S) /\ Len(SubSeq(a, 1, c)) = c
    BY <2>2, PrefixCut
  <2>. DEFINE s == SubSeq(a, 1, c)
  <2>4. s \in Seq(S) /\ Len(s) = c /\ IsPrefix(s, a) /\ IsPrefix(s, b)
    BY <2>1, <2>3
  <2>. HIDE DEF s
  <2>5. \A i \in 1..c : s[i] = a[i] /\ s[i] = b[i]
    BY <2>4, PrefixIs
  <2>. QED BY <1>3, <2>2, <2>5
<1>. QED BY <1>2, <1>4, <1>5

(* The first n segments of a directory. *)
FirstOf(place, n) == SubSeq(place, 1, n)

LEMMA FirstOfIs ==
    ASSUME NEW S, NEW place \in Seq(S)
    PROVE  /\ FirstOf(place, Len(place)) = place
           /\ \A n \in 0..Len(place) : FirstOf(place, n) \in Seq(S) /\ Len(FirstOf(place, n)) = n
           /\ \A n \in 1..Len(place) : /\ FirstOf(place, n) # <<>> /\ Front(FirstOf(place, n)) = FirstOf(place, n - 1)
                                     /\ Append(FirstOf(place, n - 1), place[n]) = FirstOf(place, n)
<1>1. Len(place) \in Nat /\ FirstOf(place, Len(place)) = place
  BY DEF FirstOf
<1>2. \A n \in 0..Len(place) : /\ FirstOf(place, n) \in Seq(S) /\ Len(FirstOf(place, n)) = n
                             /\ \A i \in 1..n : FirstOf(place, n)[i] = place[i]
  BY DEF FirstOf
<1>3. ASSUME NEW n \in 1..Len(place)
      PROVE  /\ FirstOf(place, n) # <<>> /\ Front(FirstOf(place, n)) = FirstOf(place, n - 1)
             /\ Append(FirstOf(place, n - 1), place[n]) = FirstOf(place, n)
  <2>. DEFINE x == FirstOf(place, n)
              y == FirstOf(place, n - 1)
              e == place[n]
  <2>1. n \in 0..Len(place) /\ n - 1 \in 0..Len(place) /\ n \in Nat /\ n # 0
    BY <1>1
  <2>2. /\ x \in Seq(S) /\ Len(x) = n /\ \A i \in 1..n : x[i] = place[i]
        /\ y \in Seq(S) /\ Len(y) = n - 1 /\ \A i \in 1..(n - 1) : y[i] = place[i]
    BY <1>2, <2>1
  <2>3. e \in S
    OBVIOUS
  <2>. HIDE DEF x, y
  <2>4. x # <<>>
    <3>1. Len(x) # 0
      BY <2>1, <2>2
    <3>. QED BY <3>1
  <2>5. /\ Front(x) \in Seq(S) /\ Len(Front(x)) = n - 1 /\ IsPrefix(Front(x), x)
    BY <2>2, <2>4, FrontIs
  <2>6. Front(x) = y
    <3>. DEFINE f == Front(x)
                k == n - 1
    <3>1. f \in Seq(S) /\ Len(f) = k /\ IsPrefix(f, x)
      BY <2>5
    <3>2. Len(y) = k /\ \A i \in 1..k : y[i] = place[i]
      BY <2>2
    <3>3. \A i \in 1..k : i \in 1..n
      BY <2>1
    <3>. HIDE DEF f, k
    <3>4. \A i \in 1..k : f[i] = x[i]
      <4>1. x \in Seq(S) /\ f \in Seq(S) /\ IsPrefix(f, x)
        BY <2>2, <3>1
      <4>2. \A i \in 1..Len(f) : f[i] = x[i]
        <5>. HIDE DEF x
        <5>. QED BY <4>1, PrefixIs
      <4>. QED BY <3>1, <4>2
    <3>5. \A i \in 1..k : f[i] = y[i]
      BY <2>2, <3>2, <3>3, <3>4
    <3>6. f = y
      BY <2>2, <3>1, <3>2, <3>5, SameList
    <3>. QED BY <3>6 DEF f
  <2>. HIDE DEF e
  <2>7. Append(y, e) = x
    <3>. DEFINE t == Append(y, e)
    <3>1. t \in Seq(S) /\ Len(t) = Len(y) + 1 /\ t[Len(y) + 1] = e /\ \A i \in 1..Len(y) : t[i] = y[i]
      BY <2>2, <2>3
    <3>2. Len(y) + 1 = n
      BY <2>1, <2>2
    <3>. HIDE DEF t
    <3>3. x[n] = e /\ \A i \in 1..n : i = n \/ i \in 1..Len(y)
      BY <2>1, <2>2 DEF e
    <3>4. \A i \in 1..Len(y) : i \in 1..n /\ y[i] = place[i]
      BY <2>1, <2>2
    <3>5. \A i \in 1..n : t[i] = x[i]
      BY <2>2, <3>1, <3>2, <3>3, <3>4
    <3>6. t = x
      BY <2>2, <3>1, <3>2, <3>5, SameList
    <3>. QED BY <3>6 DEF t
  <2>. QED BY <2>4, <2>6, <2>7 DEF x, y, e
<1>. QED BY <1>1, <1>2, <1>3

(* What _relpath makes: as many .. as lead to what is common, and the rest. *)
GoesBy(r, S, base, target, c, k) ==
    /\ c \in 0..Len(base) /\ c \in 0..Len(target) /\ k \in Nat /\ k = Len(base) - c
    /\ \A i \in 1..c : base[i] = target[i]
    /\ r \in Seq(S) /\ Len(r) = k + (Len(target) - c)
    /\ \A i \in 1..k : r[i] = Up
    /\ \A i \in (k + 1)..(k + (Len(target) - c)) :
          r[i] = target[c + (i - k)] /\ c + (i - k) \in 1..Len(target)

LEMMA RelativeIs ==
    ASSUME NEW S, Up \in S, NEW base \in Seq(S), NEW target \in Seq(S)
    PROVE  \E c, k : GoesBy(Relative(base, target), S, base, target, c, k)
<1>. DEFINE c == CommonLength(base, target)
            k == Len(base) - c
<1>0. \A i \in 1..c : base[i] = target[i]
  BY CommonIs
<1>1. c \in 0..Len(base) /\ c \in 0..Len(target) /\ Len(base) \in Nat /\ Len(target) \in Nat
  BY CommonIs
<1>2. k \in Nat
  BY <1>1
<1>. DEFINE ups  == [i \in 1..k |-> Up]
            rest == SubSeq(target, c + 1, Len(target))
            m    == Len(target) - c
<1>3. Relative(base, target) = ups \o rest
  BY Zenon DEF Relative
<1>4. ups \in Seq(S) /\ Len(ups) = k /\ \A i \in 1..k : ups[i] = Up
  BY <1>2
<1>5. rest \in Seq(S) /\ Len(rest) = m /\ m \in Nat /\ \A j \in 1..m : rest[j] = target[c + j]
  BY <1>1
<1>6. \A j \in 1..m : c + j \in 1..Len(target)
  BY <1>1
<1>. HIDE DEF ups, rest, m
<1>7. ups \o rest \in Seq(S)
  BY <1>4, <1>5
<1>8. /\ Len(ups \o rest) = k + m
      /\ \A i \in 1..k : (ups \o rest)[i] = ups[i]
      /\ \A i \in (k + 1)..(k + m) : (ups \o rest)[i] = rest[i - k] /\ i - k \in 1..m
  <2>1. /\ Len(ups \o rest) = Len(ups) + Len(rest)
        /\ \A i \in 1..Len(ups) : (ups \o rest)[i] = ups[i]
        /\ \A i \in Len(ups) + 1..Len(ups) + Len(rest) :
              (ups \o rest)[i] = rest[i - Len(ups)] /\ i - Len(ups) \in 1..Len(rest)
    BY <1>4, <1>5, TwoParts
  <2>2. Len(ups) = k /\ Len(rest) = m
    BY <1>4, <1>5
  <2>. QED BY <2>1, <2>2
<1>9. \A i \in (k + 1)..(k + m) : (ups \o rest)[i] = target[c + (i - k)] /\ c + (i - k) \in 1..Len(target)
  BY <1>5, <1>6, <1>8
<1>. HIDE DEF c, k
<1>10. k = Len(base) - c
  BY DEF k
<1>. QED BY <1>0, <1>1, <1>2, <1>3, <1>4, <1>7, <1>8, <1>9, <1>10 DEF m, GoesBy

(* Whatever the two directories are, the path from one leads to the other. *)
LEMMA RelativeLeads ==
    ASSUME NEW S, Up \in S, Up # Here, NEW base \in Seq(S), NEW target \in Seq(S),
           \A i \in 1..Len(target) : target[i] # Up /\ target[i] # Here
    PROVE  Resolved(base, Relative(base, target)) = target
<1>. DEFINE r == Relative(base, target)
            b == Len(base)
            t == Len(target)
            at == Passed(base, r)
<1>0. b = Len(base) /\ t = Len(target) /\ b \in Nat /\ t \in Nat
  OBVIOUS
<1>1. PICK c, k : GoesBy(r, S, base, target, c, k)
  BY RelativeIs
<1>2. /\ c \in 0..b /\ c \in 0..t /\ k \in Nat /\ k = b - c
      /\ \A i \in 1..c : base[i] = target[i]
      /\ r \in Seq(S) /\ Len(r) = k + (t - c)
      /\ \A i \in 1..k : r[i] = Up
      /\ \A i \in (k + 1)..(k + (t - c)) : r[i] = target[c + (i - k)] /\ c + (i - k) \in 1..t
  BY <1>1, Zenon DEF GoesBy
<1>a. /\ b \in Nat /\ t \in Nat /\ c \in Nat /\ k \in Nat
      /\ c <= b /\ c <= t /\ b - k = c /\ k = b - c
  <2>1. c \in 0..b /\ c \in 0..t /\ k \in Nat /\ k = b - c
    BY <1>2
  <2>. QED BY <1>0, <2>1
<1>. DEFINE l == k + (t - c)
<1>3. (\A n \in 0..l : at[n] \in Seq(S)) /\ at[0] = base
      /\ \A n \in 1..l : at[n] = Toward(at[n - 1], r[n])
  <2>. HIDE DEF r
  <2>1. r \in Seq(S) /\ Len(r) = l
    BY <1>2
  <2>2. /\ \A n \in 0..Len(r) : Passed(base, r)[n] \in Seq(S)
        /\ Passed(base, r)[0] = base
        /\ \A n \in 1..Len(r) : Passed(base, r)[n] = Toward(Passed(base, r)[n - 1], r[n])
    <3>1. r \in Seq(S)
      BY <2>1
    <3>. HIDE DEF l
    <3>. QED BY <3>1, PassedIs
  <2>3. l = Len(r)
    BY <2>1
  <2>4. /\ \A n \in 0..l : Passed(base, r)[n] \in Seq(S)
        /\ \A n \in 1..l : Passed(base, r)[n] = Toward(Passed(base, r)[n - 1], r[n])
    <3>. HIDE DEF l
    <3>. QED BY <2>2, <2>3
  <2>. QED BY <2>2, <2>4, Zenon
<1>4. Resolved(base, r) = at[l]
  BY <1>2, Zenon DEF Resolved
<1>. HIDE DEF r, at, b, t
<1>5. FirstOf(base, c) = FirstOf(target, c)
  <2>. DEFINE x == FirstOf(base, c)
              y == FirstOf(target, c)
  <2>1. x \in Seq(S) /\ Len(x) = c /\ y \in Seq(S) /\ Len(y) = c
    BY <1>0, <1>2, FirstOfIs
  <2>2. \A i \in 1..c : x[i] = base[i] /\ y[i] = target[i]
    BY <1>0, <1>2 DEF FirstOf
  <2>. HIDE DEF x, y
  <2>3. x = y
    BY <1>2, <2>1, <2>2, SameList
  <2>. QED BY <2>3 DEF x, y
<1>. DEFINE PlaceAt(n) == IF n <= k THEN FirstOf(base, b - n) ELSE FirstOf(target, c + (n - k))
            T == {n \in 0..l : at[n] = PlaceAt(n)}
<1>6. l \in Nat
  BY <1>0, <1>2
<1>7. 0 \in T
  <2>1. FirstOf(base, b - 0) = base
    BY <1>0, FirstOfIs
  <2>2. 0 \in 0..l /\ 0 <= k
    BY <1>2, <1>6
  <2>. QED BY <1>3, <2>1, <2>2
<1>8. ASSUME NEW m \in 1..l, m - 1 \in T PROVE m \in T
  <2>0. at[m] = Toward(at[m - 1], r[m]) /\ at[m - 1] = PlaceAt(m - 1) /\ m \in 0..l
    BY <1>3, <1>6, <1>8
  <2>1. CASE m <= k
    <3>1. r[m] = Up
      BY <1>2, <1>6, <2>1
    <3>2. at[m - 1] = FirstOf(base, b - (m - 1))
      BY <1>2, <1>6, <2>0, <2>1
    <3>. DEFINE j == b - (m - 1)
    <3>3. j \in 1..b /\ j - 1 = b - m
      BY <1>0, <1>2, <1>6, <2>1
    <3>. HIDE DEF j
    <3>4. FirstOf(base, j) # <<>> /\ Front(FirstOf(base, j)) = FirstOf(base, j - 1)
      BY <1>0, <3>3, FirstOfIs
    <3>5. Toward(FirstOf(base, j), Up) = FirstOf(base, j - 1)
      BY <3>4 DEF Toward
    <3>6. at[m] = FirstOf(base, b - m)
      BY <2>0, <3>1, <3>2, <3>3, <3>5 DEF j
    <3>. QED BY <2>0, <2>1, <3>6
  <2>2. CASE ~(m <= k)
    <3>. DEFINE j == c + (m - k)
    <3>1. r[m] = target[j] /\ j \in 1..t
      <4>1. k \in Nat /\ l \in Nat /\ m \in 1..l
        BY <1>2, <1>6
      <4>2. m \in (k + 1)..(k + (t - c))
        BY <2>2, <4>1
      <4>3. \A i \in (k + 1)..(k + (t - c)) : r[i] = target[c + (i - k)] /\ c + (i - k) \in 1..t
        BY <1>2
      <4>. QED BY <4>2, <4>3, Zenon
    <3>2. j - 1 = c + ((m - 1) - k)
      BY <1>2, <1>6
    <3>3. at[m - 1] = FirstOf(target, j - 1)
      <4>1. CASE m - 1 = k
        <5>0. m \in Nat
          BY <1>6
        <5>1. b - k = c /\ j - 1 = c /\ k <= k
          BY <1>a, <4>1, <5>0
        <5>2. PlaceAt(m - 1) = FirstOf(base, b - k)
          BY <4>1, <5>1
        <5>. QED BY <1>5, <2>0, <5>1, <5>2
      <4>2. CASE m - 1 # k
        <5>1. ~(m - 1 <= k)
          BY <1>2, <1>6, <2>2, <4>2
        <5>2. PlaceAt(m - 1) = FirstOf(target, c + ((m - 1) - k))
          BY <5>1
        <5>. QED BY <2>0, <3>2, <5>2
      <4>. QED BY <4>1, <4>2
    <3>. HIDE DEF j
    <3>4. Append(FirstOf(target, j - 1), target[j]) = FirstOf(target, j)
      BY <1>0, <3>1, FirstOfIs
    <3>5. target[j] # Up /\ target[j] # Here
      BY <1>0, <3>1
    <3>6. Toward(FirstOf(target, j - 1), target[j]) = FirstOf(target, j)
      BY <3>4, <3>5 DEF Toward
    <3>7. at[m] = FirstOf(target, j)
      BY <2>0, <3>1, <3>3, <3>6
    <3>8. PlaceAt(m) = FirstOf(target, c + (m - k))
      BY <2>2
    <3>. QED BY <2>0, <3>7, <3>8 DEF j
  <2>. QED BY <2>1, <2>2
<1>9. l \in 0..l
  BY <1>6
<1>10. at[l] = PlaceAt(l)
  <2>. HIDE DEF T, l
  <2>1. \A m \in 0..l : m \in T
    BY <1>6, <1>7, <1>8, Upward
  <2>. QED BY <1>9, <2>1 DEF T
<1>11. PlaceAt(l) = target
  <2>1. FirstOf(target, t) = target
    BY <1>0, FirstOfIs
  <2>2. CASE l <= k
    <3>1. t = c /\ l = k /\ b - l = c
      BY <1>a, <2>2
    <3>2. PlaceAt(l) = FirstOf(base, b - l)
      BY <2>2
    <3>. HIDE DEF PlaceAt, l
    <3>3. FirstOf(base, b - l) = FirstOf(base, c) /\ FirstOf(target, t) = FirstOf(target, c)
      BY <3>1, Zenon
    <3>. QED BY <1>5, <2>1, <3>2, <3>3, Zenon
  <2>3. CASE ~(l <= k)
    <3>1. c + (l - k) = t
      BY <1>0, <1>2
    <3>. QED BY <2>1, <2>3, <3>1
  <2>. QED BY <2>2, <2>3
<1>. QED BY <1>4, <1>10, <1>11 DEF r

(* What the segments of a hub are, and those a directory has. *)
Segments ==
    {Up, Here, Hub, "external", ".dart_tool"}
    \cup ProjectNames(on) \cup ToSet(on.project) \cup UNION {ToSet(p.path) : p \in on.lock}
Plain == Segments \ {Up, Here}

LEMMA SeqWider ==
    ASSUME NEW A, NEW B, A \subseteq B, NEW s \in Seq(A)
    PROVE  s \in Seq(B)
<1>1. Len(s) \in Nat /\ \A i \in 1..Len(s) : s[i] \in A
  OBVIOUS
<1>2. \A i \in 1..Len(s) : s[i] \in B
  BY <1>1
<1>3. s = [i \in 1..Len(s) |-> s[i]]
  OBVIOUS
<1>. QED BY <1>1, <1>2, <1>3

LEMMA HubFacts ==
    ASSUME on \in HubProjects
    PROVE  /\ on.project \in Seq(Plain) /\ on.project \in Seq(Segments)
           /\ on.floor \in Nat /\ on.floor <= Len(on.project)
           /\ \A p \in on.lock : p.path \in Seq(Segments) /\ p.name \in Plain
           /\ on.root \in Plain /\ Up \in Segments /\ Here \in Segments
           /\ Hub \in Plain /\ "external" \in Plain /\ ".dart_tool" \in Plain
           /\ Plain \subseteq Segments /\ Up \notin Plain /\ Here \notin Plain /\ Up # Here
<1>1. /\ IsList(on.project) /\ on.floor \in 0..Len(on.project)
      /\ (ProjectNames(on) \cup ToSet(on.project)) \cap {Up, Here} = {}
      /\ \A p \in on.lock : IsList(p.path)
  BY HubAssumption
<1>2. Up # Here /\ {Hub, "external", ".dart_tool"} \cap {Up, Here} = {}
  BY HubAssumption
<1>3. /\ Plain \subseteq Segments /\ Up \notin Plain /\ Here \notin Plain
      /\ Up \in Segments /\ Here \in Segments
  BY DEF Plain, Segments
<1>4. Hub \in Plain /\ "external" \in Plain /\ ".dart_tool" \in Plain
  <2>1. {Hub, "external", ".dart_tool"} \subseteq Segments
    BY DEF Segments
  <2>. QED BY <1>2, <2>1 DEF Plain
<1>5. ProjectNames(on) \subseteq Plain /\ ToSet(on.project) \subseteq Plain
  <2>1. ProjectNames(on) \subseteq Segments /\ ToSet(on.project) \subseteq Segments
    BY DEF Segments
  <2>. QED BY <1>1, <2>1 DEF Plain
<1>6. on.root \in Plain /\ \A p \in on.lock : p.name \in Plain
  BY <1>5 DEF ProjectNames, LockNames
<1>7. on.project \in Seq(Plain) /\ on.project \in Seq(Segments)
  <2>1. on.project \in Seq(ToSet(on.project))
    BY <1>1 DEF IsList
  <2>2. on.project \in Seq(Plain)
    BY <1>5, <2>1, SeqWider
  <2>. QED BY <1>3, <2>2, SeqWider
<1>8. on.floor \in Nat /\ on.floor <= Len(on.project)
  <2>1. Len(on.project) \in Nat
    BY <1>7
  <2>. QED BY <1>1, <2>1
<1>9. ASSUME NEW p \in on.lock PROVE p.path \in Seq(Segments)
  <2>1. p.path \in Seq(ToSet(p.path))
    BY <1>1 DEF IsList
  <2>2. ToSet(p.path) \subseteq Segments
    BY DEF Segments
  <2>. QED BY <2>1, <2>2, SeqWider
<1>. QED BY <1>2, <1>3, <1>4, <1>6, <1>7, <1>8, <1>9

LEMMA PlainIsInside ==
    ASSUME on \in HubProjects, NEW place \in Seq(Plain)
    PROVE  place # Escaped
<1>1. ASSUME place = Escaped PROVE FALSE
  <2>1. place[1] = Up /\ Len(place) = 1
    BY <1>1 DEF Escaped
  <2>2. place[1] \in Plain
    BY <2>1, SMTT(40)
  <2>. QED BY <2>1, <2>2, HubFacts
<1>. QED BY <1>1

LEMMA WalkIs ==
    ASSUME on \in HubProjects, NEW place \in Seq(Segments), NEW seg \in Segments
    PROVE  Walk(place, seg) \in Seq(Segments)
<1>0. on.floor \in Nat /\ Escaped \in Seq(Segments)
  BY HubFacts DEF Escaped
<1>1. CASE place = Escaped \/ seg = Here
  BY <1>1, Zenon DEF Walk
<1>2. CASE ~(place = Escaped \/ seg = Here) /\ seg # Up
  <2>1. Walk(place, seg) = Append(place, seg)
    BY <1>2, Zenon DEF Walk
  <2>. QED BY <2>1
<1>3. CASE ~(place = Escaped \/ seg = Here) /\ seg = Up /\ Len(place) <= on.floor
  BY <1>0, <1>3, Zenon DEF Walk
<1>4. CASE ~(place = Escaped \/ seg = Here) /\ seg = Up /\ ~(Len(place) <= on.floor)
  <2>1. Walk(place, seg) = Front(place)
    BY <1>4, Zenon DEF Walk
  <2>2. place # <<>>
    <3>1. Len(place) # 0
      BY <1>0, <1>4
    <3>. QED BY <3>1
  <2>. QED BY <2>1, <2>2, FrontIs
<1>. QED BY <1>1, <1>2, <1>3, <1>4

LEMMA WalkedIs ==
    ASSUME on \in HubProjects, NEW p \in on.lock
    PROVE  /\ PathDirs(p)[0] = on.project
           /\ \A n \in 1..Len(p.path) : PathDirs(p)[n] = Walk(PathDirs(p)[n - 1], p.path[n])
<1>. DEFINE route == p.path
            V == Seq(Segments)
            move == [x \in (1..Len(route)) \X V |-> Walk(x[2], route[x[1]])]
            G(f) == [n \in 0..Len(p.path) |-> IF n = 0 THEN on.project ELSE Walk(f[n - 1], p.path[n])]
<1>a. route \in Seq(Segments) /\ on.project \in V
  BY HubFacts
<1>0. Len(route) \in Nat /\ \A i \in 1..Len(route) : route[i] \in Segments
  BY <1>a
<1>1. move \in [(1..Len(route)) \X V -> V]
  <2>1. ASSUME NEW x \in (1..Len(route)) \X V PROVE Walk(x[2], route[x[1]]) \in V
    <3>1. x[1] \in 1..Len(route) /\ x[2] \in V
      OBVIOUS
    <3>2. route[x[1]] \in Segments
      BY <1>0, <3>1
    <3>. QED BY <3>1, <3>2, WalkIs
  <2>. HIDE DEF V
  <2>. QED BY <2>1
<1>2. \A i \in 1..Len(route) : \A d \in V : move[<<i, d>>] = Walk(d, route[i])
  <2>. HIDE DEF V
  <2>. QED OBVIOUS
<1>3. PICK f \in [0..Len(route) -> V] : Recurses(f, on.project, move, Len(route))
  <2>. HIDE DEF move, V
  <2>. QED BY <1>0, <1>1, <1>a, Recursion
<1>. HIDE DEF V, move
<1>4. f[0] = on.project /\ \A i \in 1..Len(route) : f[i] = Walk(f[i - 1], route[i])
  <2>1. f[0] = on.project /\ \A i \in 1..Len(route) : f[i] = move[<<i, f[i - 1]>>]
    BY <1>3, Zenon DEF Recurses
  <2>2. \A i \in 1..Len(route) : i - 1 \in 0..Len(route)
    BY <1>0
  <2>3. \A i \in 1..Len(route) : f[i - 1] \in V
    BY <1>3, <2>2
  <2>. QED BY <1>2, <2>1, <2>3
<1>5. f = G(f)
  <2>1. \A n \in 0..Len(route) : f[n] = IF n = 0 THEN on.project ELSE Walk(f[n - 1], route[n])
    <3>1. \A n \in 0..Len(route) : n = 0 \/ n \in 1..Len(route)
      BY <1>0
    <3>. QED BY <1>4, <3>1
  <2>2. DOMAIN f = 0..Len(route) /\ f = [n \in 0..Len(route) |-> f[n]]
    BY <1>3
  <2>. QED BY <2>1, <2>2
<1>6. PathDirs(p) = CHOOSE g : g = G(g)
  BY Zenon DEF PathDirs
<1>7. PathDirs(p) = G(PathDirs(p))
  <2>. DEFINE c == CHOOSE g : g = G(g)
  <2>1. c = G(c)
    <3>. HIDE DEF G
    <3>. QED BY <1>5, Zenon DEF c
  <2>. HIDE DEF G, c
  <2>. QED BY <1>6, <2>1, Zenon DEF c
<1>. DEFINE d == PathDirs(p)
<1>. HIDE DEF d
<1>8. d = [n \in 0..Len(route) |-> IF n = 0 THEN on.project ELSE Walk(d[n - 1], route[n])]
  BY <1>7, Zenon DEF d
<1>9. 0 \in 0..Len(route) /\ \A n \in 1..Len(route) : n \in 0..Len(route) /\ n # 0
  BY <1>0
<1>10. \A n \in 0..Len(route) : d[n] = IF n = 0 THEN on.project ELSE Walk(d[n - 1], route[n])
  BY <1>8, Zenon
<1>11. d[0] = on.project /\ \A n \in 1..Len(route) : d[n] = Walk(d[n - 1], route[n])
  BY <1>9, <1>10
<1>. QED BY <1>11 DEF d

(* How deep one segment more leads. *)
LEMMA DepthIs ==
    ASSUME on \in HubProjects, NEW route
    PROVE  /\ Depth(route, 0) = Len(on.project)
           /\ \A m \in Nat : Depth(route, m) \in Int
           /\ \A m \in Nat \ {0} :
                 /\ route[m] = Up => Depth(route, m) = Depth(route, m - 1) - 1
                 /\ route[m] = Here => Depth(route, m) = Depth(route, m - 1)
                 /\ route[m] # Up /\ route[m] # Here => Depth(route, m) = Depth(route, m - 1) + 1
<1>. DEFINE Downs(n) == {i \in 1..n : route[i] \notin {Up, Here}}
            Ups(n)   == {i \in 1..n : route[i] = Up}
<1>1. Len(on.project) \in Nat /\ Up # Here
  <2>1. on.project \in Seq(Plain)
    BY HubFacts
  <2>2. Len(on.project) \in Nat
    BY <2>1
  <2>. QED BY <2>2, HubFacts
<1>2. \A n : Depth(route, n) = Len(on.project) + Cardinality(Downs(n)) - Cardinality(Ups(n))
  BY DEF Depth
<1>3. ASSUME NEW n \in Nat
      PROVE  /\ IsFiniteSet(Downs(n)) /\ Downs(n) \subseteq 1..n /\ Cardinality(Downs(n)) \in Nat
             /\ IsFiniteSet(Ups(n)) /\ Ups(n) \subseteq 1..n /\ Cardinality(Ups(n)) \in Nat
  <2>1. IsFiniteSet(1..n)
    BY FS_Interval
  <2>2. Downs(n) \subseteq 1..n /\ Ups(n) \subseteq 1..n
    OBVIOUS
  <2>. HIDE DEF Downs, Ups
  <2>. QED BY <2>1, <2>2, FS_Subset, FS_CardinalityType
<1>4. Depth(route, 0) = Len(on.project)
  <2>1. Downs(0) = {} /\ Ups(0) = {}
    OBVIOUS
  <2>2. Cardinality(Downs(0)) = 0 /\ Cardinality(Ups(0)) = 0
    BY <2>1, FS_EmptySet
  <2>. HIDE DEF Downs, Ups
  <2>. QED BY <1>1, <1>2, <2>2
<1>5. ASSUME NEW m \in Nat PROVE Depth(route, m) \in Int
  <2>1. Cardinality(Downs(m)) \in Nat /\ Cardinality(Ups(m)) \in Nat
    BY <1>3
  <2>2. Depth(route, m) = Len(on.project) + Cardinality(Downs(m)) - Cardinality(Ups(m))
    BY <1>2
  <2>. HIDE DEF Downs, Ups
  <2>. QED BY <1>1, <2>1, <2>2
<1>6. ASSUME NEW m \in Nat \ {0}
      PROVE  /\ route[m] = Up => Depth(route, m) = Depth(route, m - 1) - 1
             /\ route[m] = Here => Depth(route, m) = Depth(route, m - 1)
             /\ route[m] # Up /\ route[m] # Here => Depth(route, m) = Depth(route, m - 1) + 1
  <2>. DEFINE k == m - 1
  <2>1. k \in Nat /\ m \in Nat /\ m # 0 /\ m \notin 1..k /\ 1..m = 1..k \cup {m}
    OBVIOUS
  <2>2. k = m - 1
    OBVIOUS
  <2>. HIDE DEF k
  <2>3. /\ route[m] \notin {Up, Here} => Downs(m) = Downs(k) \cup {m}
        /\ route[m] \in {Up, Here} => Downs(m) = Downs(k)
        /\ route[m] = Up => Ups(m) = Ups(k) \cup {m}
        /\ route[m] # Up => Ups(m) = Ups(k)
    BY <2>1
  <2>4. m \notin Downs(k) /\ m \notin Ups(k)
    BY <2>1
  <2>5. /\ IsFiniteSet(Downs(k)) /\ Cardinality(Downs(k)) \in Nat
        /\ IsFiniteSet(Ups(k)) /\ Cardinality(Ups(k)) \in Nat
    BY <1>3, <2>1
  <2>6. /\ Depth(route, m) = Len(on.project) + Cardinality(Downs(m)) - Cardinality(Ups(m))
        /\ Depth(route, m - 1) = Len(on.project) + Cardinality(Downs(k)) - Cardinality(Ups(k))
    BY <1>2, <2>2
  <2>. HIDE DEF Downs, Ups
  <2>7. /\ Cardinality(Downs(k) \cup {m}) = Cardinality(Downs(k)) + 1
        /\ Cardinality(Ups(k) \cup {m}) = Cardinality(Ups(k)) + 1
    BY <2>4, <2>5, FS_AddElement
  <2>8. /\ route[m] \notin {Up, Here} => Cardinality(Downs(m)) = Cardinality(Downs(k)) + 1
        /\ route[m] \in {Up, Here} => Cardinality(Downs(m)) = Cardinality(Downs(k))
        /\ route[m] = Up => Cardinality(Ups(m)) = Cardinality(Ups(k)) + 1
        /\ route[m] # Up => Cardinality(Ups(m)) = Cardinality(Ups(k))
    BY <2>3, <2>7
  <2>. QED BY <1>1, <2>5, <2>6, <2>8, SMTT(40)
<1>. QED BY <1>4, <1>5, <1>6

(* The walk of pub_hub and the path itself agree as long as the path stays inside the
   repository, and once it has left it the walk does not come back. *)
Inside(route, n) == \A m \in 0..n : Depth(route, m) >= on.floor

LEMMA WalkKept ==
    ASSUME on \in HubProjects, NEW place \in Seq(Plain), NEW seg \in Segments, NEW x \in Int,
           seg = Up => x = Len(place) - 1, seg = Here => x = Len(place),
           seg # Up /\ seg # Here => x = Len(place) + 1, Len(place) >= on.floor
    PROVE  /\ x >= on.floor => /\ Walk(place, seg) = Toward(place, seg)
                               /\ Toward(place, seg) \in Seq(Plain) /\ Len(Toward(place, seg)) = x
           /\ x < on.floor => Walk(place, seg) = Escaped
<1>1. place # Escaped /\ on.floor \in Nat /\ Len(place) \in Nat /\ Up # Here
  BY PlainIsInside, HubFacts
<1>2. CASE seg = Here
  BY <1>1, <1>2 DEF Walk, Toward
<1>3. CASE seg # Here /\ seg # Up
  <2>1. seg \in Plain
    BY <1>3 DEF Plain
  <2>2. Append(place, seg) \in Seq(Plain) /\ Len(Append(place, seg)) = Len(place) + 1
    BY <2>1
  <2>3. Walk(place, seg) = Append(place, seg) /\ Toward(place, seg) = Append(place, seg)
    BY <1>1, <1>3, Zenon DEF Walk, Toward
  <2>4. x = Len(place) + 1
    BY <1>3
  <2>. QED BY <1>1, <2>2, <2>3, <2>4
<1>4. CASE seg = Up
  <2>0. seg # Here /\ x = Len(place) - 1
    BY <1>1, <1>4
  <2>1. CASE Len(place) <= on.floor
    <3>1. Walk(place, seg) = Escaped
      BY <1>1, <1>4, <2>0, <2>1, Zenon DEF Walk
    <3>2. x < on.floor
      BY <1>1, <2>0, <2>1
    <3>3. ~(x >= on.floor)
      BY <1>1, <2>0, <2>1
    <3>. QED BY <3>1, <3>2, <3>3
  <2>2. CASE ~(Len(place) <= on.floor)
    <3>1. place # <<>>
      <4>1. Len(place) # 0
        BY <1>1, <2>2
      <4>. QED BY <4>1
    <3>2. Walk(place, seg) = Front(place) /\ Toward(place, seg) = Front(place)
      BY <1>1, <1>4, <2>0, <2>2, <3>1, Zenon DEF Walk, Toward
    <3>3. Front(place) \in Seq(Plain) /\ Len(Front(place)) = Len(place) - 1
      BY <3>1, FrontIs
    <3>4. ~(x < on.floor)
      BY <1>1, <2>0, <2>2
    <3>. QED BY <2>0, <3>2, <3>3, <3>4
  <2>. QED BY <2>1, <2>2
<1>. QED BY <1>2, <1>3, <1>4

LEMMA WalkAgrees ==
    ASSUME on \in HubProjects, NEW p \in on.lock, NEW n \in 0..Len(p.path)
    PROVE  /\ Inside(p.path, n) =>
                 /\ PathDirs(p)[n] = Passed(on.project, p.path)[n]
                 /\ PathDirs(p)[n] \in Seq(Plain) /\ Len(PathDirs(p)[n]) = Depth(p.path, n)
           /\ ~Inside(p.path, n) => PathDirs(p)[n] = Escaped
<1>. DEFINE route == p.path
            d == PathDirs(p)
            a == Passed(on.project, route)
<1>1. route \in Seq(Segments) /\ on.project \in Seq(Segments) /\ on.project \in Seq(Plain)
      /\ on.floor \in Nat /\ on.floor <= Len(on.project)
  BY HubFacts
<1>2. Len(route) \in Nat /\ Len(on.project) \in Nat /\ \A i \in 1..Len(route) : route[i] \in Segments
  BY <1>1
<1>3. d[0] = on.project /\ \A m \in 1..Len(route) : d[m] = Walk(d[m - 1], route[m])
  BY WalkedIs
<1>4. a[0] = on.project /\ \A m \in 1..Len(route) : a[m] = Toward(a[m - 1], route[m])
  BY <1>1, PassedIs
<1>5. Depth(route, 0) = Len(on.project) /\ (\A m \in Nat : Depth(route, m) \in Int)
      /\ \A m \in Nat \ {0} :
            /\ route[m] = Up => Depth(route, m) = Depth(route, m - 1) - 1
            /\ route[m] = Here => Depth(route, m) = Depth(route, m - 1)
            /\ route[m] # Up /\ route[m] # Here => Depth(route, m) = Depth(route, m - 1) + 1
  BY DepthIs
<1>. DEFINE Good(m) == d[m] = a[m] /\ d[m] \in Seq(Plain) /\ Len(d[m]) = Depth(route, m)
            T == {m \in 0..Len(route) : (Inside(route, m) => Good(m)) /\ (~Inside(route, m) => d[m] = Escaped)}
<1>. HIDE DEF route, d, a
<1>6. 0 \in T
  <2>1. Good(0)
    BY <1>1, <1>3, <1>4, <1>5
  <2>2. Inside(route, 0)
    <3>1. \A m \in 0..0 : m = 0
      OBVIOUS
    <3>2. Depth(route, 0) >= on.floor
      BY <1>1, <1>2, <1>5
    <3>. QED BY <3>1, <3>2 DEF Inside
  <2>3. 0 \in 0..Len(route)
    BY <1>2
  <2>. HIDE DEF Good
  <2>. QED BY <2>1, <2>2, <2>3
<1>7. ASSUME NEW m \in 1..Len(route), m - 1 \in T PROVE m \in T
  <2>. DEFINE k == m - 1
  <2>0. k \in Nat /\ m \in Nat \ {0} /\ m \in 0..Len(route) /\ k = m - 1
    BY <1>2
  <2>1. (Inside(route, k) => Good(k)) /\ (~Inside(route, k) => d[k] = Escaped)
    BY <1>7
  <2>2. d[m] = Walk(d[k], route[m]) /\ a[m] = Toward(a[k], route[m]) /\ route[m] \in Segments
    BY <1>2, <1>3, <1>4
  <2>3. /\ route[m] = Up => Depth(route, m) = Depth(route, k) - 1
        /\ route[m] = Here => Depth(route, m) = Depth(route, k)
        /\ route[m] # Up /\ route[m] # Here => Depth(route, m) = Depth(route, k) + 1
        /\ Depth(route, m) \in Int /\ Depth(route, k) \in Int
    BY <1>5, <2>0
  <2>4. Inside(route, m) <=> Inside(route, k) /\ Depth(route, m) >= on.floor
    <3>1. \A i : i \in 0..m <=> i \in 0..k \/ i = m
      BY <2>0
    <3>. QED BY <3>1, Zenon DEF Inside
  <2>. HIDE DEF k
  <2>5. CASE ~Inside(route, k)
    <3>1. d[m] = Escaped
      BY <2>1, <2>2, <2>5, Zenon DEF Walk
    <3>. QED BY <2>0, <2>4, <2>5, <3>1
  <2>6. CASE Inside(route, k)
    <3>1. d[k] = a[k] /\ d[k] \in Seq(Plain) /\ Len(d[k]) = Depth(route, k)
      BY <2>1, <2>6
    <3>2. Depth(route, k) >= on.floor
      <4>1. k \in 0..k
        BY <2>0
      <4>. QED BY <2>6, <4>1, Zenon DEF Inside
    <3>. DEFINE x == Depth(route, m)
                place == d[k]
                seg == route[m]
    <3>3. /\ x \in Int /\ place \in Seq(Plain) /\ seg \in Segments
          /\ seg = Up => x = Len(place) - 1
          /\ seg = Here => x = Len(place)
          /\ seg # Up /\ seg # Here => x = Len(place) + 1
          /\ Len(place) >= on.floor
      BY <2>2, <2>3, <3>1, <3>2
    <3>. HIDE DEF x, place, seg
    <3>4. /\ x >= on.floor => /\ Walk(place, seg) = Toward(place, seg)
                              /\ Toward(place, seg) \in Seq(Plain) /\ Len(Toward(place, seg)) = x
          /\ x < on.floor => Walk(place, seg) = Escaped
      BY <3>3, WalkKept
    <3>5. d[m] = Walk(place, seg) /\ a[m] = Toward(place, seg)
      BY <2>2, <3>1 DEF place, seg
    <3>6. Inside(route, m) <=> x >= on.floor
      BY <2>4, <2>6 DEF x
    <3>7. x >= on.floor <=> ~(x < on.floor)
      BY <1>1, <3>3
    <3>8. Inside(route, m) => Good(m)
      BY <3>4, <3>5, <3>6 DEF x
    <3>9. ~Inside(route, m) => d[m] = Escaped
      BY <3>4, <3>5, <3>6, <3>7
    <3>. HIDE DEF Good
    <3>. QED BY <2>0, <3>8, <3>9
  <2>. QED BY <2>5, <2>6
<1>8. n \in T
  <2>. HIDE DEF T
  <2>1. \A m \in 0..Len(route) : m \in T
    BY <1>2, <1>6, <1>7, Upward
  <2>. QED BY <2>1 DEF route
<1>. QED BY <1>8 DEF route, d, a

LEMMA PathDirIs ==
    ASSUME on \in HubProjects, NEW p \in on.lock
    PROVE  /\ PathDir(p) # Escaped <=> StaysInside(p)
           /\ StaysInside(p) => PathDir(p) = Resolved(on.project, p.path) /\ PathDir(p) \in Seq(Plain)
<1>. DEFINE n == Len(p.path)
<1>1. p.path \in Seq(Segments)
  BY HubFacts
<1>2. n \in 0..Len(p.path)
  <2>1. Len(p.path) \in Nat
    BY <1>1
  <2>. QED BY <2>1
<1>3. StaysInside(p) <=> Inside(p.path, n)
  BY Zenon DEF StaysInside, Inside
<1>4. PathDir(p) = PathDirs(p)[n] /\ Resolved(on.project, p.path) = Passed(on.project, p.path)[n]
  BY Zenon DEF PathDir, Resolved
<1>. HIDE DEF n
<1>5. /\ Inside(p.path, n) => /\ PathDirs(p)[n] = Passed(on.project, p.path)[n]
                              /\ PathDirs(p)[n] \in Seq(Plain)
      /\ ~Inside(p.path, n) => PathDirs(p)[n] = Escaped
  BY <1>2, WalkAgrees
<1>. QED BY <1>3, <1>4, <1>5, PlainIsInside

(* Where the packages are, and why a hub is refused. *)
PlacedAsLocked ==
    \A p \in on.lock : p.source = "path" /\ p.name \in Names =>
        /\ StaysInside(p)
        /\ step = "places" \/ p.name # on.root => entries[p.name] = Resolved(on.project, p.path)

PlacedInv ==
    /\ on \in HubProjects
    /\ step \in {"places", "root", "close", "write", "written", "refused"}
    /\ step = "places" => Names \subseteq LockNames(on)
    /\ step \in {"root", "close", "write", "written"} => Names = LockNames(on) \cup {on.root}
    /\ on.unread \cap Names = {}
    /\ step \in {"close", "write", "written"} => on.root \notin LockNames(on) /\ SectionsAreRead
    /\ step = "written" => CanWrite
    /\ \A n \in Names : entries[n] \in Seq(Plain)
    /\ PlacedAsLocked
    /\ step = "refused" => AtFault

LEMMA LockCount ==
    ASSUME on \in HubProjects
    PROVE  Cardinality(LockNames(on) \cup {on.root}) = Cardinality(on.lock) + 1 <=> on.root \notin LockNames(on)
<1>1. IsFiniteSet(on.lock) /\ \A p, q \in on.lock : p.name = q.name => p = q
  BY HubAssumption
<1>. DEFINE f == [p \in on.lock |-> p.name]
<1>2. f \in Bijection(on.lock, LockNames(on))
  <2>1. f \in [on.lock -> LockNames(on)]
    BY DEF LockNames
  <2>2. \A p, q \in on.lock : f[p] = f[q] => p = q
    BY <1>1
  <2>3. \A n \in LockNames(on) : \E p \in on.lock : f[p] = n
    BY DEF LockNames
  <2>. HIDE DEF f
  <2>. QED BY <2>1, <2>2, <2>3 DEF Bijection, Injection, Surjection, IsInjective
<1>3. IsFiniteSet(LockNames(on)) /\ Cardinality(LockNames(on)) = Cardinality(on.lock)
  <2>1. ExistsBijection(on.lock, LockNames(on))
    <3>. HIDE DEF f
    <3>. QED BY <1>2 DEF ExistsBijection
  <2>. QED BY <1>1, <2>1, FS_Bijection
<1>4. Cardinality(LockNames(on)) \in Nat
  BY <1>3, FS_CardinalityType
<1>5. CASE on.root \in LockNames(on)
  <2>1. LockNames(on) \cup {on.root} = LockNames(on)
    BY <1>5
  <2>2. ~(Cardinality(LockNames(on)) = Cardinality(LockNames(on)) + 1)
    BY <1>4
  <2>. QED BY <1>3, <1>5, <2>1, <2>2
<1>6. CASE on.root \notin LockNames(on)
  <2>1. Cardinality(LockNames(on) \cup {on.root}) = Cardinality(LockNames(on)) + 1
    BY <1>3, <1>6, FS_AddElement
  <2>. QED BY <1>3, <1>6, <2>1
<1>. QED BY <1>5, <1>6

LEMMA SameProject ==
    ASSUME on' = on
    PROVE  /\ Plain' = Plain /\ LockNames(on)' = LockNames(on) /\ (AtFault' <=> AtFault)
           /\ \A p : StaysInside(p)' <=> StaysInside(p)
<1>1. Plain' = Plain /\ LockNames(on)' = LockNames(on)
  BY DEF Plain, Segments, LockNames
<1>2. \A p : StaysInside(p)' <=> StaysInside(p)
  BY DEF StaysInside, Depth
<1>3. AtFault' <=> AtFault
  <2>1. /\ ProjectNames(on)' = ProjectNames(on)
        /\ (\E q \in on.lock : q.source = "path" /\ ~StaysInside(q))' <=>
              \E q \in on.lock : q.source = "path" /\ ~StaysInside(q)
    BY <1>2 DEF ProjectNames, LockNames
  <2>. QED BY <1>1, <2>1 DEF AtFault
<1>. QED BY <1>1, <1>2, <1>3

(* A step that leaves the entries alone. *)
LEMMA PlacedKept ==
    ASSUME PlacedInv, on' = on, entries' = entries,
           \/ step' = step
           \/ step' = "refused" /\ AtFault
           \/ step = "root" /\ step' = "close" /\ on.root \notin LockNames(on) /\ SectionsAreRead
           \/ step = "close" /\ step' = "write"
           \/ step = "write" /\ step' = "written" /\ CanWrite
    PROVE  PlacedInv'
<1>1. /\ Plain' = Plain /\ LockNames(on)' = LockNames(on) /\ (AtFault' <=> AtFault) /\ Names' = Names
      /\ \A p : StaysInside(p)' <=> StaysInside(p)
  BY SameProject DEF Names
<1>2. PlacedAsLocked'
  BY <1>1 DEF PlacedInv, PlacedAsLocked
<1>3. (SectionsAreRead' <=> SectionsAreRead) /\ (CanWrite' <=> CanWrite)
  BY <1>1 DEF SectionsAreRead, CanWrite, Others
<1>. QED BY <1>1, <1>2, <1>3 DEF PlacedInv

(* A package is placed. *)
LEMMA PackagePlaced ==
    ASSUME PlacedInv, NEW p \in on.lock, Unplaced(p), NEW place \in Seq(Plain), AddEntry(p.name, place),
           step' = step, p.name \notin on.unread,
           p.source = "path" => StaysInside(p) /\ place = Resolved(on.project, p.path)
    PROVE  PlacedInv'
<1>1. /\ on' = on /\ entries' = [n \in Names \cup {p.name} |-> IF n = p.name THEN place ELSE entries[n]]
      /\ step = "places" /\ p.name \notin Names
  BY DEF AddEntry, Unplaced
<1>2. /\ Plain' = Plain /\ LockNames(on)' = LockNames(on)
      /\ \A q : StaysInside(q)' <=> StaysInside(q)
  BY <1>1, SameProject
<1>3. /\ Names' = Names \cup {p.name} /\ entries'[p.name] = place
      /\ \A n \in Names : entries'[n] = entries[n]
  BY <1>1 DEF Names
<1>4. Names' \subseteq LockNames(on)
  BY <1>1, <1>3 DEF PlacedInv, LockNames
<1>5. \A n \in Names' : entries'[n] \in Seq(Plain)
  BY <1>3 DEF PlacedInv
<1>6. PlacedAsLocked'
  <2>. SUFFICES ASSUME NEW q \in on.lock, q.source = "path", q.name \in Names'
                PROVE  StaysInside(q) /\ entries'[q.name] = Resolved(on.project, q.path)
    BY <1>1, <1>2 DEF PlacedAsLocked
  <2>1. CASE q.name \in Names
    <3>1. StaysInside(q) /\ entries[q.name] = Resolved(on.project, q.path)
      BY <1>1, <2>1 DEF PlacedInv, PlacedAsLocked
    <3>. QED BY <1>3, <2>1, <3>1
  <2>2. CASE q.name = p.name
    <3>1. q = p
      BY <2>2, HubAssumption DEF PlacedInv
    <3>. QED BY <1>3, <3>1
  <2>. QED BY <1>3, <2>1, <2>2
<1>7. on'.unread \cap Names' = {}
  BY <1>1, <1>3 DEF PlacedInv
<1>. QED BY <1>1, <1>2, <1>4, <1>5, <1>6, <1>7 DEF PlacedInv

LEMMA RootPlaced ==
    ASSUME PlacedInv, AddRoot
    PROVE  PlacedInv'
<1>1. /\ on' = on /\ step = "places" /\ step' = "root" /\ \A p \in on.lock : p.name \in Names
      /\ on.root \notin on.unread
      /\ entries' = [n \in Names \cup {on.root} |-> IF n = on.root THEN on.project ELSE entries[n]]
  BY DEF AddRoot, AddEntry
<1>2. /\ Plain' = Plain /\ LockNames(on)' = LockNames(on)
      /\ \A q : StaysInside(q)' <=> StaysInside(q)
  BY <1>1, SameProject
<1>3. /\ Names' = Names \cup {on.root} /\ entries'[on.root] = on.project
      /\ \A n \in Names : n # on.root => entries'[n] = entries[n]
  BY <1>1 DEF Names
<1>4. Names' = LockNames(on) \cup {on.root}
  BY <1>1, <1>3 DEF PlacedInv, LockNames
<1>5. on.project \in Seq(Plain)
  BY HubFacts DEF PlacedInv
<1>6. \A n \in Names' : entries'[n] \in Seq(Plain)
  BY <1>3, <1>5 DEF PlacedInv
<1>7. PlacedAsLocked'
  <2>. SUFFICES ASSUME NEW q \in on.lock, q.source = "path"
                PROVE  /\ StaysInside(q)
                       /\ q.name # on.root => entries'[q.name] = Resolved(on.project, q.path)
    BY <1>1, <1>2 DEF PlacedAsLocked
  <2>1. q.name \in Names
    BY <1>1
  <2>2. StaysInside(q) /\ entries[q.name] = Resolved(on.project, q.path)
    BY <1>1, <2>1 DEF PlacedInv, PlacedAsLocked
  <2>. QED BY <1>3, <2>1, <2>2
<1>8. on'.unread \cap Names' = {}
  BY <1>1, <1>3 DEF PlacedInv
<1>. QED BY <1>1, <1>2, <1>4, <1>6, <1>7, <1>8 DEF PlacedInv

LEMMA PlacedStep == PlacedInv /\ [HubNext]_hubVars => PlacedInv'
<1>. SUFFICES ASSUME PlacedInv, [HubNext]_hubVars PROVE PlacedInv'
  OBVIOUS
<1>0. on \in HubProjects
  BY DEF PlacedInv
<1>1. ASSUME NEW p \in on.lock, PlaceInRepository(p) PROVE PlacedInv'
  <2>1. /\ Unplaced(p) /\ p.source # "path" /\ AddEntry(p.name, <<"external", p.name>>)
        /\ step' = step /\ p.name \notin on.unread
    BY <1>1 DEF PlaceInRepository
  <2>2. <<"external", p.name>> \in Seq(Plain)
    <3>1. "external" \in Plain /\ p.name \in Plain
      BY <1>0, HubFacts
    <3>. QED BY <3>1
  <2>. DEFINE place == <<"external", p.name>>
  <2>. HIDE DEF place
  <2>3. place \in Seq(Plain) /\ AddEntry(p.name, place)
    BY <2>1, <2>2 DEF place
  <2>. QED BY <2>1, <2>3, PackagePlaced
<1>2. ASSUME NEW p \in on.lock, PlaceByPath(p) PROVE PlacedInv'
  <2>1. /\ Unplaced(p) /\ AddEntry(p.name, PathDir(p)) /\ step' = step /\ PathDir(p) # Escaped
        /\ p.name \notin on.unread
    BY <1>2 DEF PlaceByPath
  <2>2. StaysInside(p) /\ PathDir(p) = Resolved(on.project, p.path) /\ PathDir(p) \in Seq(Plain)
    BY <1>0, <2>1, PathDirIs
  <2>. QED BY <2>1, <2>2, PackagePlaced
<1>3. ASSUME NEW p \in on.lock, RefusePath(p) PROVE PlacedInv'
  <2>1. p.source = "path" /\ PathDir(p) = Escaped /\ step' = "refused" /\ on' = on /\ entries' = entries
    BY <1>3 DEF RefusePath, Refused
  <2>2. AtFault
    BY <1>0, <2>1, PathDirIs DEF AtFault
  <2>. QED BY <2>1, <2>2, PlacedKept
<1>4. CASE AddRoot
  BY <1>4, RootPlaced
<1>5. CASE RefuseCount
  <2>1. /\ step = "root" /\ Cardinality(Names) # Cardinality(on.lock) + 1
        /\ step' = "refused" /\ on' = on /\ entries' = entries
    BY <1>5 DEF RefuseCount, Refused
  <2>2. Names = LockNames(on) \cup {on.root}
    BY <2>1 DEF PlacedInv
  <2>3. on.root \in LockNames(on)
    BY <1>0, <2>1, <2>2, LockCount
  <2>4. AtFault
    BY <2>3 DEF AtFault, LockNames
  <2>. QED BY <2>1, <2>4, PlacedKept
<1>6. CASE RefuseSection
  <2>1. /\ step = "root" /\ step' = "refused" /\ on' = on /\ entries' = entries
        /\ ~SectionsAreRead
    BY <1>6 DEF RefuseSection, Refused
  <2>2. Names = ProjectNames(on)
    BY <2>1 DEF PlacedInv, LockNames, ProjectNames
  <2>3. AtFault
    BY <2>1, <2>2 DEF AtFault, SectionsAreRead
  <2>. QED BY <2>1, <2>3, PlacedKept
<1>7. CASE StartClosure
  <2>1. /\ step = "root" /\ Cardinality(Names) = Cardinality(on.lock) + 1
        /\ step' = "close" /\ on' = on /\ entries' = entries /\ SectionsAreRead
    BY <1>7 DEF StartClosure
  <2>2. Names = LockNames(on) \cup {on.root}
    BY <2>1 DEF PlacedInv
  <2>3. on.root \notin LockNames(on)
    BY <1>0, <2>1, <2>2, LockCount
  <2>. QED BY <2>1, <2>3, PlacedKept
<1>8. CASE CloseOnce
  BY <1>8, PlacedKept DEF CloseOnce
<1>9. CASE StopClosure
  BY <1>9, PlacedKept DEF StopClosure
<1>10. CASE Write
  BY <1>10, PlacedKept DEF Write
<1>11. CASE UNCHANGED hubVars
  BY <1>11, PlacedKept DEF hubVars
<1>12. CASE RefusePubspec
  <2>1. /\ step' = "refused" /\ on' = on /\ entries' = entries
        /\ on.unread \cap ProjectNames(on) # {}
    BY <1>12 DEF RefusePubspec, Refused
  <2>2. AtFault
    BY <2>1 DEF AtFault
  <2>. QED BY <2>1, <2>2, PlacedKept
<1>13. CASE RefuseWrite
  <2>1. /\ step = "write" /\ step' = "refused" /\ on' = on /\ entries' = entries /\ ~CanWrite
    BY <1>13 DEF RefuseWrite, Refused
  <2>2. Others \subseteq LockNames(on)
    BY <2>1 DEF PlacedInv, Others
  <2>3. AtFault
    BY <2>1, <2>2 DEF AtFault, CanWrite
  <2>. QED BY <2>1, <2>3, PlacedKept
<1>. QED BY <1>1, <1>2, <1>3, <1>4, <1>5, <1>6, <1>7, <1>8, <1>9, <1>10, <1>11, <1>12, <1>13 DEF HubNext

(* What is written leads home, and names targets. *)
LEMMA WrittenLeadsHome ==
    ASSUME PlacedInv, step = "written", out = Written
    PROVE  ConfigsLeadHome
<1>1. /\ on \in HubProjects /\ Names = LockNames(on) \cup {on.root} /\ on.root \notin LockNames(on)
      /\ (\A n \in Names : entries[n] \in Seq(Plain)) /\ PlacedAsLocked
  BY DEF PlacedInv
<1>2. /\ out.hubConfig = Config(<<"external", Hub>>)
      /\ out.projectConfig = Config(Append(on.project, ".dart_tool"))
  BY DEF Written
<1>3. /\ on.project \in Seq(Segments) /\ Up \in Segments /\ Up # Here /\ Plain \subseteq Segments
      /\ Hub \in Segments /\ "external" \in Segments /\ ".dart_tool" \in Segments
      /\ Up \notin Plain /\ Here \notin Plain
  BY <1>1, HubFacts
<1>4. ASSUME NEW base \in Seq(Segments), NEW n \in Names
      PROVE  Resolved(base, Config(base)[n]) = entries[n]
  <2>. DEFINE target == entries[n]
  <2>1. target \in Seq(Plain)
    BY <1>1
  <2>2. Config(base)[n] = Relative(base, target)
    BY DEF Config
  <2>. HIDE DEF target
  <2>3. target \in Seq(Segments)
    BY <1>3, <2>1, SeqWider
  <2>4. \A i \in 1..Len(target) : target[i] # Up /\ target[i] # Here
    <3>1. \A i \in 1..Len(target) : target[i] \in Plain
      BY <2>1
    <3>. QED BY <1>3, <3>1
  <2>5. Resolved(base, Relative(base, target)) = target
    BY <1>3, <2>3, <2>4, RelativeLeads
  <2>. QED BY <2>2, <2>5 DEF target
<1>5. <<"external", Hub>> \in Seq(Segments)
  BY <1>3
<1>6. Append(on.project, ".dart_tool") \in Seq(Segments)
  BY <1>3
<1>7. \A n \in Names :
         /\ Resolved(<<"external", Hub>>, out.hubConfig[n]) = entries[n]
         /\ Resolved(Append(on.project, ".dart_tool"), out.projectConfig[n]) = entries[n]
  BY <1>2, <1>4, <1>5, <1>6
<1>8. ASSUME NEW p \in on.lock, p.source = "path"
      PROVE  entries[p.name] = Resolved(on.project, p.path)
  <2>1. p.name \in Names /\ p.name # on.root
    BY <1>1 DEF LockNames
  <2>. QED BY <1>1, <1>8, <2>1 DEF PlacedAsLocked
<1>9. Names = {p.name : p \in on.lock} \cup {on.root}
  BY <1>1 DEF LockNames
<1>. QED BY <1>7, <1>8, <1>9 DEF ConfigsLeadHome

LEMMA WrittenHasTargets ==
    ASSUME out = Written
    PROVE  DependenciesHaveTargets
<1>1. /\ out.plugins = [os \in Systems \cup {"android"} |-> {Metadata(n, os) : n \in WithPlatform(os)}]
      /\ out.debug = UNION {DartPlugins(n) : n \in Others}
  BY DEF Written
<1>. SUFFICES ASSUME NEW os \in DOMAIN out.plugins, NEW m \in out.plugins[os], NEW d \in m.dependencies
              PROVE  \E o \in out.plugins[os] :
                        o.name = d /\ (o.native \/ <<d, os>> \in out.debug \/ os \notin NativeSystems)
  BY DEF DependenciesHaveTargets
<1>2. out.plugins[os] = {Metadata(n, os) : n \in WithPlatform(os)}
  BY <1>1
<1>3. PICK n \in WithPlatform(os) : m = Metadata(n, os)
  BY <1>2
<1>4. d \in ImplementingOn(os)
  <2>1. m.dependencies = DepsOf(n) \cap ImplementingOn(os)
    BY <1>3 DEF Metadata
  <2>. QED BY <2>1
<1>5. d \in WithPlatform(os) /\ Implementing(PlatformsOf(d)[os])
  BY <1>4 DEF ImplementingOn
<1>6. d \in Others /\ os \in DOMAIN PlatformsOf(d)
  BY <1>5 DEF WithPlatform
<1>. DEFINE o == Metadata(d, os)
<1>7. o \in out.plugins[os]
  BY <1>2, <1>5
<1>8. /\ o.name = d
      /\ o.native <=> Field(PlatformsOf(d)[os], "pluginClass") # "" \/ Field(PlatformsOf(d)[os], "ffiPlugin") = "true"
  BY DEF Metadata
<1>9. ASSUME ~o.native, os \in NativeSystems PROVE <<d, os>> \in out.debug
  <2>1. Field(PlatformsOf(d)[os], "dartPluginClass") # ""
    BY <1>5, <1>8, <1>9 DEF Implementing
  <2>2. <<d, os>> \in DartPlugins(d)
    BY <1>6, <1>9, <2>1 DEF DartPlugins
  <2>. QED BY <1>1, <1>6, <2>2
<1>. HIDE DEF o
<1>. QED BY <1>7, <1>8, <1>9

(* pub_hub: for every lock, wherever it lies, and for every text of its pubspecs, the
   readers read what is indented, no path leaves the repository, a hub is refused only with
   a reason, both configs lead to every package, and a native dependency is a target. *)
THEOREM HubSafeCorrect == HubSpec => []HubSafe
<1>1. HubInit => HubInv /\ PlacedInv
  <2>. SUFFICES ASSUME HubInit PROVE HubInv /\ PlacedInv
    OBVIOUS
  <2>1. Names = {} /\ on \in HubProjects /\ step = "places"
    BY DEF HubInit, HubStart, Names
  <2>2. HubInv
    BY <2>1, FS_EmptySet DEF HubInv, EntriesOK, Closing
  <2>3. PlacedInv
    BY <2>1 DEF PlacedInv, PlacedAsLocked
  <2>. QED BY <2>2, <2>3
<1>2. HubInv /\ PlacedInv => HubSafe
  <2>. SUFFICES ASSUME HubInv, PlacedInv PROVE HubSafe
    OBVIOUS
  <2>1. \A n \in DOMAIN on.pubspec : PubspecReadAsIndented(on.pubspec[n])
    <3>1. \A n \in DOMAIN on.pubspec : IsText(on.pubspec[n])
      BY HubAssumption DEF PlacedInv
    <3>. QED BY <3>1, PubspecsAreRead
  <2>2. ConfigsLeadHome
    <3>1. CASE step = "written"
      BY <3>1, WrittenLeadsHome DEF HubInv
    <3>2. CASE step # "written"
      BY <3>2 DEF ConfigsLeadHome
    <3>. QED BY <3>1, <3>2
  <2>3. DependenciesHaveTargets
    <3>1. CASE step = "written"
      BY <3>1, WrittenHasTargets DEF HubInv
    <3>2. CASE step # "written"
      BY <3>2 DEF DependenciesHaveTargets
    <3>. QED BY <3>1, <3>2
  <2>4. PathsStayInside
    BY DEF PlacedInv, PlacedAsLocked, PathsStayInside
  <2>5. RefusesWithReason
    <3>1. step = "refused" => AtFault
      BY DEF PlacedInv
    <3>2. ASSUME step = "written" PROVE ~AtFault
      <4>1. /\ Names = LockNames(on) \cup {on.root} /\ on.root \notin LockNames(on)
            /\ on.unread \cap Names = {} /\ SectionsAreRead /\ CanWrite /\ PlacedAsLocked
        BY <3>2 DEF PlacedInv
      <4>2. Names = ProjectNames(on) /\ Others = LockNames(on)
        BY <4>1 DEF ProjectNames, Others
      <4>3. \A p \in on.lock : p.name \in Names
        BY <4>1 DEF LockNames
      <4>4. \A p \in on.lock : p.source = "path" => StaysInside(p)
        BY <4>1, <4>3 DEF PlacedAsLocked
      <4>. QED BY <4>1, <4>2, <4>4 DEF AtFault, SectionsAreRead, CanWrite
    <3>. QED BY <3>1, <3>2 DEF RefusesWithReason
  <2>. QED BY <2>1, <2>2, <2>3, <2>4, <2>5 DEF HubSafe
<1>. QED BY <1>1, <1>2, HubStep, PlacedStep, PTL DEF HubSpec

-----------------------------------------------------------------------------
(* The launcher (TestLauncher).  A listed directory, and the configs at or above the test. *)
DirAt(i) == Package \o test.dirs[i]

Near == {c \in Known : /\ c # <<>> /\ Last(c) = ConfigName
                       /\ IsPrefix(Front(c), DirectoryOf(test.test))
                       /\ IsPrefix(Package, Front(c))}

\* The configs still to be met are at or above the directory looked at.
Looking ==
    /\ stage \in {"macro", "config"} =>
          /\ config = Nowhere
          /\ dir \in Path /\ IsPrefix(dir, DirectoryOf(test.test))
          /\ ~Outside => IsPrefix(Package, dir) /\ \A c \in Near : Len(c) <= Len(dir) + 1
    /\ NearestConfig

\* The ways that are made: their directories, and links to what lies there.
WayNodes(ways) == UNION {Prefixes(w) : w \in ways}
WayLinks(ways) == UNION {Entries(w) \ MadeHere : w \in ways}

WaysMade(ways) ==
    /\ \A p \in WayNodes(ways) : p \in DOMAIN mirror /\ mirror[p] = Dir
    /\ \A p \in WayLinks(ways) : p \in DOMAIN mirror /\ mirror[p] = Link(p)

\* d is there with all it holds, and where no directory is named twice nothing else is.
Real(d) ==
    \A q \in TreeOf(d) :
        /\ q \in DOMAIN mirror
        /\ IF q \in runfiles THEN mirror[q].kind \in {"copy", "hard"} ELSE mirror[q] = Dir
Alone(d) ==
    \A q \in DOMAIN mirror : IsPrefix(d, q) =>
        q \in TreeOf(d) /\ (q \in runfiles => mirror[q].of = q)

Done == DOMAIN test.dirs \ toCopy

\* The mirror while directories are materialized: the ways, and the trees copied so far.
Copying ==
    /\ WaysMade(OnTheWay)
    /\ DOMAIN mirror \subseteq Path /\ toCopy \subseteq DOMAIN test.dirs
    /\ \A p \in DOMAIN mirror :
          p \in WayNodes(OnTheWay) \cup WayLinks(OnTheWay) \/ \E i \in Done : IsPrefix(DirAt(i), p)
    /\ \A i \in Done : Real(DirAt(i)) /\ (Once => Alone(DirAt(i)))

\* What the analysis has let through.
Analysed ==
    /\ runfiles = test.srcs \cup test.data \cup Kept
    /\ NoneNested /\ \A d \in Dirs : SomethingIn(d)

(* The inductive invariant: one conjunct for each stage of flutter_test.bzl. *)
LauncherInv ==
    /\ test \in Tests
    /\ Looking
    /\ stage \in {"macro", "config", "analysis"} => DOMAIN mirror = {}
    /\ stage \in {"config", "analysis"} => NoneNested
    /\ stage \in {"mirror", "materialize", "runs"} => Analysed
    /\ stage = "mirror" =>
          /\ Dirs # {} /\ toCopy = DOMAIN test.dirs /\ toLink \subseteq OnTheWay
          /\ WaysMade(OnTheWay \ toLink)
          /\ DOMAIN mirror = WayNodes(OnTheWay \ toLink) \cup WayLinks(OnTheWay \ toLink)
    /\ stage = "materialize" => Dirs # {} /\ Copying
    /\ Mirrored => Copying /\ toCopy = {}
    /\ stage = "failed" => ~Once

(* The directories at or above a path are its prefixes. *)
LEMMA PathsAbove ==
    ASSUME NEW w \in Path, NEW p
    PROVE  p \in Prefixes(w) <=> p \in Path /\ IsPrefix(p, w)
<1>1. ASSUME p \in Prefixes(w) PROVE p \in Path /\ IsPrefix(p, w)
  <2>1. PICK n \in 0..Len(w) : p = SubSeq(w, 1, n)
    BY <1>1 DEF Prefixes
  <2>. QED BY <2>1, PrefixCut DEF Path
<1>2. ASSUME p \in Path, IsPrefix(p, w) PROVE p \in Prefixes(w)
  <2>1. p = SubSeq(w, 1, Len(p)) /\ Len(p) \in 0..Len(w)
    BY <1>2, PrefixIsCut DEF Path
  <2>. QED BY <2>1 DEF Prefixes
<1>. QED BY <1>1, <1>2

(* Of two directories above one path, one is above the other. *)
LEMMA OnOnePath ==
    ASSUME NEW a \in Path, NEW b \in Path, NEW c \in Path, IsPrefix(a, c), IsPrefix(b, c)
    PROVE  /\ IsPrefix(a, b) \/ IsPrefix(b, a)
           /\ Len(a) \in Nat /\ Len(b) \in Nat
           /\ Len(a) < Len(b) => Below(a, b)
           /\ a # b => Below(a, b) \/ Below(b, a)
<1>1. Len(a) \in Nat /\ Len(b) \in Nat
  BY PrefixIs DEF Path
<1>2. /\ Len(a) <= Len(b) => IsPrefix(a, b)
      /\ Len(b) <= Len(a) => IsPrefix(b, a)
  BY PrefixesChain DEF Path
<1>3. Len(a) <= Len(b) \/ Len(b) <= Len(a)
  BY <1>1
<1>4. Len(a) < Len(b) => IsPrefix(a, b) /\ a # b
  BY <1>1, <1>2
<1>. QED BY <1>1, <1>2, <1>3, <1>4 DEF Below, IsStrictPrefix

LEMMA FurtherOn ==
    ASSUME NEW a \in Path, NEW b \in Path, NEW c \in Path
    PROVE  /\ IsPrefix(a, b) /\ IsPrefix(b, c) => IsPrefix(a, c)
           /\ IsPrefix(a, b) /\ Below(b, c) => Below(a, c)
           /\ Below(a, b) /\ IsPrefix(b, c) => Below(a, c)
           /\ ~(Below(a, b) /\ IsPrefix(b, a))
           /\ IsPrefix(a, a) /\ (IsPrefix(a, b) => a = b \/ Below(a, b))
<1>1. IsPrefix(a, b) /\ IsPrefix(b, c) => IsPrefix(a, c)
  BY PrefixOn DEF Path
<1>2. ASSUME IsPrefix(a, b), IsPrefix(b, a) PROVE a = b
  <2>1. Len(a) <= Len(b) /\ Len(b) <= Len(a) /\ Len(a) \in Nat /\ Len(b) \in Nat
    BY <1>2, PrefixLonger DEF Path
  <2>2. Len(a) = Len(b)
    BY <2>1
  <2>. QED BY <1>2, <2>2, PrefixLonger DEF Path
<1>3. ASSUME IsPrefix(b, c), IsPrefix(c, b) PROVE b = c
  <2>1. Len(c) <= Len(b) /\ Len(b) <= Len(c) /\ Len(c) \in Nat /\ Len(b) \in Nat
    BY <1>3, PrefixLonger DEF Path
  <2>2. Len(c) = Len(b)
    BY <2>1
  <2>. QED BY <1>3, <2>2, PrefixLonger DEF Path
<1>4. IsPrefix(a, a)
  BY PrefixAll DEF Path
<1>. QED BY <1>1, <1>2, <1>3, <1>4 DEF Below, IsStrictPrefix

(* What LauncherAssumption says of the test at hand. *)
LEMMA PathFacts ==
    ASSUME test \in Tests
    PROVE  /\ Package \in Path /\ test.test \in Path /\ Declared \subseteq Path
           /\ Known \subseteq Path
           /\ \A i \in DOMAIN test.dirs :
                 test.dirs[i] \in Path /\ DirAt(i) \in Path /\ IsPrefix(Package, DirAt(i))
           /\ Dirs = {DirAt(i) : i \in DOMAIN test.dirs}
           /\ \A f, g \in Declared : ~Below(f, g)
<1>1. PathsIn(test) \subseteq Path /\ \A f, g \in Declared : ~Below(f, g)
  <2>1. \A f, g \in test.srcs \cup test.data \cup test.prunable : ~Below(f, g)
    BY LauncherAssumption
  <2>. QED BY <2>1, LauncherAssumption DEF Declared
<1>2. Package \in Path /\ test.test \in Path /\ Declared \subseteq Path /\ Known \subseteq Path
  BY <1>1 DEF PathsIn, Package, Declared, Known
<1>3. ASSUME NEW i \in DOMAIN test.dirs
      PROVE  test.dirs[i] \in Path /\ DirAt(i) \in Path /\ IsPrefix(Package, DirAt(i))
  <2>1. test.dirs[i] \in Path
    BY <1>1 DEF PathsIn
  <2>. QED BY <1>2, <2>1, PrefixOfJoined DEF Path, DirAt
<1>. QED BY <1>1, <1>2, <1>3 DEF Dirs, DirAt

LEMMA JoinedPrefixes ==
    ASSUME NEW S, NEW p \in Seq(S), NEW a \in Seq(S), NEW b \in Seq(S), IsPrefix(p \o a, p \o b)
    PROVE  IsPrefix(a, b)
<1>. DEFINE pa == p \o a
            pb == p \o b
<1>1. /\ pa \in Seq(S) /\ Len(pa) = Len(p) + Len(a) /\ pb \in Seq(S) /\ Len(pb) = Len(p) + Len(b)
      /\ Len(p) \in Nat /\ Len(a) \in Nat /\ Len(b) \in Nat
  BY PrefixOfJoined
<1>2. /\ \A i \in Len(p) + 1..Len(p) + Len(a) : pa[i] = a[i - Len(p)]
      /\ \A i \in Len(p) + 1..Len(p) + Len(b) : pb[i] = b[i - Len(p)]
  BY TwoParts
<1>3. IsPrefix(pa, pb)
  OBVIOUS
<1>. HIDE DEF pa, pb
<1>4. Len(pa) <= Len(pb) /\ \A i \in 1..Len(pa) : pa[i] = pb[i]
  <2>1. pa \in Seq(S) /\ pb \in Seq(S)
    BY <1>1
  <2>. QED BY <1>3, <2>1, PrefixIs
<1>5. Len(a) <= Len(b)
  BY <1>1, <1>4
<1>6. ASSUME NEW i \in 1..Len(a) PROVE a[i] = b[i]
  <2>1. /\ Len(p) + i \in Len(p) + 1..Len(p) + Len(a) /\ Len(p) + i \in Len(p) + 1..Len(p) + Len(b)
        /\ (Len(p) + i) - Len(p) = i /\ Len(p) + i \in 1..Len(pa)
    BY <1>1, <1>5
  <2>. QED BY <1>2, <1>4, <2>1
<1>. QED BY <1>5, <1>6, PrefixIs

(* No listed directory lies below another (_materialize_dirs): two that meet are one. *)
LEMMA DirsApart ==
    ASSUME test \in Tests, NoneNested
    PROVE  /\ \A d \in Dirs : d \in Path /\ Below(Package, d)
           /\ \A d, e \in Dirs : IsPrefix(d, e) => d = e
           /\ \A d, e \in Dirs : ~Below(d, e)
           /\ \A i, j \in DOMAIN test.dirs : Once /\ DirAt(i) = DirAt(j) => i = j
<1>1. \A i \in DOMAIN test.dirs : test.dirs[i] \in Path /\ test.dirs[i] # <<>>
  BY PathFacts DEF NoneNested, IsBelowPackage
<1>2. Package \in Path
  BY PathFacts
<1>3. ASSUME NEW i \in DOMAIN test.dirs PROVE DirAt(i) \in Path /\ Below(Package, DirAt(i))
  <2>1. test.dirs[i] \in Path /\ test.dirs[i] # <<>>
    BY <1>1
  <2>2. DirAt(i) \in Path /\ IsPrefix(Package, DirAt(i)) /\ Package # DirAt(i)
    BY <1>2, <2>1, PrefixOfJoined DEF Path, DirAt
  <2>. QED BY <2>2 DEF Below, IsStrictPrefix
<1>4. ASSUME NEW i \in DOMAIN test.dirs, NEW j \in DOMAIN test.dirs, IsPrefix(DirAt(i), DirAt(j))
      PROVE  test.dirs[i] = test.dirs[j]
  <2>1. IsPrefix(test.dirs[i], test.dirs[j])
    BY <1>1, <1>2, <1>4, JoinedPrefixes DEF Path, DirAt
  <2>. QED BY <2>1 DEF NoneNested, Below, IsStrictPrefix
<1>5. Dirs = {DirAt(i) : i \in DOMAIN test.dirs}
  BY PathFacts
<1>6. ASSUME NEW d \in Dirs, NEW e \in Dirs, IsPrefix(d, e) PROVE d = e
  <2>1. PICK i \in DOMAIN test.dirs : d = DirAt(i)
    BY <1>5
  <2>2. PICK j \in DOMAIN test.dirs : e = DirAt(j)
    BY <1>5
  <2>. QED BY <1>4, <1>6, <2>1, <2>2 DEF DirAt
<1>7. ASSUME NEW i \in DOMAIN test.dirs, NEW j \in DOMAIN test.dirs, Once, DirAt(i) = DirAt(j)
      PROVE  i = j
  <2>1. IsPrefix(DirAt(i), DirAt(j))
    BY <1>3, <1>7, FurtherOn
  <2>. QED BY <1>4, <1>7, <2>1 DEF Once
<1>. QED BY <1>3, <1>5, <1>6, <1>7 DEF Below, IsStrictPrefix

\* What the launcher's script makes itself: the package, the directories below it on the
\* way to one that is materialized, and these.
LEMMA WaysAre ==
    ASSUME test \in Tests, NoneNested, Dirs # {}
    PROVE  /\ \A p : p \in OnTheWay <=>
                        p \in Path /\ IsPrefix(Package, p) /\ \E d \in Dirs : Below(p, d)
           /\ \A p : p \in MadeHere <=>
                        p \in Path /\ IsPrefix(Package, p) /\ \E d \in Dirs : IsPrefix(p, d)
<1>1. Package \in Path
  BY PathFacts
<1>2. \A d \in Dirs : d \in Path /\ Below(Package, d)
  BY DirsApart
<1>3. ASSUME NEW p \in OnTheWay
      PROVE  p \in Path /\ IsPrefix(Package, p) /\ \E d \in Dirs : Below(p, d)
  <2>1. CASE p = Package
    BY <1>1, <1>2, <2>1, FurtherOn
  <2>2. CASE p # Package
    <3>1. /\ \E e \in Dirs : \E n \in 1..Len(e) : p = SubSeq(e, 1, n)
          /\ Below(Package, p) /\ \E e \in Dirs : Below(p, e)
      BY <2>2 DEF OnTheWay
    <3>2. PICK e \in Dirs : \E n \in 1..Len(e) : p = SubSeq(e, 1, n)
      BY <3>1
    <3>5. PICK n \in 1..Len(e) : p = SubSeq(e, 1, n)
      BY <3>2
    <3>3. e \in Path /\ n \in 0..Len(e)
      BY <1>2
    <3>4. p \in Path
      BY <3>5, <3>3, PrefixCut DEF Path
    <3>. QED BY <3>1, <3>4 DEF Below, IsStrictPrefix
  <2>. QED BY <2>1, <2>2
<1>4. ASSUME NEW p \in Path, IsPrefix(Package, p), NEW d \in Dirs, Below(p, d)
      PROVE  p \in OnTheWay
  <2>1. CASE p = Package
    BY <2>1 DEF OnTheWay
  <2>2. CASE p # Package
    <3>1. Below(Package, p) /\ IsPrefix(p, d) /\ d \in Path
      BY <1>2, <1>4, <2>2 DEF Below, IsStrictPrefix
    <3>2. p = SubSeq(d, 1, Len(p)) /\ Len(p) \in 0..Len(d)
      BY <3>1, PrefixIsCut DEF Path
    <3>3. Len(p) # 0
      <4>1. IsPrefix(Package, p) /\ Package # p
        BY <3>1 DEF Below, IsStrictPrefix
      <4>2. Len(Package) \in Nat /\ Len(p) \in Nat /\ Len(Package) <= Len(p) /\ Len(Package) # Len(p)
        BY <1>1, <4>1, PrefixLonger DEF Path
      <4>. QED BY <4>2
    <3>4. Len(p) \in 1..Len(d)
      BY <3>2, <3>3
    <3>5. p \in {SubSeq(d, 1, n) : n \in 1..Len(d)}
      BY <3>2, <3>4, Zenon
    <3>. DEFINE Cuts(e) == {SubSeq(e, 1, n) : n \in 1..Len(e)}
    <3>7. p \in Cuts(d)
      BY <3>5
    <3>. HIDE DEF Cuts
    <3>8. p \in UNION {Cuts(e) : e \in Dirs}
      BY <1>4, <3>7
    <3>6. p \in UNION {{SubSeq(e, 1, n) : n \in 1..Len(e)} : e \in Dirs}
      BY <3>8 DEF Cuts
    <3>. QED BY <1>4, <3>1, <3>6, Zenon DEF OnTheWay
  <2>. QED BY <2>1, <2>2
<1>5. \A p : p \in OnTheWay <=>
                p \in Path /\ IsPrefix(Package, p) /\ \E d \in Dirs : Below(p, d)
  BY <1>3, <1>4
<1>6. ASSUME NEW p \in MadeHere
      PROVE  p \in Path /\ IsPrefix(Package, p) /\ \E d \in Dirs : IsPrefix(p, d)
  <2>1. CASE p \in OnTheWay
    BY <1>5, <2>1 DEF Below, IsStrictPrefix
  <2>2. CASE p \in Dirs
    BY <1>2, <2>2, FurtherOn DEF Below, IsStrictPrefix
  <2>. QED BY <2>1, <2>2 DEF MadeHere
<1>7. ASSUME NEW p \in Path, IsPrefix(Package, p), NEW d \in Dirs, IsPrefix(p, d)
      PROVE  p \in MadeHere
  <2>1. p = d \/ Below(p, d)
    BY <1>7 DEF Below, IsStrictPrefix
  <2>. QED BY <1>4, <1>7, <2>1 DEF MadeHere
<1>. QED BY <1>5, <1>6, <1>7

LEMMA CutsBetween ==
    ASSUME NEW d \in Path, NEW f \in Path, IsPrefix(d, f), NEW q
    PROVE  q \in {SubSeq(f, 1, n) : n \in Len(d)..Len(f)} <=>
               q \in Path /\ IsPrefix(d, q) /\ IsPrefix(q, f)
<1>1. Len(d) \in Nat /\ Len(f) \in Nat /\ Len(d) <= Len(f)
  BY PrefixLonger DEF Path
<1>2. ASSUME NEW n \in Len(d)..Len(f), q = SubSeq(f, 1, n)
      PROVE  q \in Path /\ IsPrefix(d, q) /\ IsPrefix(q, f)
  <2>1. n \in 0..Len(f)
    BY <1>1
  <2>2. q \in Path /\ IsPrefix(q, f) /\ Len(q) = n
    BY <1>2, <2>1, PrefixCut DEF Path
  <2>3. Len(d) <= Len(q)
    BY <1>1, <2>2
  <2>. QED BY <2>2, <2>3, PrefixesChain DEF Path
<1>3. ASSUME q \in Path, IsPrefix(d, q), IsPrefix(q, f)
      PROVE  \E n \in Len(d)..Len(f) : q = SubSeq(f, 1, n)
  <2>1. q = SubSeq(f, 1, Len(q)) /\ Len(q) \in 0..Len(f)
    BY <1>3, PrefixIsCut DEF Path
  <2>2. Len(d) <= Len(q) /\ Len(q) \in Nat
    BY <1>3, PrefixLonger DEF Path
  <2>3. Len(q) \in Len(d)..Len(f)
    BY <1>1, <2>1, <2>2
  <2>. QED BY <2>1, <2>3
<1>. QED BY <1>2, <1>3

(* The tree of a directory: the files below it and what is between. *)
LEMMA TreeIs ==
    ASSUME NEW d \in Path, runfiles \subseteq Path, NEW q
    PROVE  q \in TreeOf(d) <=>
               /\ q \in Path /\ IsPrefix(d, q)
               /\ \E f \in runfiles : Below(d, f) /\ IsPrefix(q, f)
<1>1. q \in TreeOf(d) <=>
         \E f \in runfiles : Below(d, f) /\ q \in {SubSeq(f, 1, n) : n \in Len(d)..Len(f)}
  BY Zenon DEF TreeOf
<1>2. \A f \in runfiles : Below(d, f) =>
         (q \in {SubSeq(f, 1, n) : n \in Len(d)..Len(f)} <=>
             q \in Path /\ IsPrefix(d, q) /\ IsPrefix(q, f))
  <2>. SUFFICES ASSUME NEW f \in runfiles, Below(d, f)
                PROVE  q \in {SubSeq(f, 1, n) : n \in Len(d)..Len(f)} <=>
                           q \in Path /\ IsPrefix(d, q) /\ IsPrefix(q, f)
    OBVIOUS
  <2>1. f \in Path /\ IsPrefix(d, f)
    BY DEF Below, IsStrictPrefix
  <2>. QED BY <2>1, CutsBetween
<1>. DEFINE Cuts(f) == q \in {SubSeq(f, 1, n) : n \in Len(d)..Len(f)}
<1>3. /\ q \in TreeOf(d) <=> \E f \in runfiles : Below(d, f) /\ Cuts(f)
      /\ \A f \in runfiles : Below(d, f) =>
            (Cuts(f) <=> q \in Path /\ IsPrefix(d, q) /\ IsPrefix(q, f))
  BY <1>1, <1>2
<1>. HIDE DEF Cuts
<1>. QED BY <1>3

(* The entries of a directory: what lies one name below it. *)
LEMMA EntriesAre ==
    ASSUME NEW w \in Path, runfiles \subseteq Path, NEW p
    PROVE  p \in Entries(w) <=>
               /\ p \in Path /\ IsPrefix(w, p) /\ Len(p) = Len(w) + 1
               /\ \E f \in runfiles : IsPrefix(p, f)
<1>1. ASSUME NEW f \in runfiles, Below(w, f), p = SubSeq(f, 1, Len(w) + 1)
      PROVE  p \in Path /\ IsPrefix(w, p) /\ Len(p) = Len(w) + 1 /\ IsPrefix(p, f)
  <2>1. f \in Path /\ IsPrefix(w, f) /\ w # f
    BY <1>1 DEF Below, IsStrictPrefix
  <2>2. Len(w) \in Nat /\ Len(f) \in Nat /\ Len(w) <= Len(f) /\ Len(w) # Len(f)
    BY <2>1, PrefixLonger DEF Path
  <2>3. Len(w) + 1 \in 0..Len(f)
    BY <2>2
  <2>4. p \in Path /\ Len(p) = Len(w) + 1 /\ IsPrefix(p, f)
    BY <1>1, <2>1, <2>3, PrefixCut DEF Path
  <2>5. Len(w) <= Len(p)
    BY <2>2, <2>4
  <2>6. IsPrefix(w, p)
    BY <2>1, <2>4, <2>5, PrefixesChain DEF Path
  <2>. QED BY <2>4, <2>6
<1>2. ASSUME p \in Path, IsPrefix(w, p), Len(p) = Len(w) + 1, NEW f \in runfiles, IsPrefix(p, f)
      PROVE  Below(w, f) /\ p = SubSeq(f, 1, Len(w) + 1)
  <2>1. f \in Path /\ Len(w) \in Nat /\ Len(p) # Len(w)
    BY <1>2, PrefixIs DEF Path
  <2>2. Below(w, p)
    BY <1>2, <2>1 DEF Below, IsStrictPrefix
  <2>3. Below(w, f)
    BY <1>2, <2>1, <2>2, FurtherOn
  <2>4. p = SubSeq(f, 1, Len(p))
    BY <1>2, <2>1, PrefixIsCut DEF Path
  <2>. QED BY <1>2, <2>3, <2>4
<1>3. p \in Entries(w) <=> \E f \in runfiles : Below(w, f) /\ p = SubSeq(f, 1, Len(w) + 1)
  BY Zenon DEF Entries
<1>. QED BY <1>1, <1>2, <1>3

\* cp -RL: what is made where nothing stands, and what inside the directory that stands.
LEMMA CopyHere ==
    ASSUME NEW d \in Path, runfiles \subseteq Path, NEW kind
    PROVE  /\ DOMAIN CopyOf(d, d, kind) = TreeOf(d)
           /\ \A q \in TreeOf(d) :
                 CopyOf(d, d, kind)[q] = IF q \in runfiles THEN [kind |-> kind, of |-> q] ELSE Dir
<1>1. \A q \in TreeOf(d) : d \o SubSeq(q, Len(d) + 1, Len(q)) = q
  BY TreeIs, PrefixAndRest DEF Path
<1>2. {d \o SubSeq(q, Len(d) + 1, Len(q)) : q \in TreeOf(d)} = TreeOf(d)
  BY <1>1
<1>3. CopyOf(d, d, kind) =
         [p \in TreeOf(d) |->
            IF d \o SubSeq(p, Len(d) + 1, Len(p)) \in runfiles
            THEN [kind |-> kind, of |-> d \o SubSeq(p, Len(d) + 1, Len(p))] ELSE Dir]
  BY <1>2 DEF CopyOf
<1>. QED BY <1>1, <1>3

(* A copy to a directory that is there goes into it. *)
LEMMA CopyInside ==
    ASSUME NEW d \in Path, runfiles \subseteq Path, NEW dest \in Path, NEW kind \in {"copy", "hard"}
    PROVE  /\ DOMAIN CopyOf(d, dest, kind) = DOMAIN CopyOf(d, dest, "copy")
           /\ \A p \in DOMAIN CopyOf(d, dest, kind) :
                 /\ p \in Path /\ IsPrefix(dest, p)
                 /\ IF CopyOf(d, dest, "copy")[p] = Dir
                    THEN CopyOf(d, dest, kind)[p] = Dir
                    ELSE CopyOf(d, dest, kind)[p].kind = kind
<1>. DEFINE Places == {dest \o SubSeq(q, Len(d) + 1, Len(q)) : q \in TreeOf(d)}
            At(p) == d \o SubSeq(p, Len(dest) + 1, Len(p))
<1>1. ASSUME NEW k
      PROVE  CopyOf(d, dest, k) = [p \in Places |-> IF At(p) \in runfiles
                                                    THEN [kind |-> k, of |-> At(p)] ELSE Dir]
  BY DEF CopyOf
<1>2. ASSUME NEW p \in Places PROVE p \in Path /\ IsPrefix(dest, p)
  <2>1. PICK q \in TreeOf(d) : p = dest \o SubSeq(q, Len(d) + 1, Len(q))
    BY DEF CopyOf
  <2>2. q \in Seq(PathNames) /\ IsPrefix(d, q) /\ d \in Seq(PathNames)
    BY <2>1, TreeIs DEF Path
  <2>3. SubSeq(q, Len(d) + 1, Len(q)) \in Seq(PathNames)
    BY <2>2
  <2>. QED BY <2>1, <2>3, PrefixOfJoined DEF Path
<1>. HIDE DEF Places, At
<1>3. \A p \in Places : [kind |-> "copy", of |-> At(p)] # Dir
  BY DEF Dir
<1>. QED BY <1>1, <1>2, <1>3

LEMMA AnalysedFiles ==
    ASSUME test \in Tests, Analysed
    PROVE  /\ runfiles \subseteq Declared /\ runfiles \subseteq Path
           /\ \A f \in Declared : (\E d \in Dirs : Below(d, f)) => f \in runfiles
           /\ \A d \in Dirs : \E f \in runfiles : Below(d, f)
           /\ \A f \in runfiles : f \in test.srcs \cup test.data \/ \E d \in Dirs : Below(d, f)
           /\ \A f \in Declared : ~\E d \in Dirs : IsPrefix(f, d)
<1>1. Declared \subseteq Path /\ \A f, g \in Declared : ~Below(f, g)
  BY PathFacts
<1>2. /\ runfiles \subseteq Declared
      /\ \A f \in Declared : (\E d \in Dirs : Below(d, f)) => f \in runfiles
      /\ \A f \in runfiles : f \in test.srcs \cup test.data \/ \E d \in Dirs : Below(d, f)
  BY DEF Analysed, Declared, Kept
<1>3. \A d \in Dirs : \E f \in Declared : Below(d, f)
  BY DEF Analysed, SomethingIn
<1>4. ASSUME NEW f \in Declared, NEW d \in Dirs, IsPrefix(f, d) PROVE FALSE
  <2>1. PICK g \in Declared : Below(d, g)
    BY <1>3
  <2>2. d \in Path
    BY DirsApart DEF Analysed
  <2>3. Below(f, g)
    BY <1>1, <1>4, <2>1, <2>2, FurtherOn
  <2>. QED BY <1>1, <2>1, <2>3
<1>. QED BY <1>1, <1>2, <1>3, <1>4

(* What the script makes before the first copy. *)
LEMMA NodesAre ==
    ASSUME test \in Tests, NoneNested, Dirs # {}, NEW ways \in SUBSET OnTheWay, NEW p
    PROVE  p \in WayNodes(ways) <=> p \in Path /\ \E w \in ways : IsPrefix(p, w)
<1>1. ways \subseteq Path
  BY WaysAre
<1>2. p \in WayNodes(ways) <=> \E w \in ways : p \in Prefixes(w)
  BY DEF WayNodes
<1>. QED BY <1>1, <1>2, PathsAbove

\* No directory that is materialized is above what the ways have.
LEMMA WaysApart ==
    ASSUME test \in Tests, Analysed, Dirs # {}
    PROVE  /\ \A p \in WayNodes(OnTheWay) : p \notin WayLinks(OnTheWay)
           /\ \A p \in WayNodes(OnTheWay) \cup WayLinks(OnTheWay) :
                 p \in Path /\ \A d \in Dirs : ~IsPrefix(d, p)
<1>. NoneNested
  BY DEF Analysed
<1>0. runfiles \subseteq Path
  BY AnalysedFiles
<1>1. \A w \in OnTheWay : w \in Path /\ IsPrefix(Package, w) /\ \E d \in Dirs : Below(w, d)
  BY WaysAre
<1>2. \A d \in Dirs : d \in Path /\ \A e \in Dirs : ~Below(d, e)
  BY DirsApart
<1>3. ASSUME NEW w \in OnTheWay, NEW d \in Dirs, IsPrefix(d, w) PROVE FALSE
  <2>1. PICK e \in Dirs : Below(w, e)
    BY <1>1
  <2>2. Below(d, e)
    BY <1>1, <1>2, <1>3, <2>1, FurtherOn
  <2>. QED BY <1>2, <2>2
<1>4. ASSUME NEW p \in WayNodes(OnTheWay)
      PROVE  p \in Path /\ \E w \in OnTheWay : IsPrefix(p, w)
  BY NodesAre
<1>5. ASSUME NEW p \in WayLinks(OnTheWay)
      PROVE  /\ p \notin MadeHere /\ p \in Path
             /\ \E w \in OnTheWay : IsPrefix(w, p) /\ Len(p) = Len(w) + 1
  <2>1. PICK w \in OnTheWay : p \in Entries(w) /\ p \notin MadeHere
    BY DEF WayLinks
  <2>2. p \in Path /\ IsPrefix(w, p) /\ Len(p) = Len(w) + 1
    BY <1>0, <1>1, <2>1, EntriesAre
  <2>. QED BY <2>1, <2>2
<1>6. ASSUME NEW p \in WayNodes(OnTheWay), p \in WayLinks(OnTheWay) PROVE FALSE
  <2>1. PICK w \in OnTheWay : IsPrefix(p, w)
    BY <1>4
  <2>2. PICK v \in OnTheWay : IsPrefix(v, p)
    BY <1>5, <1>6
  <2>3. PICK d \in Dirs : Below(w, d)
    BY <1>1
  <2>4. p \in Path /\ IsPrefix(p, d)
    BY <1>1, <1>2, <1>4, <2>1, <2>3, FurtherOn DEF Below, IsStrictPrefix
  <2>5. IsPrefix(Package, p)
    <3>1. Package \in Path /\ v \in Path /\ IsPrefix(Package, v)
      BY <1>1, PathFacts
    <3>. QED BY <2>2, <2>4, <3>1, FurtherOn
  <2>6. p \in MadeHere
    BY <2>4, <2>5, WaysAre
  <2>. QED BY <1>5, <1>6, <2>6
<1>7. ASSUME NEW p \in WayNodes(OnTheWay), NEW d \in Dirs, IsPrefix(d, p) PROVE FALSE
  <2>1. PICK w \in OnTheWay : IsPrefix(p, w)
    BY <1>4
  <2>2. IsPrefix(d, w)
    BY <1>1, <1>2, <1>4, <1>7, <2>1, FurtherOn
  <2>. QED BY <1>3, <2>2
<1>8. ASSUME NEW p \in WayLinks(OnTheWay), NEW d \in Dirs, IsPrefix(d, p) PROVE FALSE
  <2>1. PICK w \in OnTheWay : IsPrefix(w, p) /\ Len(p) = Len(w) + 1
    BY <1>5
  <2>2. p \in Path /\ w \in Path /\ d \in Path
    BY <1>1, <1>2, <1>5
  <2>3. Len(w) \in Nat /\ Len(d) \in Nat /\ Len(p) \in Nat /\ Len(d) <= Len(p)
    BY <1>8, <2>1, <2>2, PrefixIs DEF Path
  <2>4. d # p
    <3>1. d \in MadeHere
      BY DEF MadeHere
    <3>. QED BY <1>5, <3>1
  <2>5. Len(d) # Len(p)
    BY <1>8, <2>2, <2>4, PrefixLonger DEF Path
  <2>6. Len(d) <= Len(w)
    BY <2>1, <2>3, <2>5
  <2>7. IsPrefix(d, w)
    BY <1>8, <2>1, <2>2, <2>6, PrefixesChain DEF Path
  <2>. QED BY <1>3, <2>7
<1>. QED BY <1>4, <1>5, <1>6, <1>7, <1>8

LEMMA DirsDiffer ==
    ASSUME test \in Tests, NoneNested, NEW d \in Dirs, NEW e \in Dirs, NEW p \in Path,
           IsPrefix(d, p), IsPrefix(e, p)
    PROVE  d = e
<1>1. d \in Path /\ e \in Path
  BY DirsApart
<1>2. IsPrefix(d, e) \/ IsPrefix(e, d)
  BY <1>1, OnOnePath
<1>. QED BY <1>2, DirsApart

\* What stands below a directory to materialize was made by an earlier turn for it.
LEMMA MadeEarlier ==
    ASSUME test \in Tests, Analysed, Copying, NEW i \in DOMAIN test.dirs,
           NEW p \in DOMAIN mirror, IsPrefix(DirAt(i), p)
    PROVE  /\ \E j \in Done : DirAt(j) = DirAt(i)
           /\ DirAt(i) \in DOMAIN mirror
           /\ i \in toCopy => ~Once
<1>. NoneNested
  BY DEF Analysed
<1>1. DirAt(i) \in Dirs /\ Dirs # {} /\ \A j \in Done : j \in DOMAIN test.dirs /\ DirAt(j) \in Dirs
  BY PathFacts DEF Done
<1>2. p \in Path
  BY DEF Copying
<1>3. p \notin WayNodes(OnTheWay) \cup WayLinks(OnTheWay)
  BY <1>1, WaysApart
<1>4. PICK j \in Done : IsPrefix(DirAt(j), p)
  BY <1>3 DEF Copying
<1>5. DirAt(j) = DirAt(i)
  BY <1>1, <1>2, <1>4, DirsDiffer
<1>6. DirAt(i) \in DOMAIN mirror
  <2>1. Real(DirAt(i))
    BY <1>5 DEF Copying
  <2>2. DirAt(i) \in Path /\ runfiles \subseteq Path
    BY PathFacts, AnalysedFiles
  <2>3. PICK f \in runfiles : Below(DirAt(i), f)
    BY <1>1, AnalysedFiles
  <2>4. DirAt(i) \in TreeOf(DirAt(i))
    BY <2>2, <2>3, TreeIs, FurtherOn DEF Below, IsStrictPrefix
  <2>. QED BY <2>1, <2>4 DEF Real
<1>7. ASSUME i \in toCopy, Once PROVE FALSE
  <2>1. i = j
    BY <1>1, <1>5, <1>7, DirsApart
  <2>. QED BY <1>7, <2>1 DEF Done
<1>. QED BY <1>5, <1>6, <1>7

\* A turn after which d holds its tree and nothing else.
LEMMA CopiedWhole ==
    ASSUME test \in Tests, Analysed, Copying, NEW i \in DOMAIN test.dirs,
           NEW kind \in {"copy", "hard"}, UNCHANGED <<test, runfiles>>, toCopy' = toCopy \ {i},
           NEW d, d = DirAt(i),
           DOMAIN mirror' = TreeOf(d) \cup {q \in DOMAIN mirror : ~IsPrefix(d, q)},
           \A q \in TreeOf(d) : mirror'[q] = CopyOf(d, d, kind)[q],
           \A q \in DOMAIN mirror : ~IsPrefix(d, q) => mirror'[q] = mirror[q]
    PROVE  Copying'
<1>. NoneNested
  BY DEF Analysed
<1>1. /\ d \in Dirs /\ d \in Path /\ runfiles \subseteq Path /\ Dirs # {}
      /\ \A j \in DOMAIN test.dirs : DirAt(j) \in Dirs /\ DirAt(j) \in Path
  BY PathFacts, AnalysedFiles
<1>2. \A q \in TreeOf(d) : q \in Path /\ IsPrefix(d, q)
  BY <1>1, TreeIs
<1>3. \A q \in TreeOf(d) :
         IF q \in runfiles THEN mirror'[q] = [kind |-> kind, of |-> q] ELSE mirror'[q] = Dir
  BY <1>1, CopyHere, ZenonT(60)
<1>4. /\ WayNodes(OnTheWay)' = WayNodes(OnTheWay) /\ WayLinks(OnTheWay)' = WayLinks(OnTheWay)
      /\ \A e : TreeOf(e)' = TreeOf(e) /\ DirAt(e)' = DirAt(e)
      /\ runfiles' = runfiles /\ Once' = Once
  BY DEF WayNodes, WayLinks, OnTheWay, Dirs, Package, Entries, MadeHere, TreeOf, DirAt, Once
<1>5. \A p \in WayNodes(OnTheWay) \cup WayLinks(OnTheWay) : ~IsPrefix(d, p)
  BY <1>1, WaysApart
<1>6. WaysMade(OnTheWay)'
  <2>1. \A p \in WayNodes(OnTheWay) : p \in DOMAIN mirror' /\ mirror'[p] = Dir
    BY <1>5 DEF Copying, WaysMade
  <2>2. \A p \in WayLinks(OnTheWay) : p \in DOMAIN mirror' /\ mirror'[p] = Link(p)
    BY <1>5 DEF Copying, WaysMade
  <2>3. Dir' = Dir /\ \A p : Link(p)' = Link(p)
    BY DEF Dir, Link
  <2>. QED BY <1>4, <2>1, <2>2, <2>3 DEF WaysMade
<1>7. DOMAIN mirror' \subseteq Path /\ toCopy' \subseteq DOMAIN test.dirs
  BY <1>2 DEF Copying
<1>8. Done' = Done \cup {i}
  BY DEF Done, Copying
<1>9. ASSUME NEW p \in DOMAIN mirror'
      PROVE  \/ p \in WayNodes(OnTheWay) \cup WayLinks(OnTheWay)
             \/ \E j \in Done' : IsPrefix(DirAt(j), p)
  <2>1. CASE p \in TreeOf(d)
    BY <1>2, <1>8, <2>1
  <2>2. CASE p \in DOMAIN mirror
    BY <1>8, <2>2 DEF Copying
  <2>. QED BY <2>1, <2>2
<1>10. ASSUME NEW j \in Done', DirAt(j) = d
       PROVE  Real(DirAt(j))' /\ Alone(DirAt(j))'
  <2>0. DirAt(j)' = d
    BY <1>4, <1>10
  <2>1. \A q \in TreeOf(d) : /\ q \in DOMAIN mirror'
                             /\ IF q \in runfiles THEN mirror'[q].kind \in {"copy", "hard"}
                                ELSE mirror'[q] = Dir
    BY <1>3
  <2>2. \A q \in DOMAIN mirror' : IsPrefix(d, q) =>
           q \in TreeOf(d) /\ (q \in runfiles => mirror'[q].of = q)
    BY <1>3
  <2>3. Dir' = Dir
    BY DEF Dir
  <2>4. Real(DirAt(j))'
    BY <1>4, <2>0, <2>1, <2>3 DEF Real
  <2>5. Alone(DirAt(j))'
    BY <1>4, <2>0, <2>2 DEF Alone
  <2>. QED BY <2>4, <2>5
<1>11. ASSUME NEW j \in Done', DirAt(j) # d
       PROVE  Real(DirAt(j))' /\ (Once => Alone(DirAt(j))')
  <2>. DEFINE e == DirAt(j)
  <2>1. e \in Dirs /\ e \in Path /\ j \in Done
    BY <1>1, <1>8, <1>11 DEF Done, Copying
  <2>0. DirAt(j)' = e /\ Dir' = Dir
    BY <1>4 DEF Dir
  <2>2. \A q \in Path : IsPrefix(e, q) => ~IsPrefix(d, q)
    BY <1>1, <1>11, <2>1, DirsDiffer
  <2>3. \A q \in TreeOf(e) : q \in Path /\ IsPrefix(e, q)
    BY <1>1, <2>1, TreeIs
  <2>4. Real(e) /\ (Once => Alone(e))
    BY <2>1 DEF Copying
  <2>. HIDE DEF e
  <2>5. \A q \in TreeOf(e) : q \in DOMAIN mirror /\ q \in DOMAIN mirror' /\ mirror'[q] = mirror[q]
    BY <2>2, <2>3, <2>4 DEF Real
  <2>6. \A q \in DOMAIN mirror' : IsPrefix(e, q) => q \in DOMAIN mirror /\ mirror'[q] = mirror[q]
    BY <1>2, <1>7, <2>2
  <2>7. Real(DirAt(j))'
    BY <1>4, <2>0, <2>4, <2>5 DEF Real
  <2>8. Once => Alone(DirAt(j))'
    BY <1>4, <2>0, <2>4, <2>6 DEF Alone
  <2>. QED BY <2>7, <2>8
<1>12. \A j \in Done' : Real(DirAt(j))' /\ (Once => Alone(DirAt(j))')
  BY <1>10, <1>11
<1>. QED BY <1>4, <1>6, <1>7, <1>9, <1>12 DEF Copying

LEMMA MaterializeOK ==
    ASSUME test \in Tests, Analysed, Copying, NEW i \in toCopy, Materialize(i)
    PROVE  Copying'
<1>. NoneNested
  BY DEF Analysed
<1>. DEFINE d == DirAt(i)
            kind == KindOf(test.mode)
<1>1. /\ i \in DOMAIN test.dirs /\ UNCHANGED <<test, runfiles>> /\ toCopy' = toCopy \ {i}
      /\ CanCopy(mirror, d) /\ mirror' = Copied(mirror, d, kind)
  BY DEF Materialize, Copying, DirAt
<1>2. kind \in {"copy", "hard"}
  BY DEF KindOf
<1>3. /\ d \in Dirs /\ d \in Path /\ runfiles \subseteq Path /\ Dirs # {}
      /\ \A j \in DOMAIN test.dirs : DirAt(j) \in Dirs /\ DirAt(j) \in Path
  BY <1>1, PathFacts, AnalysedFiles
<1>. HIDE DEF kind
<1>4. CASE d \notin DOMAIN mirror
  <2>1. mirror' = Over(CopyOf(d, d, kind), mirror)
    BY <1>1, <1>4 DEF Copied, Target
  <2>2. DOMAIN CopyOf(d, d, kind) = TreeOf(d)
    BY <1>3, CopyHere
  <2>3. \A q \in DOMAIN mirror : ~IsPrefix(d, q)
    BY <1>1, <1>4, MadeEarlier
  <2>4. \A q \in TreeOf(d) : IsPrefix(d, q)
    BY <1>3, TreeIs
  <2>5. /\ DOMAIN mirror' = TreeOf(d) \cup DOMAIN mirror
        /\ \A q \in TreeOf(d) : mirror'[q] = CopyOf(d, d, kind)[q]
        /\ \A q \in DOMAIN mirror : q \notin TreeOf(d) => mirror'[q] = mirror[q]
    BY <2>1, <2>2 DEF Over
  <2>6. DOMAIN mirror' = TreeOf(d) \cup {q \in DOMAIN mirror : ~IsPrefix(d, q)}
    BY <2>3, <2>5
  <2>7. \A q \in DOMAIN mirror : ~IsPrefix(d, q) => mirror'[q] = mirror[q]
    BY <2>4, <2>5
  <2>. QED BY <1>1, <1>2, <2>5, <2>6, <2>7, CopiedWhole
<1>5. CASE d \in DOMAIN mirror
  <2>. DEFINE dest == Append(d, Last(d))
              tree == CopyOf(d, dest, kind)
  <2>1. ~Once /\ mirror' = Over(tree, mirror)
    <3>1. IsPrefix(d, d)
      BY <1>3, FurtherOn
    <3>. QED BY <1>1, <1>5, <3>1, MadeEarlier DEF Copied, Target
  <2>2. dest \in Path /\ IsPrefix(d, dest)
    <3>1. Package \in Path /\ Below(Package, d)
      BY <1>3, PathFacts, DirsApart
    <3>2. d # <<>>
      BY <1>3, <3>1, PrefixOfFront DEF Path, Below, IsStrictPrefix
    <3>3. Last(d) \in PathNames
      BY <1>3, <3>2, FrontIs DEF Path
    <3>. QED BY <1>3, <3>3, PrefixOfAppended DEF Path
  <2>3. \A p \in DOMAIN tree :
           /\ p \in Path /\ IsPrefix(dest, p) /\ p \in DOMAIN CopyOf(d, dest, "copy")
           /\ IF CopyOf(d, dest, "copy")[p] = Dir THEN tree[p] = Dir ELSE tree[p].kind = kind
    BY <1>2, <1>3, <2>2, CopyInside
  <2>4. \A p \in DOMAIN tree \cap DOMAIN mirror : (CopyOf(d, dest, "copy")[p] = Dir) = (mirror[p] = Dir)
    BY <1>1, <1>5, <2>3 DEF CanCopy, Target
  <2>5. \A p \in DOMAIN tree : p \in Path /\ IsPrefix(d, p)
    BY <1>3, <2>2, <2>3, FurtherOn
  <2>6. \A p \in DOMAIN tree \cap DOMAIN mirror :
           IF mirror[p] = Dir THEN tree[p] = Dir ELSE tree[p].kind = kind
    BY <2>3, <2>4
  <2>. HIDE DEF tree
  <2>7. /\ DOMAIN mirror' = DOMAIN tree \cup DOMAIN mirror
        /\ \A p \in DOMAIN tree : mirror'[p] = tree[p]
        /\ \A p \in DOMAIN mirror : p \notin DOMAIN tree => mirror'[p] = mirror[p]
    BY <2>1 DEF Over
  <2>8. /\ WayNodes(OnTheWay)' = WayNodes(OnTheWay) /\ WayLinks(OnTheWay)' = WayLinks(OnTheWay)
        /\ \A e : TreeOf(e)' = TreeOf(e) /\ DirAt(e)' = DirAt(e)
        /\ runfiles' = runfiles /\ Once' = Once
    BY <1>1 DEF WayNodes, WayLinks, OnTheWay, Dirs, Package, Entries, MadeHere, TreeOf, DirAt, Once
  <2>9. WaysMade(OnTheWay)'
    <3>1. \A p \in WayNodes(OnTheWay) \cup WayLinks(OnTheWay) : p \notin DOMAIN tree
      BY <1>3, <2>5, WaysApart
    <3>2. Dir' = Dir /\ \A p : Link(p)' = Link(p)
      BY DEF Dir, Link
    <3>. QED BY <2>7, <2>8, <3>1, <3>2 DEF Copying, WaysMade
  <2>10. Done' = Done \cup {i} /\ toCopy' \subseteq DOMAIN test.dirs
    BY <1>1 DEF Done, Copying
  <2>11. DOMAIN mirror' \subseteq Path
    BY <2>5, <2>7 DEF Copying
  <2>12. \A p \in DOMAIN mirror' : \/ p \in WayNodes(OnTheWay) \cup WayLinks(OnTheWay)
                                  \/ \E j \in Done' : IsPrefix(DirAt(j), p)
    BY <2>5, <2>7, <2>10 DEF Copying
  <2>13. ASSUME NEW j \in Done' PROVE Real(DirAt(j))'
    <3>. DEFINE e == DirAt(j)
    <3>1. e \in Dirs /\ e \in Path
      BY <1>1, <1>3, <2>10 DEF Done
    <3>2. Real(e)
      <4>1. CASE e = d
        <5>1. IsPrefix(d, d)
          BY <1>3, FurtherOn
        <5>2. \E l \in Done : DirAt(l) = d
          BY <1>1, <1>5, <5>1, MadeEarlier
        <5>. QED BY <4>1, <5>2 DEF Copying
      <4>2. CASE e # d
        BY <2>10, <4>2 DEF Copying
      <4>. QED BY <4>1, <4>2
    <3>3. DirAt(j)' = e /\ Dir' = Dir
      BY <2>8 DEF Dir
    <3>. HIDE DEF e
    <3>4. ASSUME NEW q \in TreeOf(e)
          PROVE  /\ q \in DOMAIN mirror'
                 /\ IF q \in runfiles THEN mirror'[q].kind \in {"copy", "hard"} ELSE mirror'[q] = Dir
      <4>1. /\ q \in DOMAIN mirror
            /\ IF q \in runfiles THEN mirror[q].kind \in {"copy", "hard"} ELSE mirror[q] = Dir
        BY <3>2 DEF Real
      <4>2. q \in runfiles => mirror[q] # Dir
        BY <4>1 DEF Dir
      <4>3. CASE q \in DOMAIN tree
        BY <1>2, <2>6, <2>7, <4>1, <4>2, <4>3
      <4>4. CASE q \notin DOMAIN tree
        BY <2>7, <4>1, <4>4
      <4>. QED BY <4>3, <4>4
    <3>. QED BY <2>8, <3>3, <3>4 DEF Real
  <2>. QED BY <2>1, <2>8, <2>9, <2>10, <2>11, <2>12, <2>13, <1>1 DEF Copying
<1>. QED BY <1>4, <1>5

LEMMA MaterializeAgainOK ==
    ASSUME test \in Tests, Analysed, Copying, NEW i \in toCopy, MaterializeAgain(i)
    PROVE  Copying'
<1>. DEFINE d == DirAt(i)
<1>1. /\ i \in DOMAIN test.dirs /\ UNCHANGED <<test, runfiles>> /\ toCopy' = toCopy \ {i}
      /\ mirror' = Copied(Without(d), d, "copy")
  BY DEF MaterializeAgain, Copying, DirAt
<1>2. d \in Path /\ runfiles \subseteq Path /\ IsPrefix(d, d)
  BY <1>1, PathFacts, AnalysedFiles, FurtherOn
<1>3. /\ DOMAIN Without(d) = {q \in DOMAIN mirror : ~IsPrefix(d, q)}
      /\ \A q \in DOMAIN Without(d) : Without(d)[q] = mirror[q]
  BY DEF Without
<1>4. mirror' = Over(CopyOf(d, d, "copy"), Without(d))
  BY <1>1, <1>2, <1>3 DEF Copied, Target
<1>5. DOMAIN CopyOf(d, d, "copy") = TreeOf(d)
  BY <1>2, CopyHere
<1>6. \A q \in TreeOf(d) : IsPrefix(d, q)
  BY <1>2, TreeIs
<1>. DEFINE left == Without(d)
            tree == CopyOf(d, d, "copy")
<1>7. /\ DOMAIN mirror' = DOMAIN tree \cup DOMAIN left
      /\ \A q \in DOMAIN tree : mirror'[q] = tree[q]
      /\ \A q \in DOMAIN left : q \notin DOMAIN tree => mirror'[q] = left[q]
  <2>1. mirror' = Over(tree, left)
    BY <1>4
  <2>. HIDE DEF tree, left
  <2>. QED BY <2>1 DEF Over
<1>8. /\ DOMAIN mirror' = TreeOf(d) \cup {q \in DOMAIN mirror : ~IsPrefix(d, q)}
      /\ \A q \in TreeOf(d) : mirror'[q] = CopyOf(d, d, "copy")[q]
      /\ \A q \in DOMAIN mirror : ~IsPrefix(d, q) => mirror'[q] = mirror[q]
  BY <1>3, <1>5, <1>6, <1>7
<1>. QED BY <1>1, <1>8, CopiedWhole

LEMMA CopyFailsOK ==
    ASSUME test \in Tests, Analysed, Copying, NEW i \in toCopy, CopyFails(i)
    PROVE  ~Once
<1>. SUFFICES ASSUME Once PROVE FALSE
  OBVIOUS
<1>. DEFINE d == DirAt(i)
<1>1. i \in DOMAIN test.dirs /\ ~CanCopy(mirror, d)
  BY DEF CopyFails, Copying, DirAt
<1>2. d \in Path /\ runfiles \subseteq Path /\ IsPrefix(d, d)
  BY <1>1, PathFacts, AnalysedFiles, FurtherOn
<1>3. \A q \in DOMAIN mirror : ~IsPrefix(d, q)
  BY <1>1, MadeEarlier
<1>4. Target(mirror, d) = d
  BY <1>2, <1>3 DEF Target
<1>5. \A q \in DOMAIN CopyOf(d, d, "copy") : IsPrefix(d, q)
  BY <1>2, CopyHere, TreeIs
<1>. QED BY <1>1, <1>3, <1>4, <1>5 DEF CanCopy

\* _find_config: what is found in a directory, and how the search gets to the next.
LEMMA InDirectory ==
    ASSUME test \in Tests, NEW d \in Path, Append(d, ConfigName) \in Known
    PROVE  /\ Front(Append(d, ConfigName)) = d /\ Last(Append(d, ConfigName)) = ConfigName
           /\ Append(d, ConfigName) # <<>> /\ Len(Append(d, ConfigName)) = Len(d) + 1
           /\ Len(d) \in Nat
<1>. DEFINE S == PathNames \cup {ConfigName}
            c == Append(d, ConfigName)
<1>1. d \in Seq(S) /\ ConfigName \in S
  BY DEF Path
<1>. HIDE DEF S
<1>2. /\ c \in Seq(S) /\ Len(c) = Len(d) + 1 /\ c[Len(d) + 1] = ConfigName /\ Len(d) \in Nat
      /\ \A i \in 1..Len(d) : c[i] = d[i]
  BY <1>1
<1>. HIDE DEF c
<1>3. c # <<>>
  <2>1. Len(c) # 0
    BY <1>2
  <2>. QED BY <2>1
<1>4. Last(c) = ConfigName
  BY <1>2 DEF Last
<1>5. Front(c) \in Seq(S) /\ Len(Front(c)) = Len(c) - 1 /\ IsPrefix(Front(c), c)
  BY <1>2, <1>3, FrontIs
<1>6. Len(Front(c)) = Len(d)
  BY <1>2, <1>5
<1>7. \A i \in 1..Len(d) : Front(c)[i] = d[i]
  <2>1. \A i \in 1..Len(Front(c)) : Front(c)[i] = c[i]
    BY <1>2, <1>5, PrefixIs
  <2>. QED BY <1>2, <1>6, <2>1
<1>8. Front(c) = d
  BY <1>1, <1>5, <1>6, <1>7, SameList
<1>. QED BY <1>2, <1>3, <1>4, <1>8 DEF c

(* The nearest config, said of the package's paths. *)
LEMMA NearIs ==
    ASSUME test \in Tests, NEW c \in Near
    PROVE  /\ Front(c) \in Path /\ Len(c) = Len(Front(c)) + 1 /\ Len(Front(c)) \in Nat
           /\ c = Append(Front(c), ConfigName)
           /\ IsPrefix(Front(c), DirectoryOf(test.test)) /\ IsPrefix(Package, Front(c))
<1>1. /\ c \in Path /\ c # <<>> /\ Last(c) = ConfigName
      /\ IsPrefix(Front(c), DirectoryOf(test.test)) /\ IsPrefix(Package, Front(c))
  BY PathFacts DEF Near
<1>2. /\ Front(c) \in Path /\ Len(Front(c)) = Len(c) - 1 /\ Len(c) \in Nat /\ Len(c) > 0
      /\ c = Append(Front(c), Last(c))
  BY <1>1, FrontIs DEF Path
<1>. QED BY <1>1, <1>2

LEMMA TestDirectory ==
    ASSUME test \in Tests
    PROVE  /\ DirectoryOf(test.test) \in Path
           /\ ~Outside => IsPrefix(Package, DirectoryOf(test.test))
<1>1. test.test \in Path /\ Package \in Path
  BY PathFacts
<1>2. CASE test.test = <<>>
  <2>1. DirectoryOf(test.test) = test.test
    BY <1>2 DEF DirectoryOf
  <2>2. ~Outside => Package = <<>>
    <3>1. ~Below(Package, test.test)
      BY <1>1, <1>2, PrefixOfFront DEF Path, Below, IsStrictPrefix
    <3>. QED BY <3>1 DEF Outside
  <2>. QED BY <1>1, <1>2, <2>1, <2>2, FurtherOn
<1>3. CASE test.test # <<>>
  <2>1. DirectoryOf(test.test) = Front(test.test) /\ Front(test.test) \in Path
    BY <1>1, <1>3, FrontIs DEF DirectoryOf, Path
  <2>2. Package = <<>> => IsPrefix(Package, Front(test.test))
    <3>1. Front(test.test) \in Seq(PathNames) /\ <<>> \in Seq(PathNames)
      BY <2>1 DEF Path
    <3>2. Len(<<>>) = 0
      OBVIOUS
    <3>3. IsPrefix(<<>>, Front(test.test))
      BY <3>1, <3>2, PrefixNone
    <3>. QED BY <3>3
  <2>3. Below(Package, test.test) => IsPrefix(Package, Front(test.test))
    BY <1>1, PrefixOfFront DEF Path, Below, IsStrictPrefix
  <2>. QED BY <2>1, <2>2, <2>3 DEF Outside
<1>. QED BY <1>2, <1>3

\* A config that is no nearer than the directory is in it.
LEMMA NearHere ==
    ASSUME test \in Tests, NEW d \in Path, IsPrefix(d, DirectoryOf(test.test)), NEW c \in Near,
           Len(c) = Len(d) + 1
    PROVE  c = Append(d, ConfigName) /\ c \in Known
<1>1. /\ Front(c) \in Path /\ Len(c) = Len(Front(c)) + 1 /\ Len(Front(c)) \in Nat
      /\ c = Append(Front(c), ConfigName) /\ IsPrefix(Front(c), DirectoryOf(test.test))
  BY NearIs
<1>2. Len(d) \in Nat
  BY PrefixIs DEF Path
<1>3. Len(Front(c)) = Len(d)
  BY <1>1, <1>2
<1>4. Front(c) = d
  BY <1>1, <1>3, TestDirectory, PrefixesChain DEF Path
<1>. QED BY <1>1, <1>4 DEF Near

LEMMA FindConfigLooks ==
    ASSUME test \in Tests, Looking, FindConfig
    PROVE  Looking'
<1>1. /\ stage = "config" /\ ~Outside /\ UNCHANGED test /\ config = Nowhere
      /\ dir \in Path /\ IsPrefix(dir, DirectoryOf(test.test)) /\ IsPrefix(Package, dir)
      /\ \A c \in Near : Len(c) <= Len(dir) + 1
  BY DEF FindConfig, Looking
<1>2. /\ Near' = Near /\ Outside' = Outside /\ Package' = Package
      /\ DirectoryOf(test.test)' = DirectoryOf(test.test)
  BY <1>1 DEF Near, Known, Package, Outside, DirectoryOf
<1>3. Package \in Path /\ Len(Package) \in Nat /\ Len(dir) \in Nat /\ Len(Package) <= Len(dir)
  <2>1. Package \in Path
    BY PathFacts
  <2>. QED BY <1>1, <2>1, PrefixLonger DEF Path
<1>4. NearestConfig' = (stage' \notin {"macro", "config", "refused"} =>
                           IF Near = {} THEN config' = Nowhere
                           ELSE config' \in Near /\ \A c \in Near : Len(c) <= Len(config'))
  BY <1>1, <1>2 DEF NearestConfig, Near, Known, Package, DirectoryOf
<1>5. CASE Append(dir, ConfigName) \in Known
  <2>1. config' = Append(dir, ConfigName) /\ stage' = "analysis"
    BY <1>5 DEF FindConfig
  <2>2. /\ Front(config') = dir /\ Last(config') = ConfigName /\ config' # <<>>
        /\ Len(config') = Len(dir) + 1
    BY <1>1, <1>5, <2>1, InDirectory
  <2>3. config' \in Near
    BY <1>1, <1>5, <2>1, <2>2 DEF Near
  <2>. QED BY <1>1, <1>4, <2>1, <2>2, <2>3 DEF Looking
<1>6. CASE Append(dir, ConfigName) \notin Known
  <2>1. /\ stage' = IF dir = Package THEN "analysis" ELSE "config"
        /\ dir' = IF dir = Package THEN dir ELSE DirectoryOf(dir)
        /\ config' = config
    BY <1>6 DEF FindConfig
  <2>2. \A c \in Near : Len(c) # Len(dir) + 1
    BY <1>1, <1>6, NearHere
  <2>3. CASE dir = Package
    <3>1. ASSUME NEW c \in Near PROVE FALSE
      <4>1. Front(c) \in Path /\ Len(c) = Len(Front(c)) + 1 /\ IsPrefix(Package, Front(c))
        BY NearIs
      <4>2. Len(Package) <= Len(Front(c)) /\ Len(Front(c)) \in Nat
        BY <1>3, <4>1, PrefixLonger DEF Path
      <4>3. Len(c) <= Len(dir) + 1 /\ Len(c) # Len(dir) + 1
        BY <1>1, <2>2
      <4>. QED BY <1>3, <2>3, <4>1, <4>2, <4>3
    <3>. QED BY <1>1, <1>4, <2>1, <2>3, <3>1 DEF Looking
  <2>4. CASE dir # Package
    <3>1. dir # <<>> /\ IsPrefix(Package, Front(dir))
      BY <1>1, <1>3, <2>4, PrefixOfFront DEF Path
    <3>2. /\ dir' = Front(dir) /\ Front(dir) \in Path /\ Len(Front(dir)) = Len(dir) - 1
          /\ IsPrefix(Front(dir), dir)
      BY <1>1, <2>1, <2>4, <3>1, FrontIs DEF DirectoryOf, Path
    <3>3. IsPrefix(Front(dir), DirectoryOf(test.test))
      BY <1>1, <3>2, TestDirectory, FurtherOn
    <3>4. ASSUME NEW c \in Near PROVE Len(c) <= Len(dir') + 1
      <4>1. Len(c) <= Len(dir) + 1 /\ Len(c) # Len(dir) + 1
        BY <1>1, <2>2
      <4>2. Len(c) \in Nat
        BY NearIs
      <4>. QED BY <1>3, <3>2, <4>1, <4>2
    <3>. QED BY <1>1, <1>2, <1>4, <2>1, <2>4, <3>1, <3>2, <3>3, <3>4 DEF Looking
  <2>. QED BY <2>3, <2>4
<1>. QED BY <1>5, <1>6

LEMMA LookingKept ==
    ASSUME Looking, UNCHANGED <<test, dir, config>>,
           stage' \in {"macro", "config"} => stage \in {"macro", "config"},
           stage' \notin {"macro", "config", "refused"} => stage \notin {"macro", "config", "refused"}
    PROVE  Looking'
BY DEF Looking, NearestConfig, Near, Known, Package, Outside, DirectoryOf

LEMMA LinkEntriesOK ==
    ASSUME LauncherInv, NEW d \in toLink, LinkEntries(d)
    PROVE  LauncherInv'
<1>. DEFINE ways == OnTheWay \ toLink
            now == OnTheWay \ (toLink \ {d})
            links == Entries(d) \ MadeHere
<1>1. /\ test \in Tests /\ stage = "mirror" /\ Looking /\ Analysed /\ Dirs # {}
      /\ toCopy = DOMAIN test.dirs /\ toLink \subseteq OnTheWay /\ WaysMade(ways)
      /\ DOMAIN mirror = WayNodes(ways) \cup WayLinks(ways)
  BY DEF LinkEntries, LauncherInv
<1>2. /\ toLink' = toLink \ {d} /\ UNCHANGED <<test, dir, config, runfiles, toCopy>>
      /\ mirror' = Over(mirror, Over([p \in links |-> Link(p)], Made(d)))
      /\ stage' \in {"mirror", "materialize"} /\ (stage' = "materialize" => toLink' = {})
  BY DEF LinkEntries
<1>3. now = ways \cup {d} /\ d \in OnTheWay
  BY <1>1, <1>2
<1>4. /\ OnTheWay' = OnTheWay /\ Dir' = Dir /\ Dirs' = Dirs /\ Analysed'
      /\ WayNodes(OnTheWay \ toLink)' = WayNodes(now) /\ WayNodes(OnTheWay)' = WayNodes(OnTheWay)
      /\ WayLinks(OnTheWay \ toLink)' = WayLinks(now) /\ WayLinks(OnTheWay)' = WayLinks(OnTheWay)
  <2>1. Analysed' = Analysed
    BY <1>2 DEF Analysed, NoneNested, IsBelowPackage, Dirs, Package, SomethingIn, Declared, Kept
  <2>2. /\ OnTheWay' = OnTheWay /\ Dir' = Dir /\ Dirs' = Dirs /\ MadeHere' = MadeHere
        /\ \A w : Entries(w)' = Entries(w)
    BY <1>2 DEF OnTheWay, Dirs, Package, Entries, MadeHere, Dir
  <2>3. (OnTheWay \ toLink)' = now
    BY <1>2, <2>2
  <2>. QED BY <1>1, <2>1, <2>2, <2>3 DEF WayNodes, WayLinks
<1>5. /\ WayNodes(now) = WayNodes(ways) \cup Prefixes(d)
      /\ WayLinks(now) = WayLinks(ways) \cup links
  BY <1>3 DEF WayNodes, WayLinks
<1>6. DOMAIN Made(d) = Prefixes(d) /\ \A p \in Prefixes(d) : Made(d)[p] = Dir
  BY DEF Made, Prefixes
<1>7. /\ WayNodes(now) \subseteq WayNodes(OnTheWay) /\ WayLinks(now) \subseteq WayLinks(OnTheWay)
      /\ \A p \in WayNodes(OnTheWay) : p \notin WayLinks(OnTheWay)
  <2>1. now \subseteq OnTheWay
    OBVIOUS
  <2>. QED BY <1>1, <2>1, WaysApart DEF WayNodes, WayLinks
<1>. DEFINE linked == [p \in links |-> Link(p)]
            made == Made(d)
<1>8. DOMAIN linked = links /\ \A p \in links : linked[p] = Link(p)
  OBVIOUS
<1>. HIDE DEF ways, now, links, linked, made
<1>9. /\ DOMAIN mirror' = DOMAIN mirror \cup links \cup Prefixes(d)
      /\ \A p \in DOMAIN mirror : mirror'[p] = mirror[p]
      /\ \A p \in links : p \notin DOMAIN mirror => mirror'[p] = Link(p)
      /\ \A p \in Prefixes(d) : p \notin DOMAIN mirror /\ p \notin links => mirror'[p] = Dir
  <2>1. mirror' = Over(mirror, Over(linked, made)) /\ DOMAIN made = Prefixes(d)
        /\ \A p \in Prefixes(d) : made[p] = Dir
    BY <1>2, <1>6 DEF linked, links, made
  <2>2. /\ DOMAIN Over(linked, made) = links \cup Prefixes(d)
        /\ \A p \in links : Over(linked, made)[p] = Link(p)
        /\ \A p \in Prefixes(d) : p \notin links => Over(linked, made)[p] = Dir
    BY <1>8, <2>1 DEF Over
  <2>. DEFINE new == Over(linked, made)
  <2>. HIDE DEF new
  <2>3. mirror' = Over(mirror, new) /\ DOMAIN new = links \cup Prefixes(d)
    BY <2>1, <2>2 DEF new
  <2>4. /\ DOMAIN mirror' = DOMAIN mirror \cup DOMAIN new
        /\ \A p \in DOMAIN mirror : mirror'[p] = mirror[p]
        /\ \A p \in DOMAIN new : p \notin DOMAIN mirror => mirror'[p] = new[p]
    BY <2>3 DEF Over
  <2>. QED BY <2>2, <2>3, <2>4 DEF new
<1>10. \A p \in WayNodes(now) : p \in DOMAIN mirror' /\ mirror'[p] = Dir
  BY <1>1, <1>5, <1>7, <1>9 DEF WaysMade
<1>11. \A p \in WayLinks(now) : p \in DOMAIN mirror' /\ mirror'[p] = Link(p)
  BY <1>1, <1>5, <1>7, <1>9 DEF WaysMade
<1>12. DOMAIN mirror' = WayNodes(now) \cup WayLinks(now)
  BY <1>1, <1>5, <1>9
<1>13. now = OnTheWay \ toLink'
  BY <1>2 DEF now
<1>14. WaysMade(OnTheWay \ toLink)' /\ DOMAIN mirror' = (WayNodes(OnTheWay \ toLink) \cup WayLinks(OnTheWay \ toLink))'
  BY <1>4, <1>10, <1>11, <1>12 DEF WaysMade, Link
<1>15. ASSUME toLink' = {} PROVE Copying'
  <2>1. now = OnTheWay /\ Done' = {}
    BY <1>1, <1>2, <1>13, <1>15 DEF Done
  <2>2. WaysMade(OnTheWay)'
    BY <1>4, <1>10, <1>11, <2>1 DEF WaysMade, Link
  <2>3. DOMAIN mirror' \subseteq Path
    BY <1>1, <1>12, <2>1, WaysApart
  <2>. QED BY <1>1, <1>2, <1>4, <1>12, <2>1, <2>2, <2>3 DEF Copying
<1>16. Looking'
  BY <1>1, <1>2, LookingKept
<1>17. toLink' \subseteq OnTheWay /\ toCopy' = DOMAIN (test').dirs /\ test' \in Tests
  BY <1>1, <1>2
<1>. QED BY <1>1, <1>2, <1>4, <1>14, <1>15, <1>16, <1>17 DEF LauncherInv, Mirrored

LEMMA CopyingKept ==
    ASSUME Copying, UNCHANGED <<test, runfiles, toCopy, mirror>>
    PROVE  Copying'
<1>1. /\ OnTheWay' = OnTheWay /\ MadeHere' = MadeHere /\ Done' = Done /\ Once' = Once
      /\ \A x : /\ Entries(x)' = Entries(x) /\ TreeOf(x)' = TreeOf(x)
                /\ DirAt(x)' = DirAt(x) /\ Link(x)' = Link(x)
      /\ Dir' = Dir
  BY DEF OnTheWay, Dirs, Package, Entries, MadeHere, TreeOf, DirAt, Once, Done, Dir, Link
<1>2. /\ WayNodes(OnTheWay)' = WayNodes(OnTheWay)
      /\ WayLinks(OnTheWay)' = WayLinks(OnTheWay)
  BY <1>1 DEF WayNodes, WayLinks
<1>3. WaysMade(OnTheWay)'
  BY <1>1, <1>2 DEF Copying, WaysMade
<1>4. \A j \in Done : Real(DirAt(j))' /\ (Once => Alone(DirAt(j))')
  BY <1>1 DEF Copying, Real, Alone
<1>. QED BY <1>1, <1>2, <1>3, <1>4 DEF Copying

LEMMA AnalysedKept ==
    ASSUME UNCHANGED <<test, runfiles>>
    PROVE  /\ Analysed' = Analysed /\ NoneNested' = NoneNested /\ Dirs' = Dirs /\ Once' = Once
           /\ Outside' = Outside
BY DEF Analysed, NoneNested, IsBelowPackage, Dirs, Package, SomethingIn, Declared, Kept, Once,
       Outside

LEMMA StaysAnalysed ==
    ASSUME LauncherInv, UNCHANGED <<test, dir, config, runfiles, toLink, toCopy, mirror>>,
           \/ stage' = stage
           \/ stage = "macro" /\ stage' = "config" /\ NoneNested
           \/ stage' = "refused"
           \/ stage = "materialize" /\ stage' = "runs" /\ toCopy = {}
           \/ stage' = "failed" /\ ~Once /\ stage = "materialize"
    PROVE  LauncherInv'
<1>1. Analysed' = Analysed /\ NoneNested' = NoneNested /\ Dirs' = Dirs /\ Once' = Once
  BY AnalysedKept
<1>2. Copying => Copying'
  BY CopyingKept
<1>3. Looking'
  BY LookingKept DEF LauncherInv
<1>5. /\ WayNodes(OnTheWay \ toLink)' = WayNodes(OnTheWay \ toLink)
      /\ WayLinks(OnTheWay \ toLink)' = WayLinks(OnTheWay \ toLink)
      /\ OnTheWay' = OnTheWay
  BY DEF WayNodes, WayLinks, OnTheWay, Dirs, Package, Entries, MadeHere
<1>4. WaysMade(OnTheWay \ toLink) => WaysMade(OnTheWay \ toLink)'
  BY <1>5 DEF WaysMade, Dir, Link
<1>. QED BY <1>1, <1>2, <1>3, <1>4, <1>5 DEF LauncherInv, Mirrored

LEMMA FindConfigOK == ASSUME LauncherInv, FindConfig PROVE LauncherInv'
<1>1. /\ stage = "config" /\ stage' \in {"config", "analysis"}
      /\ UNCHANGED <<test, runfiles, toLink, toCopy, mirror>>
  BY DEF FindConfig
<1>2. Looking'
  BY FindConfigLooks DEF LauncherInv
<1>3. NoneNested' = NoneNested
  BY <1>1, AnalysedKept
<1>. QED BY <1>1, <1>2, <1>3 DEF LauncherInv, Mirrored

LEMMA AnalyseOK == ASSUME LauncherInv, Analyse PROVE LauncherInv'
<1>1. /\ stage = "analysis" /\ \A d \in Dirs : SomethingIn(d)
      /\ runfiles' = test.srcs \cup test.data \cup Kept
      /\ toLink' = IF Dirs = {} THEN {} ELSE OnTheWay
      /\ toCopy' = DOMAIN test.dirs
      /\ stage' = IF Dirs = {} THEN "runs" ELSE "mirror"
      /\ UNCHANGED <<test, dir, config, mirror>>
  BY DEF Analyse
<1>2. NoneNested /\ DOMAIN mirror = {} /\ test \in Tests /\ Looking
  BY <1>1 DEF LauncherInv
<1>3. /\ Dirs' = Dirs /\ Kept' = Kept /\ NoneNested' = NoneNested /\ OnTheWay' = OnTheWay
      /\ \A d : SomethingIn(d)' = SomethingIn(d)
  BY <1>1 DEF Dirs, Package, Kept, NoneNested, IsBelowPackage, OnTheWay, SomethingIn, Declared
<1>4. Analysed'
  BY <1>1, <1>2, <1>3 DEF Analysed
<1>5. Looking'
  BY <1>1, <1>2, LookingKept
<1>6. CASE Dirs = {}
  BY <1>1, <1>2, <1>3, <1>4, <1>5, <1>6 DEF LauncherInv, Mirrored
<1>7. CASE Dirs # {}
  <2>1. toLink' = OnTheWay' /\ (OnTheWay \ toLink)' = {}
    BY <1>1, <1>3, <1>7
  <2>2. WayNodes(OnTheWay \ toLink)' = {} /\ WayLinks(OnTheWay \ toLink)' = {}
    BY <2>1 DEF WayNodes, WayLinks
  <2>3. WaysMade(OnTheWay \ toLink)'
    BY <2>2 DEF WaysMade
  <2>4. toCopy' = DOMAIN (test').dirs /\ test' \in Tests /\ stage' = "mirror" /\ DOMAIN mirror' = {}
    BY <1>1, <1>2, <1>7
  <2>. QED BY <1>3, <1>4, <1>5, <1>7, <2>1, <2>2, <2>3, <2>4 DEF LauncherInv, Mirrored
<1>. QED BY <1>6, <1>7

LEMMA TurnOK ==
    ASSUME LauncherInv, NEW i \in toCopy, Materialize(i) \/ MaterializeAgain(i)
    PROVE  LauncherInv'
<1>1. /\ stage = "materialize" /\ stage' = stage
      /\ UNCHANGED <<test, dir, config, runfiles, toLink>>
  BY DEF Materialize, MaterializeAgain, Turn
<1>2. test \in Tests /\ Analysed /\ Copying /\ Dirs # {} /\ Looking
  BY <1>1 DEF LauncherInv
<1>3. Copying'
  BY <1>2, MaterializeOK, MaterializeAgainOK
<1>4. Analysed' = Analysed /\ Dirs' = Dirs /\ Looking'
  BY <1>1, <1>2, AnalysedKept, LookingKept
<1>5. stage' = "materialize" /\ test' \in Tests
  BY <1>1, <1>2
<1>. QED BY <1>2, <1>3, <1>4, <1>5 DEF LauncherInv, Mirrored

LEMMA LauncherStep == LauncherInv /\ [LauncherNext]_launcherVars => LauncherInv'
<1>. SUFFICES ASSUME LauncherInv, [LauncherNext]_launcherVars PROVE LauncherInv'
  OBVIOUS
<1>1. CASE RefuseDirs \/ RefuseOutside \/ RefuseEmpty
  <2>1. UNCHANGED <<test, dir, config, runfiles, toLink, toCopy, mirror>> /\ stage' = "refused"
    BY <1>1 DEF RefuseDirs, RefuseOutside, RefuseEmpty, RefuseAt, Goes
  <2>. QED BY <2>1, StaysAnalysed
<1>2. CASE TakeDirs
  <2>1. /\ UNCHANGED <<test, dir, config, runfiles, toLink, toCopy, mirror>>
        /\ stage = "macro" /\ stage' = "config" /\ NoneNested
    BY <1>2 DEF TakeDirs, Goes
  <2>. QED BY <2>1, StaysAnalysed
<1>3. CASE EnterMirror
  <2>1. /\ UNCHANGED <<test, dir, config, runfiles, toLink, toCopy, mirror>>
        /\ stage = "materialize" /\ stage' = "runs" /\ toCopy = {}
    BY <1>3 DEF EnterMirror, Goes
  <2>. QED BY <2>1, StaysAnalysed
<1>4. ASSUME NEW i \in toCopy, CopyFails(i) PROVE LauncherInv'
  <2>1. /\ UNCHANGED <<test, dir, config, runfiles, toLink, toCopy, mirror>>
        /\ stage = "materialize" /\ stage' = "failed"
    BY <1>4 DEF CopyFails, Turn
  <2>2. ~Once
    BY <1>4, <2>1, CopyFailsOK DEF LauncherInv
  <2>. QED BY <2>1, <2>2, StaysAnalysed
<1>5. CASE UNCHANGED launcherVars
  BY <1>5, StaysAnalysed DEF launcherVars
<1>. QED BY <1>1, <1>2, <1>3, <1>4, <1>5, FindConfigOK, AnalyseOK, LinkEntriesOK, TurnOK
         DEF LauncherNext

LEMMA LauncherStarts == LauncherInit => LauncherInv
<1>. SUFFICES ASSUME NEW t \in Tests, LauncherStart(t) PROVE LauncherInv
  BY DEF LauncherInit
<1>1. /\ test \in Tests /\ stage = "macro" /\ dir = DirectoryOf(test.test) /\ config = Nowhere
      /\ DOMAIN mirror = {}
  BY DEF LauncherStart
<1>2. dir \in Path /\ IsPrefix(dir, dir) /\ (~Outside => IsPrefix(Package, dir))
  BY <1>1, TestDirectory, FurtherOn
<1>3. ASSUME NEW c \in Near PROVE Len(c) <= Len(dir) + 1
  <2>1. /\ Front(c) \in Path /\ Len(c) = Len(Front(c)) + 1 /\ Len(Front(c)) \in Nat
        /\ IsPrefix(Front(c), dir)
    BY <1>1, NearIs
  <2>2. Len(Front(c)) <= Len(dir) /\ Len(dir) \in Nat
    BY <1>2, <2>1, PrefixLonger DEF Path
  <2>. QED BY <2>1, <2>2
<1>4. Looking
  BY <1>1, <1>2, <1>3 DEF Looking, NearestConfig
<1>. QED BY <1>1, <1>4 DEF LauncherInv, Mirrored

\* What the finished mirror holds, where no directory is named twice.
LEMMA MirrorIs ==
    ASSUME LauncherInv, Mirrored, Once
    PROVE  \A q \in DOMAIN mirror :
              /\ q \in Path
              /\ \/ q \in WayNodes(OnTheWay) /\ mirror[q] = Dir
                 \/ q \in WayLinks(OnTheWay) /\ mirror[q] = Link(q)
                 \/ /\ \E d \in Dirs : q \in TreeOf(d)
                    /\ IF q \in runfiles THEN mirror[q].kind \in {"copy", "hard"} /\ mirror[q].of = q
                       ELSE mirror[q] = Dir
<1>1. /\ Copying /\ toCopy = {} /\ test \in Tests /\ Analysed /\ Dirs # {}
      /\ DOMAIN mirror \subseteq Path
  BY DEF LauncherInv, Mirrored, Copying
<1>2. Done = DOMAIN test.dirs
  BY <1>1 DEF Done
<1>. SUFFICES ASSUME NEW q \in DOMAIN mirror, q \notin WayNodes(OnTheWay) \cup WayLinks(OnTheWay)
              PROVE  /\ \E d \in Dirs : q \in TreeOf(d)
                     /\ IF q \in runfiles THEN mirror[q].kind \in {"copy", "hard"} /\ mirror[q].of = q
                        ELSE mirror[q] = Dir
  BY <1>1 DEF Copying, WaysMade
<1>3. PICK i \in Done : IsPrefix(DirAt(i), q)
  BY <1>1 DEF Copying
<1>4. Real(DirAt(i)) /\ Alone(DirAt(i))
  BY <1>1, <1>3 DEF Copying
<1>5. q \in TreeOf(DirAt(i)) /\ DirAt(i) \in Dirs
  BY <1>1, <1>2, <1>3, <1>4, PathFacts DEF Alone
<1>. QED BY <1>3, <1>4, <1>5 DEF Real, Alone

LEMMA RealMirror == ASSUME LauncherInv PROVE RealWhereAsked
<1>. SUFFICES ASSUME Mirrored, NEW f \in Declared, NEW d \in Dirs, Below(d, f)
              PROVE  /\ f \in DOMAIN mirror /\ mirror[f].kind \in {"copy", "hard"}
                     /\ \A n \in Len(Package)..(Len(f) - 1) : mirror[SubSeq(f, 1, n)] = Dir
  BY DEF RealWhereAsked
<1>1. /\ Copying /\ toCopy = {} /\ test \in Tests /\ Analysed /\ Dirs # {} /\ NoneNested
  BY DEF LauncherInv, Mirrored, Analysed
<1>2. PICK i \in DOMAIN test.dirs : d = DirAt(i)
  BY <1>1, PathFacts
<1>3. Real(d)
  BY <1>1, <1>2 DEF Copying, Done
<1>4. /\ f \in runfiles /\ f \in Path /\ runfiles \subseteq Path /\ Package \in Path
      /\ \A g \in Declared : ~Below(g, f)
      /\ runfiles \subseteq Declared
  BY <1>1, AnalysedFiles, PathFacts
<1>5. d \in Path /\ Below(Package, d) /\ IsPrefix(d, f) /\ IsPrefix(Package, f)
  BY <1>1, <1>4, DirsApart, FurtherOn DEF Below, IsStrictPrefix
<1>6. f \in DOMAIN mirror /\ mirror[f].kind \in {"copy", "hard"}
  <2>1. f \in TreeOf(d)
    BY <1>4, <1>5, TreeIs, FurtherOn
  <2>. QED BY <1>3, <1>4, <2>1 DEF Real
<1>7. ASSUME NEW n \in Len(Package)..(Len(f) - 1) PROVE mirror[SubSeq(f, 1, n)] = Dir
  <2>. DEFINE q == SubSeq(f, 1, n)
  <2>0. Len(Package) \in Nat /\ Len(f) \in Nat /\ Len(d) \in Nat /\ n \in Nat /\ n < Len(f)
    BY <1>4, <1>5, PrefixIs DEF Path
  <2>1. n \in 0..Len(f)
    BY <2>0
  <2>2. q \in Path /\ Len(q) = n /\ IsPrefix(q, f)
    BY <1>4, <2>1, PrefixCut DEF Path
  <2>. HIDE DEF q
  <2>3. Below(q, f)
    <3>1. Len(q) # Len(f)
      BY <2>0, <2>2
    <3>. QED BY <2>2, <3>1 DEF Below, IsStrictPrefix
  <2>4. IsPrefix(Package, q)
    <3>1. Len(Package) <= Len(q)
      BY <2>0, <2>2
    <3>. QED BY <1>4, <1>5, <2>2, <3>1, PrefixesChain DEF Path
  <2>5. CASE Len(d) <= n
    <3>1. IsPrefix(d, q)
      BY <1>4, <1>5, <2>2, <2>5, PrefixesChain DEF Path
    <3>2. q \in TreeOf(d)
      BY <1>4, <1>5, <2>2, <3>1, TreeIs
    <3>3. q \notin runfiles
      BY <1>4, <2>3
    <3>. QED BY <1>3, <3>2, <3>3 DEF Real, q
  <2>6. CASE n < Len(d)
    <3>1. Below(q, d)
      BY <1>4, <1>5, <2>2, <2>6, OnOnePath
    <3>2. q \in OnTheWay
      BY <1>1, <2>2, <2>4, <3>1, WaysAre
    <3>3. q \in WayNodes(OnTheWay)
      BY <1>1, <2>2, <3>2, NodesAre, FurtherOn
    <3>. QED BY <1>1, <3>3 DEF Copying, WaysMade, q
  <2>. QED BY <2>0, <2>5, <2>6
<1>. QED BY <1>6, <1>7

\* A file of the package that is not to be materialized is reached through a link.
LEMMA LinkAbove ==
    ASSUME test \in Tests, Analysed, Dirs # {}, NEW f \in runfiles, Below(Package, f),
           \A d \in Dirs : ~Below(d, f)
    PROVE  \E q \in WayLinks(OnTheWay) : q \in Path /\ IsPrefix(q, f)
<1>. NoneNested
  BY DEF Analysed
<1>1. /\ f \in Path /\ runfiles \subseteq Path /\ Package \in Path
      /\ ~\E d \in Dirs : IsPrefix(f, d)
  BY AnalysedFiles, PathFacts
<1>2. Package \in OnTheWay
  <2>1. PICK d \in Dirs : TRUE
    BY AnalysedFiles, Zenon DEF LauncherInv
  <2>. QED BY DEF OnTheWay
<1>. DEFINE T == {n \in 0..Len(f) : SubSeq(f, 1, n) \notin OnTheWay /\ n > Len(Package)}
<1>3. /\ Len(f) \in Nat /\ Len(Package) \in Nat /\ Len(Package) < Len(f)
      /\ Package = SubSeq(f, 1, Len(Package))
  <2>1. IsPrefix(Package, f) /\ Package # f
    BY DEF Below, IsStrictPrefix
  <2>2. Len(Package) <= Len(f) /\ Len(Package) # Len(f) /\ Len(Package) \in Nat /\ Len(f) \in Nat
    BY <1>1, <2>1, PrefixLonger DEF Path
  <2>. QED BY <1>1, <2>1, <2>2, PrefixIsCut DEF Path
<1>4. Len(f) \in T
  <2>1. Len(f) \in 0..Len(f)
    BY <1>3
  <2>2. SubSeq(f, 1, Len(f)) = f
    BY <1>1, PrefixAll, PrefixIsCut DEF Path
  <2>3. f \notin OnTheWay
    BY <1>1, WaysAre DEF Below, IsStrictPrefix
  <2>. QED BY <1>3, <2>1, <2>2, <2>3
<1>5. PICK n \in T : \A m \in T : n <= m
  <2>1. T \subseteq Nat
    OBVIOUS
  <2>. HIDE DEF T
  <2>. QED BY <1>4, <2>1, LeastNumber
<1>6. /\ n \in 0..Len(f) /\ SubSeq(f, 1, n) \notin OnTheWay /\ n > Len(Package)
      /\ n - 1 \in 0..Len(f) /\ n \in Nat
  BY <1>3
<1>7. SubSeq(f, 1, n - 1) \in OnTheWay
  <2>1. n - 1 \notin T
    <3>1. ~(n <= n - 1)
      BY <1>6
    <3>. HIDE DEF T
    <3>. QED BY <1>5, <3>1
  <2>2. n - 1 > Len(Package) \/ n - 1 = Len(Package)
    BY <1>3, <1>6
  <2>. QED BY <1>2, <1>3, <1>6, <2>1, <2>2
<1>. DEFINE q == SubSeq(f, 1, n)
            w == SubSeq(f, 1, n - 1)
<1>8. /\ q \in Path /\ Len(q) = n /\ IsPrefix(q, f)
      /\ w \in Path /\ Len(w) = n - 1 /\ IsPrefix(w, f)
  BY <1>1, <1>6, PrefixCut DEF Path
<1>9. w \in OnTheWay /\ q \notin OnTheWay
  BY <1>6, <1>7
<1>. HIDE DEF q, w, T
<1>10. IsPrefix(w, q) /\ Len(q) = Len(w) + 1
  <2>1. Len(w) <= Len(q) /\ Len(q) = Len(w) + 1
    BY <1>6, <1>8
  <2>. QED BY <1>1, <1>8, <2>1, PrefixesChain DEF Path
<1>11. q \notin Dirs
  <2>. SUFFICES ASSUME q \in Dirs PROVE FALSE
    OBVIOUS
  <2>1. q = f \/ Below(q, f)
    BY <1>8 DEF Below, IsStrictPrefix
  <2>2. IsPrefix(f, f)
    BY <1>1, FurtherOn
  <2>. QED BY <1>1, <2>1, <2>2
<1>12. q \in Entries(w)
  BY <1>1, <1>8, <1>10, EntriesAre
<1>13. q \in WayLinks(OnTheWay)
  BY <1>9, <1>11, <1>12 DEF WayLinks, MadeHere
<1>. QED BY <1>8, <1>13

\* Every node that is no directory stands at the path that it is of.
LEMMA StandsAtItself ==
    ASSUME LauncherInv, Mirrored, Once
    PROVE  /\ \A q \in DOMAIN mirror : q \in Path
           /\ \A q \in DOMAIN mirror : mirror[q].kind # "dir" =>
                 mirror[q].of = q /\ Below(Package, q)
           /\ \A p \in Path : ReadsAt(p) = IF Through(p) = {} THEN {} ELSE {p} \cap runfiles
<1>1. test \in Tests /\ Analysed /\ Dirs # {} /\ NoneNested
  BY DEF LauncherInv, Mirrored, Analysed
<1>2. Package \in Path /\ runfiles \subseteq Path /\ \A d \in Dirs : d \in Path /\ Below(Package, d)
  BY <1>1, PathFacts, AnalysedFiles, DirsApart
<1>3. ASSUME NEW q \in DOMAIN mirror, mirror[q].kind # "dir"
      PROVE  mirror[q].of = q /\ Below(Package, q)
  <2>1. q \in Path /\ mirror[q] # Dir
    BY <1>3, MirrorIs DEF Dir
  <2>2. CASE q \in WayLinks(OnTheWay) /\ mirror[q] = Link(q)
    <3>1. PICK w \in OnTheWay : q \in Entries(w)
      BY <2>2 DEF WayLinks
    <3>2. w \in Path /\ IsPrefix(Package, w)
      BY <1>1, WaysAre
    <3>3. IsPrefix(w, q) /\ Len(q) = Len(w) + 1
      BY <1>2, <3>1, <3>2, EntriesAre
    <3>4. Below(w, q)
      <4>1. Len(w) \in Nat
        BY <2>1, <3>2, PrefixIs DEF Path
      <4>2. Len(q) # Len(w)
        BY <3>3, <4>1
      <4>. QED BY <3>3, <4>2 DEF Below, IsStrictPrefix
    <3>5. Below(Package, q)
      BY <1>2, <2>1, <3>2, <3>4, FurtherOn
    <3>. QED BY <2>2, <3>5 DEF Link
  <2>3. ASSUME NEW d \in Dirs, q \in TreeOf(d), mirror[q].of = q
        PROVE  mirror[q].of = q /\ Below(Package, q)
    <3>1. IsPrefix(d, q)
      BY <1>2, <2>3, TreeIs
    <3>. QED BY <1>2, <2>1, <2>3, <3>1, FurtherOn
  <2>. QED BY <2>1, <2>2, <2>3, MirrorIs
<1>4. \A q \in DOMAIN mirror : q \in Path
  BY MirrorIs
<1>5. ASSUME NEW p \in Path
      PROVE  ReadsAt(p) = IF Through(p) = {} THEN {} ELSE {p} \cap runfiles
  <2>1. \A q \in Through(p) : mirror[q].of \o SubSeq(p, Len(q) + 1, Len(p)) = p
    <3>. SUFFICES ASSUME NEW q \in Through(p)
                  PROVE  mirror[q].of \o SubSeq(p, Len(q) + 1, Len(p)) = p
      OBVIOUS
    <3>1. q \in DOMAIN mirror /\ IsPrefix(q, p) /\ mirror[q].of = q /\ q \in Path
      BY <1>3, <1>4 DEF Through
    <3>2. q \o SubSeq(p, Len(q) + 1, Len(p)) = p
      BY <3>1, PrefixAndRest DEF Path
    <3>. QED BY <3>1, <3>2
  <2>2. {mirror[q].of \o SubSeq(p, Len(q) + 1, Len(p)) : q \in Through(p)}
            = IF Through(p) = {} THEN {} ELSE {p}
    BY <2>1
  <2>. QED BY <2>2 DEF ReadsAt
<1>. QED BY <1>3, <1>4, <1>5

(* What there is to see in the mirror is the package's files. *)
LEMMA SeenAre ==
    ASSUME LauncherInv, Mirrored, Once
    PROVE  Seen = {f \in runfiles : Through(f) # {}}
<1>1. runfiles \subseteq Path
  BY AnalysedFiles DEF LauncherInv, Mirrored
<1>2. ASSUME NEW x \in Seen PROVE x \in runfiles /\ Through(x) # {}
  <2>1. PICK q \in DOMAIN mirror :
           /\ mirror[q].kind # "dir"
           /\ \E f \in runfiles : /\ IsPrefix(mirror[q].of, f)
                                  /\ x = q \o SubSeq(f, Len(mirror[q].of) + 1, Len(f))
    BY <1>2 DEF Seen
  <2>2. mirror[q].of = q /\ q \in Path
    BY <2>1, StandsAtItself
  <2>3. PICK f \in runfiles : IsPrefix(q, f) /\ x = q \o SubSeq(f, Len(q) + 1, Len(f))
    BY <2>1, <2>2
  <2>4. x = f
    BY <1>1, <2>2, <2>3, PrefixAndRest DEF Path
  <2>. QED BY <2>1, <2>3, <2>4 DEF Through
<1>3. ASSUME NEW f \in runfiles, NEW q \in Through(f) PROVE f \in Seen
  <2>1. q \in DOMAIN mirror /\ IsPrefix(q, f) /\ mirror[q].kind # "dir"
    BY DEF Through
  <2>2. mirror[q].of = q /\ q \in Path
    BY <2>1, StandsAtItself
  <2>3. q \o SubSeq(f, Len(q) + 1, Len(f)) = f
    BY <1>1, <2>1, <2>2, PrefixAndRest DEF Path
  <2>. DEFINE At(p) == IF mirror[p].kind = "dir" THEN {}
                       ELSE {p \o SubSeq(g, Len(mirror[p].of) + 1, Len(g)) :
                               g \in {h \in runfiles : IsPrefix(mirror[p].of, h)}}
  <2>4. f \in At(q)
    BY <2>1, <2>2, <2>3
  <2>5. Seen = UNION {At(p) : p \in DOMAIN mirror}
    BY DEF Seen
  <2>. HIDE DEF At
  <2>. QED BY <2>1, <2>4, <2>5
<1>. QED BY <1>2, <1>3

LEMMA MirrorShows == ASSUME LauncherInv, Once PROVE MirrorIsThePackage
<1>. SUFFICES ASSUME Mirrored
              PROVE  /\ Seen = {f \in runfiles : Below(Package, f)}
                     /\ \A f \in Seen : ReadsAt(f) = {f}
  BY DEF MirrorIsThePackage
<1>1. test \in Tests /\ Analysed /\ Dirs # {} /\ NoneNested /\ Copying /\ toCopy = {}
  BY DEF LauncherInv, Mirrored, Analysed
<1>2. Package \in Path /\ runfiles \subseteq Path /\ runfiles \subseteq Declared
  BY <1>1, PathFacts, AnalysedFiles
<1>3. ASSUME NEW f \in runfiles, NEW q \in Through(f) PROVE Below(Package, f)
  <2>1. q \in DOMAIN mirror /\ IsPrefix(q, f) /\ q \in Path /\ Below(Package, q)
    BY StandsAtItself DEF Through
  <2>. QED BY <1>2, <2>1, FurtherOn
<1>4. ASSUME NEW f \in runfiles, Below(Package, f) PROVE Through(f) # {}
  <2>1. CASE \E d \in Dirs : Below(d, f)
    <3>1. f \in DOMAIN mirror /\ mirror[f].kind \in {"copy", "hard"}
      BY <1>2, <2>1, RealMirror DEF RealWhereAsked
    <3>2. IsPrefix(f, f)
      BY <1>2, FurtherOn
    <3>. QED BY <3>1, <3>2 DEF Through
  <2>2. CASE \A d \in Dirs : ~Below(d, f)
    <3>1. PICK q \in WayLinks(OnTheWay) : IsPrefix(q, f)
      BY <1>1, <1>4, <2>2, LinkAbove
    <3>2. q \in DOMAIN mirror /\ mirror[q] = Link(q)
      BY <1>1 DEF Copying, WaysMade
    <3>. QED BY <3>1, <3>2 DEF Through, Link
  <2>. QED BY <2>1, <2>2
<1>5. Seen = {f \in runfiles : Below(Package, f)}
  BY <1>3, <1>4, SeenAre
<1>6. ASSUME NEW f \in Seen PROVE ReadsAt(f) = {f}
  <2>1. f \in runfiles /\ Through(f) # {}
    BY SeenAre
  <2>. QED BY <1>2, <2>1, StandsAtItself
<1>. QED BY <1>5, <1>6

LEMMA OthersAreLinked == ASSUME LauncherInv, Once PROVE LinkedElsewhere
<1>. SUFFICES ASSUME Mirrored, NEW f \in Declared, \A d \in Dirs : ~Below(d, f)
              PROVE  /\ f \in DOMAIN mirror => mirror[f].kind = "link"
                     /\ f \notin test.srcs \cup test.data => ReadsAt(f) = {}
  BY DEF LinkedElsewhere
<1>1. test \in Tests /\ Analysed /\ Dirs # {} /\ NoneNested
  BY DEF LauncherInv, Mirrored, Analysed
<1>2. /\ f \in Path /\ runfiles \subseteq Path /\ ~\E d \in Dirs : IsPrefix(f, d)
      /\ \A g \in runfiles : g \in test.srcs \cup test.data \/ \E d \in Dirs : Below(d, g)
  BY <1>1, PathFacts, AnalysedFiles
<1>3. \A d \in Dirs : d \in Path
  BY <1>1, DirsApart
<1>4. f \notin WayNodes(OnTheWay)
  <2>. SUFFICES ASSUME f \in WayNodes(OnTheWay) PROVE FALSE
    OBVIOUS
  <2>1. PICK w \in OnTheWay : IsPrefix(f, w)
    BY <1>1, NodesAre
  <2>2. w \in Path /\ \E d \in Dirs : Below(w, d)
    BY <1>1, WaysAre
  <2>. QED BY <1>2, <1>3, <2>1, <2>2, FurtherOn DEF Below, IsStrictPrefix
<1>5. \A d \in Dirs : f \notin TreeOf(d)
  <2>. SUFFICES ASSUME NEW d \in Dirs, f \in TreeOf(d) PROVE FALSE
    OBVIOUS
  <2>1. IsPrefix(d, f)
    BY <1>2, <1>3, TreeIs
  <2>2. d = f
    BY <2>1 DEF Below, IsStrictPrefix
  <2>. QED BY <1>2, <2>1, <2>2
<1>6. f \in DOMAIN mirror => mirror[f].kind = "link"
  BY <1>4, <1>5, MirrorIs DEF Link
<1>7. f \notin test.srcs \cup test.data => ReadsAt(f) = {}
  BY <1>2, StandsAtItself
<1>. QED BY <1>6, <1>7

LEMMA LauncherIsSafe == LauncherInv => LauncherSafe
<1>. SUFFICES ASSUME LauncherInv PROVE LauncherSafe
  OBVIOUS
<1>1. NearestConfig /\ (Once => stage # "failed")
  BY DEF LauncherInv, Looking
<1>. QED BY <1>1, RealMirror, MirrorShows, OthersAreLinked DEF LauncherSafe

(* _find_config and _materialize_script, for every test, tree of declared files and list
   of directories: the test is declared under its nearest config, the directories it lists
   are real files, and, where none is named twice, the mirror shows every file of the
   package at its own path and no other, links what is not listed, and no step fails. *)
THEOREM LauncherSafeCorrect == LauncherSpec => []LauncherSafe
<1>1. LauncherSpec => []LauncherInv
  BY LauncherStarts, LauncherStep, PTL DEF LauncherSpec
<1>. QED BY <1>1, LauncherIsSafe, PTL
================================================================================
