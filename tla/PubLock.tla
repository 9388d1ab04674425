-------------------------------- MODULE PubLock --------------------------------
(* The reader of pubspec.lock (pub_lock_parser.bzl): parse_pubspec_lock goes over
   the lines with a section, a package and a flag as its only memory, and
   resolve_lock classifies what it has read.  Both fail on what they do not know;
   Bazel downloads what they return.

   A line is blank (or a comment), unreadable (a tab, a quoted key, no colon), or
   an entry.  The value of an entry is what _scalar makes of it: "" is no value at
   all, EmptyQuotes a quoted empty one, and the Malformed are what _scalar refuses.
   Its style is how that is written, which this reader never looks at again.
   Alphabets (of names, versions, digests, URLs) are sets.                       *)
EXTENDS Integers, Sequences

CONSTANTS
    Words,          \* what keys and values are: strings
    Texts,          \* the lock files that may be read
    EmptyQuotes, Malformed,
    PackageNames,   \* what _check_name accepts
    Versions,       \* what _check_version accepts
    Digests,        \* what is a sha256
    Servers         \* https URLs

Styles == {"plain", "double", "single", "escaped", "commented"}

Line == [form : {"blank", "unreadable"}]
   \cup [form : {"entry"}, indent : Nat, key : Words \ {""}, value : Words,
         style : Styles]

ASSUME LockAssumption ==
    /\ Texts \subseteq Seq(Line)
    /\ "" \in Words /\ EmptyQuotes \in Words \ {""} /\ EmptyQuotes \notin Malformed
    /\ "{}" \in Malformed /\ "" \notin Malformed
    /\ "" \notin PackageNames \cup Versions \cup Digests \cup Servers

VARIABLES
    text,           \* the lock file
    line,           \* the number of lines read
    status,         \* "reading", "parsed", "resolved" or "failed"
    section, package, inDescription,
    declared,       \* the keys of `packages`
    fields,         \* <<package, key, text>>: the packages' scalar fields
    mapped,         \* the packages whose description is a map
    nested,         \* <<package, key, text>>: the fields of those maps
    resolved        \* the entries resolve_lock returns

memory   == <<section, package, inDescription>>
contents == <<declared, fields, mapped, nested>>
vars     == <<text, line, status, memory, contents, resolved>>

Start(lock) ==
    /\ text = lock /\ line = 0 /\ status = "reading"
    /\ section = "" /\ package = "" /\ inDescription = FALSE
    /\ declared = {} /\ fields = {} /\ mapped = {} /\ nested = {}
    /\ resolved = {}
Init == \E lock \in Texts : Start(lock)

Scalar(v)   == IF v = EmptyQuotes THEN "" ELSE v
IsScalar(v) == v \notin Malformed

-----------------------------------------------------------------------------
(* The branches of parse_pubspec_lock for an entry l.                         *)

IsSection(l) ==
    l.indent = 0 /\ l.key \in {"packages", "sdks"} /\ l.value \in {"", "{}"}

IsPackage(l) ==
    section = "packages" /\ l.indent = 2 /\ l.value = "" /\ l.key \notin declared

(* A field without a value is an empty scalar, but a description is a map. *)
Opens(l) == l.key = "description" /\ l.value = ""

IsField(l) ==
    /\ section = "packages" /\ l.indent = 4 /\ package # ""
    /\ ~\E f \in fields : f[1] = package /\ f[2] = l.key
    /\ ~(l.key = "description" /\ package \in mapped)
    /\ IsScalar(l.value)

IsNested(l) ==
    /\ section = "packages" /\ l.indent = 6 /\ inDescription
    /\ ~\E f \in nested : f[1] = package /\ f[2] = l.key
    /\ IsScalar(l.value)

IsSdk(l) == section = "sdks" /\ l.indent = 2 /\ IsScalar(l.value)

NextLine   == text[line + 1]
AtLine(f)  == status = "reading" /\ line < Len(text) /\ NextLine.form = f
Advance    == line' = line + 1 /\ UNCHANGED <<text, status, resolved>>

SkipLine ==
    /\ AtLine("blank") /\ Advance
    /\ UNCHANGED <<memory, contents>>

ReadSection ==
    /\ AtLine("entry") /\ IsSection(NextLine) /\ Advance
    /\ section' = NextLine.key /\ package' = "" /\ inDescription' = FALSE
    /\ UNCHANGED contents

ReadPackage ==
    /\ AtLine("entry") /\ IsPackage(NextLine) /\ Advance
    /\ package' = NextLine.key /\ inDescription' = FALSE
    /\ declared' = declared \cup {NextLine.key}
    /\ UNCHANGED <<section, fields, mapped, nested>>

(* Mutant: a later field leaves the description open. *)
ReadFieldInside ==
    /\ AtLine("entry") /\ IsField(NextLine) /\ Advance
    /\ inDescription' = (inDescription \/ Opens(NextLine))
    /\ IF Opens(NextLine)
       THEN mapped' = mapped \cup {package} /\ UNCHANGED fields
       ELSE /\ fields' = fields \cup
                         {<<package, NextLine.key, Scalar(NextLine.value)>>}
            /\ UNCHANGED mapped
    /\ UNCHANGED <<section, package, declared, nested>>

ReadField ==
    /\ AtLine("entry") /\ IsField(NextLine) /\ Advance
    /\ inDescription' = Opens(NextLine)
    /\ IF Opens(NextLine)
       THEN mapped' = mapped \cup {package} /\ UNCHANGED fields
       ELSE /\ fields' = fields \cup
                         {<<package, NextLine.key, Scalar(NextLine.value)>>}
            /\ UNCHANGED mapped
    /\ UNCHANGED <<section, package, declared, nested>>

ReadNested ==
    /\ AtLine("entry") /\ IsNested(NextLine) /\ Advance
    /\ nested' = nested \cup {<<package, NextLine.key, Scalar(NextLine.value)>>}
    /\ UNCHANGED <<memory, declared, fields, mapped>>

(* No caller reads what parse_pubspec_lock returns of the SDKs. *)
ReadSdk ==
    /\ AtLine("entry") /\ IsSdk(NextLine) /\ Advance
    /\ UNCHANGED <<memory, contents>>

Refuse ==
    /\ \/ AtLine("unreadable")
       \/ /\ AtLine("entry")
          /\ ~ \/ IsSection(NextLine) \/ IsPackage(NextLine) \/ IsField(NextLine)
               \/ IsNested(NextLine) \/ IsSdk(NextLine)
    /\ status' = "failed"
    /\ UNCHANGED <<text, line, memory, contents, resolved>>

EndOfText ==
    /\ status = "reading" /\ line = Len(text)
    /\ status' = "parsed"
    /\ UNCHANGED <<text, line, memory, contents, resolved>>

-----------------------------------------------------------------------------
(* resolve_lock.                                                              *)

Get(rel, p, k) == IF \E f \in rel : f[1] = p /\ f[2] = k
                  THEN (CHOOSE f \in rel : f[1] = p /\ f[2] = k)[3]
                  ELSE ""
Source(p)      == Get(fields, p, "source")
Version(p)     == Get(fields, p, "version")
Description(p, k) == Get(nested, p, k)

(* Mutant: whatever package the description names. *)
IsHostedUnnamed(p) ==
    /\ Source(p) = "hosted" /\ p \in mapped
    /\ Description(p, "sha256") \in Digests /\ Description(p, "url") \in Servers
    /\ Version(p) \in Versions

IsHosted(p) ==
    /\ Source(p) = "hosted" /\ p \in mapped
    /\ Description(p, "name") = p
    /\ Description(p, "sha256") \in Digests /\ Description(p, "url") \in Servers
    /\ Version(p) \in Versions

IsOfSdk(p) == Source(p) = "sdk" /\ Get(fields, p, "description") = "flutter"
IsPath(p)  == /\ Source(p) = "path" /\ p \in mapped
              /\ Description(p, "relative") = "true"

Accepts(p) == p \in PackageNames /\ (IsHosted(p) \/ IsOfSdk(p) \/ IsPath(p))

Entry(p) ==
    [name |-> p, source |-> Source(p), version |-> Version(p),
     direct |-> Get(fields, p, "dependency") \in {"direct main", "direct dev"},
     where |-> CASE Source(p) = "hosted" -> Description(p, "sha256")
                 [] Source(p) = "path"   -> Description(p, "path")
                 [] OTHER                -> ""]

Resolve ==
    /\ status = "parsed" /\ \A p \in declared : Accepts(p)
    /\ status' = "resolved"
    /\ resolved' = {Entry(p) : p \in declared}
    /\ UNCHANGED <<text, line, memory, contents>>

FailToResolve ==
    /\ status = "parsed" /\ \E p \in declared : ~Accepts(p)
    /\ status' = "failed"
    /\ UNCHANGED <<text, line, memory, contents, resolved>>

Next == \/ SkipLine \/ ReadSection \/ ReadPackage \/ ReadField \/ ReadNested
        \/ ReadSdk \/ Refuse \/ EndOfText \/ Resolve \/ FailToResolve

Spec == Init /\ [][Next]_vars
-----------------------------------------------------------------------------
(* What the text says, by its indentation alone: the owner of a line is the last
   line before it that is indented less.                                      *)
Content(t, i) == t[i].form = "entry"
Parent(t, j, i) ==
    /\ Content(t, j) /\ t[j].indent < t[i].indent
    /\ \A m \in (j + 1)..(i - 1) : Content(t, m) => t[m].indent >= t[i].indent
HasOwner(t, i) == Content(t, i) /\ \E j \in 1..(i - 1) : Parent(t, j, i)
Owner(t, i)    == CHOOSE j \in 1..(i - 1) : Parent(t, j, i)

HeaderAt(t, i, key) == Content(t, i) /\ t[i].indent = 0 /\ t[i].key = key
UnderHeader(t, i, key) ==
    HasOwner(t, i) /\ t[i].indent = 2 /\ HeaderAt(t, Owner(t, i), key)
PackageAt(t, i) == UnderHeader(t, i, "packages")
SdkAt(t, i)     == UnderHeader(t, i, "sdks")
FieldAt(t, i) ==
    HasOwner(t, i) /\ t[i].indent = 4 /\ PackageAt(t, Owner(t, i))
MapAt(t, i) == FieldAt(t, i) /\ Opens(t[i])
NestedAt(t, i) ==
    HasOwner(t, i) /\ t[i].indent = 6 /\ MapAt(t, Owner(t, i))

PackageOfField(t, i)  == t[Owner(t, i)].key
PackageOfNested(t, i) == PackageOfField(t, Owner(t, i))
Triple(p, l)          == <<p, l.key, Scalar(l.value)>>

DeclaredBy(t, n) == {t[i].key : i \in {k \in 1..n : PackageAt(t, k)}}
MappedBy(t, n) == {PackageOfField(t, i) : i \in {k \in 1..n : MapAt(t, k)}}
FieldsBy(t, n) ==
    {Triple(PackageOfField(t, i), t[i]) :
        i \in {k \in 1..n : FieldAt(t, k) /\ ~MapAt(t, k)}}
NestedBy(t, n) ==
    {Triple(PackageOfNested(t, i), t[i]) : i \in {k \in 1..n : NestedAt(t, k)}}

(* Line i has a place in pub's shape, after the lines before it. *)
WellFormed(t, i) ==
    \/ t[i].form = "blank"
    \/ Content(t, i) /\ IsSection(t[i])
    \/ PackageAt(t, i) /\ t[i].value = "" /\ t[i].key \notin DeclaredBy(t, i - 1)
    \/ /\ FieldAt(t, i) /\ IsScalar(t[i].value)
       /\ \A k \in 1..(i - 1) :
             FieldAt(t, k) /\ t[k].key = t[i].key =>
                PackageOfField(t, k) # PackageOfField(t, i)
    \/ /\ NestedAt(t, i) /\ IsScalar(t[i].value)
       /\ \A k \in 1..(i - 1) :
             NestedAt(t, k) /\ t[k].key = t[i].key =>
                PackageOfNested(t, k) # PackageOfNested(t, i)
    \/ SdkAt(t, i) /\ IsScalar(t[i].value)

-----------------------------------------------------------------------------
Triples == Words \X Words \X Words

TypeOK ==
    /\ text \in Seq(Line) /\ line \in 0..Len(text)
    /\ status \in {"reading", "parsed", "resolved", "failed"}
    /\ section \in {"", "packages", "sdks"} /\ package \in Words
    /\ inDescription \in BOOLEAN
    /\ declared \subseteq Words /\ mapped \subseteq declared
    /\ fields \subseteq Triples /\ nested \subseteq Triples
    /\ resolved \subseteq [name : Words, source : Words, version : Words,
                           direct : BOOLEAN, where : Words]
    /\ package \in declared \cup {""}
    /\ inDescription => package \in mapped

(* The reader's three variables are enough: what it has taken from the lines is
   what their indentation says, each field with the package above it and each
   field of a description with that description. *)
ReadsAsIndented ==
    /\ declared = DeclaredBy(text, line) /\ mapped = MappedBy(text, line)
    /\ fields = FieldsBy(text, line) /\ nested = NestedBy(text, line)

(* Fails closed, and on nothing else: every line read has its place in pub's
   shape, and the line the reader refuses has none. *)
RefusesIllFormed ==
    /\ \A i \in 1..line : WellFormed(text, i)
    /\ status = "failed" /\ line < Len(text) => ~WellFormed(text, line + 1)

(* The reader takes what the lock says and all of it, or refuses a lock that says nothing
   to it, in states that keep their types (parse_pubspec_lock). *)
ReaderIsExact == TypeOK /\ ReadsAsIndented /\ RefusesIllFormed

(* What is downloaded is pinned by its own entry: when a lock resolves, every
   package of it is there once, and a hosted one has a digest that stands, next
   to its own name, in its own description. *)
PinnedByItself ==
    status = "resolved" =>
       /\ \A i \in 1..Len(text) : PackageAt(text, i) =>
             \E e \in resolved :
                /\ e.name = text[i].key
                /\ \A f \in resolved : f.name = e.name => f = e
       /\ \A e \in resolved : e.source = "hosted" =>
             \E i, k \in 1..Len(text) :
                /\ NestedAt(text, i) /\ text[i].key = "sha256"
                /\ e.where = Scalar(text[i].value) /\ e.where \in Digests
                /\ NestedAt(text, k) /\ text[k].key = "name"
                /\ Scalar(text[k].value) = e.name
                /\ Owner(text, k) = Owner(text, i)
                /\ PackageOfNested(text, i) = e.name
=============================================================================
