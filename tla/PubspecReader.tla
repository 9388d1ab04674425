----------------------------- MODULE PubspecReader -----------------------------
(* The readers of a pubspec.yaml (pub_lock_parser.bzl): pubspec_flutter_plugins with its
   stack of open keys, and pubspec_dependencies with its indent of the children; and what
   the text says, by indentation alone.

   A text is a sequence of lines [indent, key, kind, value]: "open" has no value, "" or a
   comment, "scalar" a name, "flow" a map, "cut" a map that goes on in the next lines, and
   "item" is an element of a list.  Blank lines and lines of comment, which both readers
   skip, are left out. *)
EXTENDS Integers, Sequences, SequencesExt

IsText(text) ==
    /\ Len(text) \in Nat /\ DOMAIN text = 1..Len(text)
    /\ \A i \in DOMAIN text :
          /\ text[i].indent \in Nat
          /\ text[i].kind \in {"open", "scalar", "flow", "cut", "item"}

NoFields == [f \in {} |-> ""]
SetKey(map, key, value) == [k \in DOMAIN map \cup {key} |-> IF k = key THEN value ELSE map[k]]
PlatformsPath == <<"flutter", "plugin", "platforms">>

-----------------------------------------------------------------------------
(* pubspec_flutter_plugins.  Keys indented as much as the line, or more, are popped. *)
LastBelow(stack, indent) == Max({0} \cup {i \in DOMAIN stack : stack[i].indent < indent})

(* Mutant: a key that is indented as much as the line stays open. *)
EnclosingTooMuch(stack, indent) == SubSeq(stack, 1, LastBelow(stack, indent + 1))
Enclosing(stack, indent) == SubSeq(stack, 1, LastBelow(stack, indent))

\* A comment opens a block as no value does, and is yet a value where one is asked for.
HasValue(line) == line.kind # "open" \/ line.value # ""

RouteOf(stack) == [i \in DOMAIN stack |-> stack[i].key]
DeclaresPlatform(path, line) == path = PlatformsPath /\ line.kind \in {"open", "flow"}
IsPlatformField(path, line) ==
    Len(path) = 4 /\ IsPrefix(PlatformsPath, path) /\ HasValue(line)

ReadKey(read, line) ==
    LET stack == Enclosing(read.stack, line.indent)
        path  == RouteOf(stack)
    IN  [stack |-> IF line.kind = "open" THEN Append(stack, line) ELSE stack,
         implements |->
            IF path = <<"flutter", "plugin">> /\ line.key = "implements" /\ HasValue(line)
            THEN line.value ELSE read.implements,
         platforms |->
            IF DeclaresPlatform(path, line)
            THEN SetKey(read.platforms, line.key, IF line.kind = "flow" THEN line.value ELSE NoFields)
            ELSE IF IsPlatformField(path, line)
            THEN [read.platforms EXCEPT ![path[4]] = SetKey(@, line.key, line.value)]
            ELSE read.platforms]

ReadPlugin(read, line) == IF line.kind = "item" THEN read ELSE ReadKey(read, line)

NothingRead == [stack |-> <<>>, implements |-> "", platforms |-> [p \in {} |-> NoFields]]
PluginsRead(text) ==
    LET read[n \in 0..Len(text)] ==
            IF n = 0 THEN NothingRead ELSE ReadPlugin(read[n - 1], text[n])
    IN  read

FlutterPlugins(text) ==
    LET read == PluginsRead(text)[Len(text)]
    IN  [implements |-> read.implements, platforms |-> read.platforms]

\* A platform whose map is not closed on its line fails.
HasCutPlatform(text) ==
    \E i \in DOMAIN text :
        /\ text[i].kind = "cut"
        /\ RouteOf(Enclosing(PluginsRead(text)[i - 1].stack, text[i].indent)) = PlatformsPath

-----------------------------------------------------------------------------
(* pubspec_dependencies.  The children of the section are indented as its first line. *)
ReadDependency(read, line) ==
    IF line.indent = 0
    THEN [read EXCEPT !.inside = line.key = "dependencies" /\ line.kind = "open", !.child = -1]
    ELSE IF ~read.inside THEN read
    ELSE LET child == IF read.child = -1 THEN line.indent ELSE read.child
         IN  [inside |-> TRUE, child |-> child,
              names |-> IF line.indent = child THEN read.names \cup {line.key} ELSE read.names]

DependenciesRead(text) ==
    LET read[n \in 0..Len(text)] ==
            IF n = 0 THEN [inside |-> FALSE, child |-> -1, names |-> {}]
            ELSE ReadDependency(read[n - 1], text[n])
    IN  read

Dependencies(text) == DependenciesRead(text)[Len(text)].names

(* Any value of the section but {} fails. *)
IsReadableSection(text, section) ==
    \A i \in DOMAIN text :
        text[i].indent = 0 /\ text[i].key = section =>
            text[i].kind = "open" \/ (text[i].kind = "flow" /\ text[i].value = NoFields)
IsReadable(text) == IsReadableSection(text, "dependencies")

-----------------------------------------------------------------------------
(* What the text says: a line belongs to the last key before it that is indented less. *)
KeyAbove(text, i) ==
    Max({0} \cup {j \in 1..(i - 1) : text[j].kind # "item" /\ text[j].indent < text[i].indent})

PathsOf(text) ==
    LET path[i \in DOMAIN text] ==
            Append(IF KeyAbove(text, i) = 0 THEN <<>> ELSE path[KeyAbove(text, i)], text[i].key)
    IN  path

SectionOf(text, i) ==
    Max({0} \cup {j \in 1..(i - 1) : text[j].kind # "item" /\ text[j].indent = 0})

(* A YAML mapping, every flow map on one line: values have no children, siblings stand
   under each other and differ, and the dependencies are no list. *)
IsMapping(text) ==
    LET owner == [i \in DOMAIN text |-> KeyAbove(text, i)]
        keys  == {i \in DOMAIN text : text[i].kind # "item"}
    IN  /\ \A i \in DOMAIN text : text[i].kind # "cut"
        /\ \A i \in DOMAIN text : IF owner[i] = 0 THEN text[i].indent = 0
                                  ELSE text[owner[i]].kind = "open"
        /\ \A i, j \in keys : i < j /\ owner[i] = owner[j] =>
              text[i].indent = text[j].indent /\ text[i].key # text[j].key
        /\ \A i \in DOMAIN text \ keys :
              SectionOf(text, i) # 0 => text[SectionOf(text, i)].key # "dependencies"

(* No comment stands in the place of a value that pubspec_flutter_plugins takes: it would
   be one. *)
CommentsAreNone(text) ==
    LET at == PathsOf(text)
    IN  \A i \in DOMAIN text : text[i].kind = "open" /\ text[i].value # "" =>
            /\ at[i] # <<"flutter", "plugin", "implements">>
            /\ ~(Len(at[i]) = 5 /\ IsPrefix(PlatformsPath, Front(at[i])))

FieldsSaid(text, p) ==
    LET at == PathsOf(text)
        block == {i \in DOMAIN text : text[i].kind # "item" /\ text[i].kind # "open"
                                      /\ Len(at[i]) = 5 /\ Front(at[i]) = Append(PlatformsPath, p)}
        flow  == {i \in DOMAIN text : text[i].kind = "flow" /\ at[i] = Append(PlatformsPath, p)}
    IN  IF flow # {} THEN text[CHOOSE i \in flow : TRUE].value
        ELSE [f \in {text[i].key : i \in block} |->
                 text[CHOOSE i \in block : text[i].key = f].value]

PluginsSaid(text) ==
    LET at == PathsOf(text)
        declared == {i \in DOMAIN text : text[i].kind \in {"open", "flow"}
                                         /\ Len(at[i]) = 4 /\ IsPrefix(PlatformsPath, at[i])}
        named == {i \in DOMAIN text : text[i].kind \in {"scalar", "flow"}
                                      /\ at[i] = <<"flutter", "plugin", "implements">>}
    IN  [implements |-> IF named = {} THEN "" ELSE text[CHOOSE i \in named : TRUE].value,
         platforms  |-> [p \in {text[i].key : i \in declared} |-> FieldsSaid(text, p)]]

DependenciesSaid(text) ==
    {text[i].key : i \in {j \in DOMAIN text : Len(PathsOf(text)[j]) = 2
                                               /\ PathsOf(text)[j][1] = "dependencies"}}

(* Whatever stands before, between and inside the sections of a pubspec, the stack of
   pubspec_flutter_plugins gives each platform its own fields and no others, comments in the
   place of values apart, and pubspec_dependencies names the children of its section. *)
PubspecReadAsIndented(text) ==
    IsMapping(text) /\ IsReadable(text) =>
        /\ CommentsAreNone(text) => FlutterPlugins(text) = PluginsSaid(text)
        /\ Dependencies(text) = DependenciesSaid(text)
=============================================================================
