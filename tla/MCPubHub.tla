------------------------------- MODULE MCPubHub -------------------------------
(* Four kinds of projects: path packages in every direction, from the main repository and
   from another module's; all graphs of three plugins and a root, over six edges, cycles
   included; every pubspec that is a mapping one block away from one with a federated
   plugin, the block deleted, shifted or moved, and those with a comment or a map over
   several lines at one key; and every choice of what else a hub is refused for. *)
EXTENDS PubHub

MCUp == ".."
MCHere == "."
TextLine(indent, key, kind, value) == [indent |-> indent, key |-> key, kind |-> kind, value |-> value]
Open(indent, key) == TextLine(indent, key, "open", "")
Value(indent, key, value) == TextLine(indent, key, "scalar", value)
Flow(indent, key, value) == TextLine(indent, key, "flow", value)
Item(indent) == TextLine(indent, "-", "item", "")

Depending(names) ==
    IF names = {} THEN <<Flow(0, "dependencies", NoFields)>>
    ELSE <<Open(0, "dependencies")>>
         \o [i \in 1..Cardinality(names) |-> Value(2, SetToSeq(names)[i], "any")]
Plugin(platforms) == <<Open(0, "flutter"), Open(2, "plugin"), Open(4, "platforms")>> \o platforms

\* Paths.
Paths == { <<"p">>, <<"..", "p">>, <<"..", "..", "p">>, <<"..", "..", "..", "p">>, <<".">>,
           <<".", "..", "p", "..", "q">>, <<"p", "..", "..", "..">>, <<"..", "..", "mod", "app">>,
           <<"..", "..", "..", "external", "mod", "p">>, <<"..", "..", "..", "..", "p">> }
Places == { [dir |-> <<>>, floor |-> 0], [dir |-> <<"apps", "one">>, floor |-> 0],
            [dir |-> <<"external", "mod">>, floor |-> 2],
            [dir |-> <<"external", "mod", "app">>, floor |-> 2] }
PathProjects ==
    { [project |-> at.dir, floor |-> at.floor, root |-> root,
       lock |-> { [name |-> "a", source |-> "path", path |-> path],
                  [name |-> "b", source |-> "hosted", path |-> <<>>] },
       pubspec |-> [n \in {"app", "a", "b"} |-> Depending({"a"} \ {n})],
       unread |-> {}, excluded |-> {"b"}] :
           at \in Places, path \in Paths, root \in {"app", "a"} }

\* Graphs.
Edges == { <<"app", "a">>, <<"app", "b">>, <<"a", "b">>, <<"b", "c">>, <<"c", "a">>, <<"b", "app">> }
PluginOf ==
    [a |-> Plugin(<<Open(6, "android"), Value(8, "default_package", "b"),
                    Flow(6, "web", [pluginClass |-> "AWeb"])>>),
     b |-> Plugin(<<Open(6, "android"), Value(8, "pluginClass", "B"), Value(8, "package", "org.b"),
                    Open(6, "linux"), Value(8, "dartPluginClass", "BLinux")>>),
     c |-> Plugin(<<Open(6, "linux"), Value(8, "ffiPlugin", "true"), Flow(6, "android", NoFields)>>),
     app |-> <<>>]
GraphProjects ==
    { [project |-> <<"app">>, floor |-> 0, root |-> "app",
       lock |-> {[name |-> n, source |-> "sdk", path |-> <<>>] : n \in {"a", "b", "c"}},
       pubspec |-> [n \in {"app", "a", "b", "c"} |->
                       Depending({e[2] : e \in {d \in edges : d[1] = n}} \cup {"gone"})
                       \o PluginOf[n]],
       unread |-> {}, excluded |-> {}] : edges \in SUBSET Edges }

\* PubspecTexts.
PluginText ==
    << Value(0, "name", "a"), Open(0, "dependencies"), Open(2, "flutter"), Value(4, "sdk", "flutter"),
       Value(2, "b", "any"), Open(0, "flutter"), Open(2, "assets"), Item(4), Open(2, "plugin"),
       Value(4, "implements", "x"), Open(4, "platforms"), Open(6, "android"),
       Value(8, "package", "org.a"), Value(8, "pluginClass", "A"),
       Flow(6, "ios", [dartPluginClass |-> "AIos"]), Open(6, "linux"), Value(8, "dartPluginClass", "ALinux"),
       Open(0, "plugin"), Open(2, "platforms"), Value(4, "implements", "y") >>
Blocks == {b \in (1..Len(PluginText)) \X (1..Len(PluginText)) : b[1] <= b[2] /\ b[2] - b[1] < 5}
Before(b) == SubSeq(PluginText, 1, b[1] - 1)
Block(b) == SubSeq(PluginText, b[1], b[2])
After(b) == SubSeq(PluginText, b[2] + 1, Len(PluginText))
Shifted(lines, by) ==
    [i \in DOMAIN lines |->
        [lines[i] EXCEPT !.indent = IF @ + by < 0 THEN 0 ELSE @ + by]]
BlockMoved(b, k) ==
    LET rest == Before(b) \o After(b)
        at   == IF k < Len(rest) THEN k ELSE Len(rest)
    IN  SubSeq(rest, 1, at) \o Block(b) \o SubSeq(rest, at + 1, Len(rest))
Keys == {i \in DOMAIN PluginText : PluginText[i].kind \in {"open", "scalar"}}
CutTexts == {[PluginText EXCEPT ![i].kind = "cut", ![i].value = "{"] : i \in Keys}
PubspecTexts ==
    {PluginText} \cup {Before(b) \o After(b) : b \in Blocks}
    \cup {Before(b) \o Shifted(Block(b), by) \o After(b) : b \in Blocks, by \in {-4, -2, -1, 1, 2, 4}}
    \cup {BlockMoved(b, k) : b \in Blocks, k \in 0..(Len(PluginText) - 1)}
    \cup {[PluginText EXCEPT ![i].kind = "open", ![i].value = "# c"] : i \in Keys}
    \cup {<<Flow(0, "dependencies", [c |-> "any"])>> \o SubSeq(PluginText, 6, Len(PluginText))}
OfText(text) ==
    [project |-> <<>>, floor |-> 0, root |-> "app",
     lock |-> {[name |-> "a", source |-> "hosted", path |-> <<>>]},
     pubspec |-> [app |-> Depending({"a"}), a |-> text], unread |-> {}, excluded |-> {}]
TextProjects == {OfText(text) : text \in {t \in PubspecTexts : IsMapping(t)} \cup CutTexts}

\* Refusals.
DevSections ==
    { <<>>, <<Open(0, "dev_dependencies"), Value(2, "a", "any")>>,
      <<Flow(0, "dev_dependencies", [a |-> "any"])>> }
RefusalProjects ==
    { [OfText(text) EXCEPT !.unread = unread, !.excluded = excluded, !.pubspec["app"] = @ \o dev] :
           text \in {PluginText, <<Flow(0, "dependencies", [c |-> "any"])>>},
           unread \in SUBSET {"app", "a"}, excluded \in {{}, {"a"}, {"gone"}}, dev \in DevSections }

MCProjects == PathProjects \cup GraphProjects \cup TextProjects \cup RefusalProjects
=============================================================================
