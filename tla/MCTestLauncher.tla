---------------------------- MODULE MCTestLauncher ----------------------------
(* A package at the root or below it and a tree of four levels, with directories and
   files that have their parent's name; directories to materialize beside, inside and
   above each other, twice, outside, or with nothing declared in them. *)
EXTENDS TestLauncher

MCConfigName == "config"
MCParentName == ".."
T == <<"p", "t", "x">>
Configs == { <<"config">>, <<"p", "config">>, <<"p", "t", "config">> }
Data ==
    { <<"p", "pubspec">>, <<"p", "t", "a", "f">>, <<"p", "t", "a", "b", "g">>,
      <<"p", "t", "b", "b">>, <<"p", "t", "h">>, <<"p", "a", "a", "f">>, <<"p", "a", "f">> }
Unread == { T, <<"p", "t", "a", "u">>, <<"p", "t", "a", "b", "v">>, <<"p", "w">> }
A  == <<"t", "a">>
B  == <<"t", "a", "b">>
C  == <<"t", "b">>
A2 == <<"a">>
AA == <<"a", "a">>
DirLists ==
    { <<>>, <<A>>, <<B>>, <<A2>>, <<A, A2>>, <<AA, B>>, <<B, A>>, <<A, A>>, <<AA, AA>>,
      <<C, C>>, <<C, B, A2>>, << <<"gone">> >>, << <<"t">> >>, << <<MCParentName, "p">> >>, << <<>> >> }
MCTests ==
    [test : {T}, pkg : {<<"p">>}, srcs : {{T} \cup c : c \in SUBSET Configs},
     prunable : {{}}, data : {Data}, dirs : DirLists, mode : {"copy"}]
    \cup [test : {T}, pkg : {<<"p">>}, srcs : {{}},
          prunable : {Unread, Unread \cup {<<"p", "config">>, <<"p", "t", "a", "config">>}},
          data : {Data}, dirs : DirLists, mode : {"copy", "clone", "hardlink"}]
    \cup [test : {T}, pkg : {<<>>, <<"q">>}, srcs : {Configs}, prunable : {Unread},
          data : {Data}, mode : {"copy", "hardlink"},
          dirs : {<<>>, << <<"p", "t">> >>, << <<"p", "t", "a">>, <<"p", "a">> >>}]
=============================================================================
