------------------------------ MODULE MCPubLock ------------------------------
(* A lock of pub's shape with one hosted and one SDK package, one with a path
   package, and every text two edits away from them: a line moved, repeated,
   indented or changed, and then one dropped; in the smaller one also moved, and then
   one indented; and values that are quoted or have a comment behind them. *)
EXTENDS PathDeps, SequencesExt

E(indent, key, value) ==
    [form |-> "entry", indent |-> indent, key |-> key, value |-> value,
     style |-> "plain"]

Pub == << E(0, "packages", ""),
          E(2, "a", ""),
            E(4, "dependency", "direct main"),
            E(4, "description", ""),
              E(6, "name", "a"), E(6, "sha256", "5ha"), E(6, "url", "https"),
            E(4, "source", "hosted"), E(4, "version", "1"),
          E(2, "b", ""),
            E(4, "description", "flutter"), E(4, "source", "sdk"),
          E(0, "sdks", ""),
            E(2, "dart", "any") >>

PubPath == << E(0, "packages", ""),
              E(2, "b", ""),
                E(4, "description", ""),
                  E(6, "path", "b"), E(6, "relative", "true"),
                E(4, "source", "path") >>

\* A second path package behind it, without a path of its own when that line is dropped.
PubPaths == PubPath \o
            << E(2, "a", ""),
                E(4, "description", ""),
                  E(6, "path", "a"), E(6, "relative", "true"),
                E(4, "source", "path") >>

Moved(s)    == {InsertAt(RemoveAt(s, i), j, s[i]) : i, j \in 1..Len(s)}
Repeated(s) == {InsertAt(s, j, s[i]) : i, j \in 1..Len(s)}
Indented(s) == {[s EXCEPT ![i].indent = n] : i \in 1..Len(s), n \in {0, 2, 4, 6}}
Dropped(s)  == {RemoveAt(s, i) : i \in 1..Len(s)}
Changed(s)  ==
         {[s EXCEPT ![i].value = v] : i \in 1..Len(s),
              v \in {"", "{}", "a", "b", "hosted", "path", "git", "any"}}
    \cup {[s EXCEPT ![i].value = "''", ![i].style = st] : i \in 1..Len(s),
              st \in {"single", "double"}}
    \cup {[s EXCEPT ![i].key = k] : i \in 1..Len(s),
              k \in {"a", "b", "description", "relative", "sha256"}}
Styled(s) == {[s EXCEPT ![i].style = st] : i \in {k \in 1..Len(s) : s[k].value # ""},
                                           st \in Styles}
Other(s) == {InsertAt(s, i, [form |-> f]) : i \in 1..Len(s),
                                            f \in {"blank", "unreadable"}}

Edited(s) == Moved(s) \cup Repeated(s) \cup Indented(s) \cup Changed(s)
Near(s)    == Edited(s) \cup Other(s)
ThenDropped(s) == {RemoveAt(t, i) : t \in Edited(s), i \in 1..Len(s)}
ThenIndented(s) ==
    {[t EXCEPT ![i].indent = n] : t \in Moved(s), i \in 1..Len(s), n \in {0, 2, 4, 6}}
MCTexts ==
    Near(PubPath) \cup Dropped(PubPaths) \cup Moved(PubPaths) \cup Changed(PubPaths)
    \cup Styled(PubPaths) \cup UNION {Styled(t) : t \in Styled(PubPath) \cup Moved(PubPath)}
    \cup Near(Pub) \cup ThenIndented(PubPath) \cup ThenDropped(PubPath) \cup ThenDropped(Pub)

MCWords == STRING
MCPackageNames == {"a", "b"}
MCVersions == {"1"}
MCDigests == {"5ha"}
MCServers == {"https"}
MCMalformed == {"{}"}
=============================================================================
