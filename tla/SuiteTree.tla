------------------------------ MODULE SuiteTree ------------------------------
(* The suite a Flutter test library declares, as the driver core receives it
   from the listener: a tree of groups and tests.  The tree is the parameter;
   the choice of the tests that run (name filter, then shard slice) and the
   declaration order are computed from it.

   A position of the tree that can run or be reported has a name, a pair of its
   kind and its node: <<"test", t>>, <<"setUp", g>>, <<"tearDown", g>>.        *)
EXTENDS Integers, Sequences, FiniteSets, SequencesExt, Selection

CONSTANTS
    Groups,       \* the groups, the root among them
    Leaves,       \* the tests
    Root,         \* the group the listener sends as 'root'
    Entries,      \* the declared entries of each group, in order
    SetUpOf,      \* the groups with a setUpAll
    TearDownOf    \* the groups with a tearDownAll

Nodes == Groups \cup Leaves

ASSUME SuiteAssumption ==
    /\ Root \in Groups
    /\ Groups \cap Leaves = {}
    /\ Entries \in [Groups -> Seq(Nodes)]
    /\ SetUpOf \subseteq Groups
    /\ TearDownOf \subseteq Groups

(* Everything under a group, at any depth. *)
Below[g \in Groups] ==
    UNION {{Entries[g][i]} \cup
           (IF Entries[g][i] \in Groups THEN Below[Entries[g][i]] ELSE {}) :
           i \in 1..Len(Entries[g])}

(* An entry with what is under it. *)
Subtree(e) == {e} \cup (IF e \in Groups THEN Below[e] ELSE {})

(* The suite is a tree: what is under a group is its entries' subtrees, which
   hold neither the group nor anything in common. *)
ASSUME TreeAssumption ==
    \A g \in Groups :
       /\ Below[g] = UNION {Subtree(Entries[g][i]) : i \in 1..Len(Entries[g])}
       /\ g \notin Below[g]
       /\ \A i, j \in 1..Len(Entries[g]) :
             i # j => Subtree(Entries[g][i]) \cap Subtree(Entries[g][j]) = {}

(* The suite is what the listener sends as 'root' and what it holds. *)
ASSUME RootAssumption == IsFiniteSet(Groups) /\ Nodes = Subtree(Root)

(* What the driver can ask the listener to run. *)
Runs == ({"test"} \X Leaves) \cup ({"setUp"} \X SetUpOf)
                             \cup ({"tearDown"} \X TearDownOf)

Load      == <<"load", Root>>     \* the case of a suite that failed to load
Nothing   == <<"none", Root>>     \* no case is running
CaseNames == Runs \cup {Load}

(* Results of a run, as the listener's state-change messages carry them, and
   outcomes of a case, as the driver reports them. *)
Results  == {"success", "skipped", "failure", "error"}
Outcomes == {"pass", "skip", "fail", "error"}
Case     == [name : CaseNames, outcome : Outcomes]
Failing(c) == c.outcome \in {"fail", "error"}

-----------------------------------------------------------------------------
(* The leaves of a group in declaration order: collect() of _choose.          *)
LeavesIn[g \in Groups] ==
    FlattenSeq([i \in 1..Len(Entries[g]) |->
                    IF Entries[g][i] \in Groups THEN LeavesIn[Entries[g][i]]
                                                ELSE <<Entries[g][i]>>])

(* num.round() of the quotient n / d: the half goes up.  Mutant of the slice: its
   length is the rounded quotient, so that the last test may be in no shard. *)
Rounded(n, d) == (2 * n + d) \div (2 * d)

SliceStart(n, index, count) == Rounded(n * index, count)
EndByLength(n, index, count) == SliceStart(n, index, count) + n \div count
SliceEnd(n, index, count) == Rounded(n * (index + 1), count)

(* A name filter is the set of leaves whose name it matches; a shard is
   <<index, count>>, and <<0, 1>> stands for "no shard", which selects all.   *)
ChosenBy(match, shard) ==
    LET named == Filtered(LeavesIn[Root], match)
        n     == Len(named)
        slice == SubSeq(named, SliceStart(n, shard[1], shard[2]) + 1,
                               SliceEnd(n, shard[1], shard[2]))
    IN  {t \in match : t \in ToSet(slice)}

(* Whether a chosen leaf lies under a group, at any depth.  Mutant: whether any
   leaf does. *)
HasLeaf(g, chosen) == Below[g] \cap Leaves # {}
HasChosen(g, chosen) == \E t \in chosen : t \in Below[g]

(* The groups that hold a node, itself excluded. *)
Ancestors(t) == {g \in Groups : t \in Below[g]}

(* Every name the suite can report, in the order the driver would reach it. *)
PlanOf[g \in Groups] ==
       (IF g \in SetUpOf THEN << <<"setUp", g>> >> ELSE <<>>)
    \o FlattenSeq([i \in 1..Len(Entries[g]) |->
                       IF Entries[g][i] \in Groups THEN PlanOf[Entries[g][i]]
                                       ELSE << <<"test", Entries[g][i]>> >>])
    \o (IF g \in TearDownOf THEN << <<"tearDown", g>> >> ELSE <<>>)
=============================================================================
