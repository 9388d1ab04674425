---------------------------- MODULE MCHostDriver ----------------------------
(* HostDriver on a suite of one group with a tearDownAll and two tests.        *)
EXTENDS HostDriver

CONSTANTS root, a, b

MCGroups  == {root}
MCLeaves  == {a, b}
MCEntries == [g \in MCGroups |-> <<a, b>>]

(* All tests, one of them skipped, and none. *)
MCOptions ==
    {[match |-> {a, b}, shard |-> <<0, 1>>, skip |-> {}, testOn |-> TRUE],
     [match |-> {a, b}, shard |-> <<1, 2>>, skip |-> {b}, testOn |-> TRUE],
     [match |-> {}, shard |-> <<0, 1>>, skip |-> {}, testOn |-> TRUE]}
=============================================================================
