---------------------------- MODULE MCDriverCore ----------------------------
(* DriverCore on a suite of two groups and three tests:
       root (setUpAll, tearDownAll): a, inner, c
       inner (setUpAll, tearDownAll): b                                       *)
EXTENDS DriverCore

CONSTANTS root, inner, a, b, c

MCGroups  == {root, inner}
MCLeaves  == {a, b, c}
MCEntries == [g \in MCGroups |-> IF g = root THEN <<a, inner, c>> ELSE <<b>>]

Run(match, shard, skip, testOn) ==
    [match |-> match, shard |-> shard, skip |-> skip, testOn |-> testOn]

(* All tests; a filter that leaves inner without a chosen test; a shard of the
   three tests, which two shards split unevenly; a skipped test; a skipped group;
   a library whose testOn does not match; nothing to run. *)
MCOptions ==
    {Run({a, b, c}, <<0, 1>>, {}, TRUE),
     Run({a, c},    <<0, 1>>, {}, TRUE),
     Run({a, b, c}, <<1, 2>>, {}, TRUE),
     Run({a, b, c}, <<0, 1>>, {a}, TRUE),
     Run({a, b, c}, <<0, 1>>, {inner}, TRUE),
     Run({b, c},    <<0, 1>>, {}, FALSE),
     Run({},        <<0, 2>>, {}, TRUE)}
=============================================================================
