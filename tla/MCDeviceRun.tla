----------------------------- MODULE MCDeviceRun ------------------------------
(* DeviceRun with a suite of two tests and a filter that selects the first, two
   launches and one fault of the capture.  A case takes two frames. *)
EXTENDS DeviceRun, TLC

CONSTANTS g1, f1, f2, first, both

MCSelections == {first, both}
MCSuite  == (first :> <<"pass">>) @@ (both :> <<"pass", "skip">>)
MCGiven  == {g1}
MCFresh  == {f1, f2}
MCSymmetry == Permutations(MCFresh)
MCChunks == [t \in Types |-> IF t = "case" THEN 2 ELSE 1]
=============================================================================
