SPECIFICATION Spec
CONSTANTS
    g1 = g1
    f1 = f1
    f2 = f2
    first = first
    both = both
    Selections <- MCSelections
    All = both
    Suite <- MCSuite
    GivenIds <- MCGiven
    FreshIds <- MCFresh
    CutId = CutId
    NoId = NoId
    NoSelection = NoSelection
    Chunks <- MCChunks
    MaxLaunches = 2
    MaxFaults = 1
    MayStop = TRUE
SYMMETRY MCSymmetry
INVARIANTS
    DecodesTheRun
    RunsWhatWasAsked
\* The runner may launch no more.
CHECK_DEADLOCK FALSE
