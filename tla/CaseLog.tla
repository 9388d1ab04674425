------------------------------- MODULE CaseLog -------------------------------
(* What a reader of a test report relies on, whatever the driver does inside:
   the report is a log that only grows, that names each position of the suite's
   plan at most once and in the plan's order, and a suite that failed to load
   reports that and nothing else.                                             *)
EXTENDS Integers, Sequences

CONSTANTS Plan,       \* a sequence of names, without repetition
          LoadCase,   \* the case of a suite that failed to load
          OutcomeSet

VARIABLE log

Init == log = <<>>

(* The plan position i comes after every position the log already names. *)
Later(i) == \A k \in 1..Len(log) : \A j \in i..Len(Plan) : log[k].name # Plan[j]

Report ==
    /\ log # <<LoadCase>>
    /\ \E i \in 1..Len(Plan), o \in OutcomeSet :
          /\ Later(i)
          /\ log' = Append(log, [name |-> Plan[i], outcome |-> o])

FailToLoad ==
    /\ log = <<>>
    /\ log' = <<LoadCase>>

Next == Report \/ FailToLoad

Spec == Init /\ [][Next]_log
=============================================================================
