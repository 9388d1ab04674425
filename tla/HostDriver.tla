------------------------------ MODULE HostDriver ------------------------------
(* The host driver (test/driver/host.dart): it runs the driver core inside
   flutter_tester under `bazel test`, writes the JUnit report and exits.

   The core, the SIGTERM handler, the end of the stdout flush, late errors of
   the user's code and a call of exit() in it are events of one isolate; they
   interleave between any two steps of the core.  A handler runs to its end
   without interruption, so the report's temporary file and rename are one step
   that either happens or throws.  Bazel, outside the repository, fails a test
   that exits with another code than 0 or leaves the premature-exit file.      *)
EXTENDS DriverCore

CONSTANTS
    MaxLate,         \* bound: errors raised after the declaration
    WritesMayFail,   \* writing the report may throw
    ExitsInFlush     \* user code may call exit() while stdout is flushed

ASSUME HostAssumption ==
    /\ MaxLate \in Nat
    /\ WritesMayFail \in BOOLEAN /\ ExitsInFlush \in BOOLEAN

VARIABLES
    env,             \* whether XML_OUTPUT_FILE and the premature-exit file are set
    finishing,       \* the flag of the same name
    late,            \* the number of lateErrors
    report,          \* the file at XML_OUTPUT_FILE
    marker,          \* the premature-exit file exists
    flushing,        \* the exit code that waits for the flush, or Alive
    exitCode         \* the exit code, or Alive

hostVars == <<env, finishing, late, report, marker, flushing, exitCode>>
allVars  == <<vars, hostVars>>

Alive     == -1
Killed    == 137
UserCodes == {0, 7}

Suite  == <<"suite", Root>>       \* the name of an interruption between cases
Report == [written : BOOLEAN, interrupted : BOOLEAN,
           cases : Seq([name : CaseNames \cup {Suite}, outcome : Outcomes])]

Env == [xml : BOOLEAN, premature : BOOLEAN]

HostInit ==
    /\ Init
    /\ env \in Env
    /\ finishing = FALSE /\ late = 0
    /\ report = [written |-> FALSE, interrupted |-> FALSE, cases |-> <<>>]
    /\ marker = env.premature
    /\ flushing = Alive /\ exitCode = Alive

-----------------------------------------------------------------------------
IsAlive == exitCode = Alive

(* The core waits for the listener, or has ended.  Between its other steps it
   awaits futures that need no event, so signals and the end of a flush, which
   are events, come only here ("handled only when the isolate yields").  User
   code runs in microtasks too. *)
Yields == pc \in {"load", "drain", "done", "dead"}

(* guarded(): an error of the user's code once the suite is declared. *)
LateError ==
    /\ IsAlive /\ declared /\ late < MaxLate
    /\ late' = late + 1
    /\ UNCHANGED <<vars, env, finishing, report, marker, flushing, exitCode>>

(* Its cases in the report. *)
LateCases == [k \in 1..late |-> [name |-> Load, outcome |-> "error"]]

(* _writeReport, when it does not throw. *)
Write(cs, interrupted) ==
    report' = IF env.xml THEN [written |-> TRUE, interrupted |-> interrupted,
                               cases |-> cs]
              ELSE report

(* _exitAfterFlush, with stdout in state s: a second flush throws while the
   first is pending, and a stdout nobody has written to is flushed at once.
   Mutant: the exit waits for a flush that never ends on an unused stdout. *)
ExitAfterWrittenFlush(code, s) ==
    /\ marker' = FALSE
    /\ flushing' = IF s = "written" THEN code ELSE flushing
    /\ exitCode' = exitCode
    /\ sink' = IF s = "written" THEN "bound" ELSE s

ExitAfterFlush(code, s) ==
    /\ marker' = FALSE
    /\ flushing' = IF s = "written" THEN code ELSE flushing
    /\ exitCode' = IF s = "clean" THEN code ELSE exitCode
    /\ sink' = IF s = "written" THEN "bound" ELSE s

(* The SIGTERM handler returns at once when `finishing` is set.  Mutant: it
   does not look. *)
MayAlwaysInterrupt == TRUE
MayInterrupt == ~finishing

Sigterm ==
    /\ IsAlive /\ Yields /\ MayInterrupt
    /\ finishing' = TRUE
    /\ Write(Append(cases, [name |-> IF running = Nothing THEN Suite ELSE running,
                            outcome |-> "error"]), TRUE)
    /\ ExitAfterFlush(143, sink)
    /\ UNCHANGED <<opts, chosen, pc, agenda, result, unsupported, cases, running,
                   wire, listenVars, env, late>>

(* The exit code of a completed suite.  Mutants: errors do not count, skips
   count, the number of failing cases. *)
CodeOfFails(cs) == IF \E k \in DOMAIN cs : cs[k].outcome = "fail" THEN 1 ELSE 0
CodeOfNotPassed(cs) == IF \E k \in DOMAIN cs : cs[k].outcome # "pass" THEN 1 ELSE 0
CodeByCount(cs) == Cardinality({k \in DOMAIN cs : Failing(cs[k])})
CodeOf(cs) == IF \E k \in DOMAIN cs : Failing(cs[k]) THEN 1 ELSE 0

(* onComplete.  It does not look at `finishing`. *)
Completed == cases \o LateCases

Complete ==
    /\ IsAlive /\ pc = "complete"
    /\ late = 0 \/ sink # "bound"
    /\ finishing' = TRUE
    /\ running' = IF late = 0 THEN running ELSE Nothing
    /\ Write(Completed, FALSE)
    /\ ExitAfterFlush(CodeOf(Completed),
                      IF late > 0 /\ sink = "clean" THEN "written" ELSE sink)
    /\ pc' = IF sink = "bound" THEN "dead" ELSE "done"
    /\ UNCHANGED <<opts, chosen, agenda, result, unsupported, cases, wire,
                   listenVars, env, late>>

(* onComplete, when printing the first late error throws: stdout is bound. *)
CompleteThrows ==
    /\ IsAlive /\ pc = "complete" /\ late > 0 /\ sink = "bound"
    /\ finishing' = TRUE /\ running' = Nothing /\ pc' = "dead"
    /\ UNCHANGED <<opts, chosen, agenda, result, unsupported, cases, sink, wire,
                   listenVars, env, late, report, marker, flushing, exitCode>>

(* The report cannot be written: the SIGTERM handler, or onComplete, throws
   before it exits.  Mutant: the premature-exit file is removed first. *)
SigtermThrowsLate ==
    /\ WritesMayFail /\ IsAlive /\ Yields /\ env.xml /\ MayInterrupt
    /\ finishing' = TRUE /\ marker' = FALSE
    /\ UNCHANGED <<vars, env, late, report, flushing, exitCode>>

SigtermThrows ==
    /\ WritesMayFail /\ IsAlive /\ Yields /\ env.xml /\ MayInterrupt
    /\ finishing' = TRUE
    /\ UNCHANGED <<vars, env, late, report, marker, flushing, exitCode>>

CompleteCannotWrite ==
    /\ WritesMayFail /\ IsAlive /\ env.xml /\ pc = "complete"
    /\ late = 0 \/ sink # "bound"
    /\ finishing' = TRUE /\ pc' = "dead"
    /\ running' = IF late = 0 THEN running ELSE Nothing
    /\ sink' = IF late > 0 /\ sink = "clean" THEN "written" ELSE sink
    /\ UNCHANGED <<opts, chosen, agenda, result, unsupported, cases, wire,
                   listenVars, env, late, report, marker, flushing, exitCode>>

FlushEnds ==
    /\ IsAlive /\ Yields /\ flushing # Alive
    /\ exitCode' = flushing
    /\ UNCHANGED <<vars, env, finishing, late, report, marker, flushing>>

(* exit() in the user's code: main(), a test, or a callback of either. *)
UserExits ==
    /\ IsAlive /\ (flushing # Alive => ExitsInFlush)
    /\ exitCode' \in UserCodes
    /\ UNCHANGED <<vars, env, finishing, late, report, marker, flushing>>

(* SIGKILL, e.g. when Bazel's grace period ends. *)
Sigkill ==
    /\ IsAlive /\ exitCode' = Killed
    /\ UNCHANGED <<vars, env, finishing, late, report, marker, flushing>>

HostNext ==
    \/ IsAlive /\ (Listener \/ CoreStep) /\ UNCHANGED hostVars
    \/ LateError \/ Sigterm \/ SigtermThrows
    \/ Complete \/ CompleteThrows \/ CompleteCannotWrite
    \/ FlushEnds \/ UserExits \/ Sigkill

HostSpec == HostInit /\ [][HostNext]_allVars

(* The event loop serves the core and the flush; test_api's timeouts complete
   what runs.  No signal and no exit() is ever owed. *)
HostFairSpec ==
    /\ HostSpec
    /\ WF_allVars(IsAlive /\ CoreStep /\ UNCHANGED hostVars)
    /\ WF_allVars(IsAlive /\ SuiteAnswers /\ UNCHANGED hostVars)
    /\ \A r \in Runs : WF_allVars(IsAlive /\ BodyCompletes(r) /\ UNCHANGED hostVars)
    /\ WF_allVars(Complete \/ CompleteThrows)
    /\ WF_allVars(FlushEnds)

-----------------------------------------------------------------------------
HostTypeOK ==
    /\ TypeOK
    /\ env \in Env /\ finishing \in BOOLEAN /\ late \in 0..MaxLate
    /\ report \in Report /\ marker \in BOOLEAN
    /\ flushing \in {Alive, 0, 1, 143}
    /\ exitCode \in {Alive, 0, 1, 143, Killed} \cup UserCodes

(* Bazel passes the test only if it ran: exit code 0 without the premature-exit
   file means that every chosen test is reported, that no case and no late error
   failed, and that the report says so. *)
NoFalsePass ==
    env.premature /\ exitCode = 0 /\ ~marker =>
       /\ \A k \in DOMAIN cases : ~Failing(cases[k])
       /\ \A t \in ChosenBy(opts.match, opts.shard) : Reported(<<"test", t>>)
       /\ env.xml => report = [written |-> TRUE, interrupted |-> FALSE,
                               cases |-> cases]

(* The premature-exit file goes only after the report is in place: a kill, an
   exit() or a failed write never leaves Bazel with neither. *)
MarkerGuardsReport ==
    env.premature /\ env.xml => marker \/ report.written

(* An exit of the driver with code 1 is explained by the report: a failing case
   that is not an interruption. *)
FailureExplained ==
    env.xml /\ exitCode = 1 =>
       /\ report.written /\ ~report.interrupted
       /\ \E k \in DOMAIN report.cases : Failing(report.cases[k])

(* A SIGTERM during the final flush cannot replace a complete report (the
   comment on `finishing`), nor can anything else. *)
CompleteReportStays ==
    [][report.written /\ ~report.interrupted => report' = report]_allVars

(* The interruption names what was running: the run the core reads, hook or
   test, or `load` before the suite has loaded. *)
InterruptionNamed ==
    [][~report.interrupted /\ report'.interrupted =>
         report'.cases[Len(report'.cases)].name =
            IF pc = "drain" THEN NameOf(Current) ELSE Load]_allVars

(* The driver exits: after the suite, or after the SIGTERM it has answered, in
   every interleaving of the two; unless the report could not be written. *)
CannotReport == finishing /\ env.xml /\ ~report.written
Exits == <>(exitCode # Alive \/ CannotReport)

(* A call of exit() in the user's code leaves the premature-exit file behind
   (the comment at its creation). *)
UserExitLeavesMarker ==
    env.premature /\ exitCode \in UserCodes \ {0} => marker

(* On SIGTERM the driver writes the report so far and exits 143 (hostMain's
   comment, C17): an exit with 143 leaves the interrupted report. *)
SigtermReported ==
    exitCode = 143 /\ env.xml => report.interrupted
=============================================================================
