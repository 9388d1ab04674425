--------------------------- MODULE HostDriverProofs ---------------------------
(* Proofs about the host driver, for every suite and every interleaving of the
   core with signals, late errors, flushes and exits.                         *)
EXTENDS HostDriver, DriverCoreProofs

(* A written report is final unless it is an interruption, and then only the
   completion can replace it; an exit code 1 has its reason in the report.     *)
ExplainsFailure ==
    /\ report.written /\ ~report.interrupted
    /\ \E k \in DOMAIN report.cases : Failing(report.cases[k])

ReportInv ==
    /\ report.written => finishing
    /\ report.written /\ ~report.interrupted => pc \in {"done", "dead"}
    /\ env.xml /\ (flushing = 1 \/ exitCode = 1) => ExplainsFailure

HostInv == HostTypeOK /\ Busy /\ ReportInv

ReportCase == [name : CaseNames \cup {Suite}, outcome : Outcomes]

LEMMA CompletedType ==
    ASSUME HostTypeOK
    PROVE  Completed \in Seq(Case) /\ Completed \in Seq(ReportCase)
<1>1. [name |-> Load, outcome |-> "error"] \in Case
  BY DEF Case, CaseNames, Outcomes
<1>2. LateCases \in Seq(Case)
  BY <1>1, HostAssumption DEF LateCases, HostTypeOK
<1>3. cases \in Seq(Case)
  BY DEF HostTypeOK, TypeOK
<1>4. Completed \in Seq(Case)
  BY <1>2, <1>3 DEF Completed
<1>5. Case \subseteq ReportCase
  BY DEF Case, ReportCase
<1>. QED BY <1>4, <1>5

LEMMA InterruptedType ==
    ASSUME HostTypeOK
    PROVE  Append(cases, [name |-> IF running = Nothing THEN Suite ELSE running,
                          outcome |-> "error"]) \in Seq(ReportCase)
<1>1. [name |-> IF running = Nothing THEN Suite ELSE running, outcome |-> "error"]
         \in ReportCase
  BY DEF HostTypeOK, TypeOK, ReportCase, Outcomes
<1>2. cases \in Seq(ReportCase)
  <2>1. Case \subseteq ReportCase /\ cases \in Seq(Case)
    BY DEF Case, ReportCase, HostTypeOK, TypeOK
  <2>. QED BY <2>1
<1>. QED BY <1>1, <1>2

LEMMA WriteType2 ==
    ASSUME HostTypeOK, NEW cs \in Seq(ReportCase), NEW b \in BOOLEAN, Write(cs, b)
    PROVE  /\ report' \in Report
           /\ env.xml => report'.written /\ report'.interrupted = b /\ report'.cases = cs
           /\ ~env.xml => report' = report
BY DEF HostTypeOK, Report, Write, ReportCase

LEMMA HostInitInv == HostInit => HostInv
<1>. SUFFICES ASSUME HostInit PROVE HostInv
  OBVIOUS
<1>1. TypeOK /\ Busy
  BY InitType DEF HostInit
<1>2. report \in Report /\ ~report.written
  BY EmptySeq DEF HostInit, Report
<1>3. marker \in BOOLEAN /\ finishing \in BOOLEAN
  BY DEF HostInit, Env
<1>4. late \in 0..MaxLate
  BY HostAssumption DEF HostInit
<1>5. flushing \in {Alive, 0, 1, 143} /\ flushing # 1
      /\ exitCode \in {Alive, 0, 1, 143, Killed} \cup UserCodes /\ exitCode # 1
  BY DEF HostInit, Alive
<1>6. env \in Env
  BY DEF HostInit
<1>. QED BY <1>1, <1>2, <1>3, <1>4, <1>5, <1>6 DEF HostInv, HostTypeOK, ReportInv

(* The steps that leave the core alone. *)
LEMMA QuietStep ==
    ASSUME HostInv, LateError \/ SigtermThrows \/ FlushEnds \/ UserExits \/ Sigkill
    PROVE  HostInv' /\ report' = report
<1>1. UNCHANGED <<vars, env, report, flushing>>
  BY DEF LateError, SigtermThrows, FlushEnds, UserExits, Sigkill
<1>2. TypeOK' /\ Busy'
  BY <1>1 DEF HostInv, HostTypeOK, vars, coreVars, listenVars, TypeOK, Busy, Current
<1>3. late' \in 0..MaxLate
  BY HostAssumption
     DEF LateError, SigtermThrows, FlushEnds, UserExits, Sigkill, HostInv, HostTypeOK
<1>4. finishing' \in BOOLEAN /\ marker' \in BOOLEAN /\ (finishing => finishing')
  BY Zenon
     DEF LateError, SigtermThrows, FlushEnds, UserExits, Sigkill, HostInv, HostTypeOK
<1>5. /\ exitCode' \in {Alive, 0, 1, 143, Killed} \cup UserCodes
      /\ exitCode' = 1 => exitCode = 1 \/ flushing = 1
  BY DEF LateError, SigtermThrows, FlushEnds, UserExits, Sigkill, HostInv, HostTypeOK,
         UserCodes, Killed, Alive
<1>6. pc' = pc
  BY <1>1 DEF vars, coreVars
<1>. QED BY <1>1, <1>2, <1>3, <1>4, <1>5, <1>6
         DEF HostInv, HostTypeOK, ReportInv, ExplainsFailure

LEMMA CoreOrListenerStep ==
    ASSUME HostInv, Listener \/ CoreStep, UNCHANGED hostVars
    PROVE  HostInv' /\ report' = report
<1>1. TypeOK' /\ Busy'
  BY ListenerType, CoreStepType DEF HostInv, HostTypeOK
<1>2. UNCHANGED <<env, finishing, late, report, marker, flushing, exitCode>>
  BY DEF hostVars
<1>3. pc \in {"done", "dead"} => pc' = pc
  BY DEF Listener, DeclarationPrints, SuiteAnswers, RootStrays, BodySays,
         BodyChangesState, BodyCompletes, CoreStep, LoadPrint, LoadFails,
         LoadSucceeds, VisitGroup, PassOver, SkipTest, StartRun, DrainText,
         DrainState, DrainUnknown, DrainSpawn, DrainComplete, Dropped, HookSucceeds,
         HookFails, TestEnds, AllVisited, Drains, AtItem, AtCall, AtEnd, coreVars
<1>. QED BY <1>1, <1>2, <1>3 DEF HostInv, HostTypeOK, ReportInv, ExplainsFailure

LEMMA ExitType ==
    ASSUME HostTypeOK, NEW code \in {0, 1, 143}, NEW s \in {"clean", "written", "bound"},
           ExitAfterFlush(code, s)
    PROVE  /\ marker' \in BOOLEAN /\ sink' \in {"clean", "written", "bound"}
           /\ flushing' \in {Alive, 0, 1, 143} /\ flushing' \in {flushing, code}
           /\ exitCode' \in {Alive, 0, 1, 143, Killed} \cup UserCodes
           /\ exitCode' \in {exitCode, code}
BY DEF HostTypeOK, ExitAfterFlush

LEMMA SigtermStep ==
    ASSUME HostInv, Sigterm
    PROVE  HostInv' /\ ~(report.written /\ ~report.interrupted)
<1>1. HostTypeOK /\ Busy /\ ReportInv
  BY DEF HostInv
<1>2. ~report.written
  BY <1>1 DEF Sigterm, MayInterrupt, ReportInv
<1>3. /\ report' \in Report
      /\ env.xml => report'.written /\ report'.interrupted
      /\ ~env.xml => report' = report
  BY <1>1, InterruptedType, WriteType2 DEF Sigterm
<1>4. /\ marker' \in BOOLEAN /\ sink' \in {"clean", "written", "bound"}
      /\ flushing' \in {Alive, 0, 1, 143} /\ flushing' \in {flushing, 143}
      /\ exitCode' \in {Alive, 0, 1, 143, Killed} \cup UserCodes
      /\ exitCode' \in {exitCode, 143}
  BY <1>1, ExitType DEF Sigterm, HostTypeOK, TypeOK
<1>5. UNCHANGED <<opts, chosen, pc, agenda, result, unsupported, cases, running,
                  wire, listenVars, env, late>> /\ finishing'
  BY DEF Sigterm
<1>6. TypeOK' /\ Busy'
  BY <1>1, <1>4, <1>5 DEF HostTypeOK, TypeOK, Busy, listenVars, Current
<1>7. ~env.xml \/ ~(flushing' = 1 \/ exitCode' = 1)
  BY <1>1, <1>2, <1>4 DEF ReportInv, ExplainsFailure
<1>8. finishing' \in BOOLEAN
  BY DEF Sigterm
<1>. QED BY <1>1, <1>2, <1>3, <1>4, <1>5, <1>6, <1>7, <1>8
         DEF HostInv, HostTypeOK, ReportInv

LEMMA CompleteStep ==
    ASSUME HostInv, Complete \/ CompleteThrows \/ CompleteCannotWrite
    PROVE  HostInv' /\ ~(report.written /\ ~report.interrupted)
<1>1. HostTypeOK /\ Busy /\ ReportInv
  BY DEF HostInv
<1>2. pc = "complete" /\ pc' \in {"done", "dead"}
  BY DEF Complete, CompleteThrows, CompleteCannotWrite
<1>3. ~(report.written /\ ~report.interrupted)
  BY <1>1, <1>2 DEF ReportInv
<1>4. /\ UNCHANGED <<opts, chosen, agenda, result, unsupported, cases, wire,
                     listenVars, env, late>>
      /\ finishing' /\ finishing' \in BOOLEAN
      /\ running' \in {running, Nothing}
  BY DEF Complete, CompleteThrows, CompleteCannotWrite
<1>5. ~ExplainsFailure
  BY <1>3 DEF ExplainsFailure
<1>6. CASE Complete
  <2>. DEFINE s == IF late > 0 /\ sink = "clean" THEN "written" ELSE sink
  <2>1. s \in {"clean", "written", "bound"} /\ CodeOf(Completed) \in {0, 1, 143}
    BY <1>1 DEF HostTypeOK, TypeOK, CodeOf
  <2>2. ExitAfterFlush(CodeOf(Completed), s)
    BY <1>6 DEF Complete
  <2>3. /\ marker' \in BOOLEAN /\ sink' \in {"clean", "written", "bound"}
        /\ flushing' \in {Alive, 0, 1, 143} /\ flushing' \in {flushing, CodeOf(Completed)}
        /\ exitCode' \in {Alive, 0, 1, 143, Killed} \cup UserCodes
        /\ exitCode' \in {exitCode, CodeOf(Completed)}
    <3>. HIDE DEF s
    <3>. QED BY <1>1, <2>1, <2>2, ExitType
  <2>4. /\ report' \in Report
        /\ env.xml => report'.written /\ report'.interrupted = FALSE
                      /\ report'.cases = Completed
        /\ ~env.xml => report' = report
    BY <1>1, <1>6, CompletedType, WriteType2 DEF Complete
  <2>5. TypeOK' /\ Busy'
    BY <1>1, <1>2, <1>4, <2>3 DEF HostTypeOK, TypeOK, Busy, listenVars
  <2>6. env.xml /\ (flushing' = 1 \/ exitCode' = 1) => ExplainsFailure'
    <3>1. SUFFICES ASSUME env.xml, flushing' = 1 \/ exitCode' = 1
                   PROVE  ExplainsFailure'
      OBVIOUS
    <3>2. CodeOf(Completed) = 1
      BY <1>1, <1>5, <2>3, <3>1 DEF ReportInv
    <3>3. \E k \in DOMAIN Completed : Failing(Completed[k])
      BY <3>2 DEF CodeOf
    <3>. QED BY <2>4, <3>1, <3>3 DEF ExplainsFailure, Failing
  <2>. QED BY <1>1, <1>2, <1>3, <1>4, <2>3, <2>4, <2>5, <2>6
           DEF HostInv, HostTypeOK, ReportInv
<1>7. CASE CompleteThrows \/ CompleteCannotWrite
  <2>1. UNCHANGED <<report, marker, flushing, exitCode>>
        /\ sink' \in {"clean", "written", "bound"}
    BY <1>1, <1>7 DEF CompleteThrows, CompleteCannotWrite, HostTypeOK, TypeOK
  <2>2. TypeOK' /\ Busy'
    BY <1>1, <1>2, <1>4, <2>1 DEF HostTypeOK, TypeOK, Busy, listenVars
  <2>. QED BY <1>1, <1>2, <1>3, <1>4, <2>1, <2>2
           DEF HostInv, HostTypeOK, ReportInv, ExplainsFailure
<1>. QED BY <1>3, <1>6, <1>7

LEMMA HostNextInv ==
    HostInv /\ [HostNext]_allVars =>
       /\ HostInv'
       /\ report.written /\ ~report.interrupted => report' = report
<1>. SUFFICES ASSUME HostInv, [HostNext]_allVars
              PROVE  /\ HostInv'
                     /\ report.written /\ ~report.interrupted => report' = report
  OBVIOUS
<1>1. CASE UNCHANGED allVars
  BY <1>1 DEF allVars, vars, coreVars, listenVars, hostVars, HostInv, HostTypeOK, TypeOK,
              Busy, Current, ReportInv, ExplainsFailure
<1>. QED BY <1>1, QuietStep, CoreOrListenerStep, SigtermStep, CompleteStep DEF HostNext

(* Every variable of the host driver keeps its type. *)
THEOREM HostTypeCorrect == HostSpec => []HostTypeOK
<1>1. HostInv => HostTypeOK
  BY DEF HostInv
<1>2. HostInv /\ [HostNext]_allVars => HostInv'
  BY HostNextInv
<1>. QED BY <1>1, <1>2, HostInitInv, PTL DEF HostSpec

(* An exit with code 1 is explained by a failing case of a complete report. *)
THEOREM FailureExplainedCorrect == HostSpec => []FailureExplained
<1>1. HostInv => FailureExplained
  BY DEF HostInv, ReportInv, ExplainsFailure, FailureExplained
<1>2. HostInv /\ [HostNext]_allVars => HostInv'
  BY HostNextInv
<1>. QED BY <1>1, <1>2, HostInitInv, PTL DEF HostSpec

(* Nothing replaces the report of a completed suite: not a SIGTERM during the
   final flush, not a late error, not a failing write. *)
THEOREM CompleteReportStaysCorrect == HostSpec => CompleteReportStays
<1>1. HostInv /\ [HostNext]_allVars => HostInv'
  BY HostNextInv
<1>2. HostInv /\ [HostNext]_allVars =>
         [report.written /\ ~report.interrupted => report' = report]_allVars
  BY HostNextInv
<1>. QED BY <1>1, <1>2, HostInitInv, PTL DEF HostSpec, CompleteReportStays

(* The premature-exit file goes only after the report is in place: a kill, an
   exit() in user code or a failing write never leaves Bazel with neither. *)
THEOREM MarkerGuardsReportCorrect == HostSpec => []MarkerGuardsReport
<1>1. HostInit => MarkerGuardsReport
  BY DEF HostInit, MarkerGuardsReport
<1>2. MarkerGuardsReport /\ [HostNext]_allVars => MarkerGuardsReport'
  <2>. SUFFICES ASSUME MarkerGuardsReport, [HostNext]_allVars
                PROVE  MarkerGuardsReport'
    OBVIOUS
  <2>1. CASE Sigterm \/ Complete
    BY <2>1 DEF Sigterm, Complete, Write, MarkerGuardsReport
  <2>2. CASE \/ LateError \/ SigtermThrows \/ CompleteThrows \/ CompleteCannotWrite
             \/ FlushEnds \/ UserExits \/ Sigkill
             \/ UNCHANGED hostVars \/ UNCHANGED allVars
    <3>1. UNCHANGED <<env, marker, report>>
      BY <2>2 DEF LateError, SigtermThrows, CompleteThrows, CompleteCannotWrite,
         FlushEnds, UserExits, Sigkill, hostVars, allVars
    <3>. QED BY <3>1 DEF MarkerGuardsReport
  <2>. QED BY <2>1, <2>2 DEF HostNext
<1>. QED BY <1>1, <1>2, PTL DEF HostSpec

-----------------------------------------------------------------------------
(* Bazel is never told of a pass that was none.  An exit code 0 that waits for its flush
   is of a suite that is done, in which nothing failed; and once the premature-exit file
   is gone a flush is pending or the process has exited, so that exit() in the user's
   code, which does not interrupt a flush, cannot stand in for it.                     *)

PassIsTrue ==
    /\ pc = "done" /\ finishing
    /\ \A k \in DOMAIN cases : ~Failing(cases[k])
    /\ \A t \in ChosenBy(opts.match, opts.shard) : Reported(<<"test", t>>)
    /\ env.xml => report = [written |-> TRUE, interrupted |-> FALSE, cases |-> cases]

PassInv ==
    /\ sink = "bound" => flushing # Alive
    /\ env.premature /\ ~marker /\ IsAlive => flushing # Alive
    /\ flushing = 0 => PassIsTrue
    /\ env.premature /\ ~marker /\ exitCode = 0 => PassIsTrue

PassHostInv == HostInv /\ ChosenInv /\ PassInv

LEMMA HostInitPass == HostInit => PassHostInv
<1>. SUFFICES ASSUME HostInit PROVE PassHostInv
  OBVIOUS
<1>1. HostInv /\ ChosenInv
  BY HostInitInv, InitChosen DEF HostInit
<1>2. sink = "clean" /\ flushing = Alive /\ (env.premature => marker)
  BY DEF HostInit, Init
<1>. QED BY <1>1, <1>2 DEF PassHostInv, PassInv, Alive

(* What a step leaves alone of a true pass. *)
LEMMA PassStays ==
    ASSUME PassIsTrue, UNCHANGED <<pc, cases, opts, report, env>>, finishing'
    PROVE  PassIsTrue'
BY DEF PassIsTrue, Reported, Failing

LEMMA QuietPass ==
    ASSUME PassHostInv, ~ExitsInFlush,
           LateError \/ SigtermThrows \/ FlushEnds \/ UserExits \/ Sigkill
    PROVE  PassHostInv'
<1>1. HostInv' /\ report' = report
  BY QuietStep DEF PassHostInv
<1>2. /\ UNCHANGED <<vars, env, report, flushing, marker>> /\ IsAlive
      /\ finishing' = finishing \/ finishing'
  BY DEF LateError, SigtermThrows, FlushEnds, UserExits, Sigkill
<1>3. UNCHANGED <<opts, chosen, agenda, cases, pc, sink>>
  BY <1>2 DEF vars, coreVars
<1>4. ChosenInv'
  BY <1>3, SameAccounts DEF PassHostInv
<1>5. PassIsTrue => PassIsTrue'
  <2>1. PassIsTrue => finishing'
    BY <1>2 DEF PassIsTrue
  <2>. QED BY <1>2, <1>3, <2>1, PassStays
<1>6. env.premature /\ ~marker => flushing # Alive
  BY <1>2 DEF PassHostInv, PassInv
<1>7. exitCode' = 0 => UserExits \/ flushing = 0 \/ exitCode = 0
  BY DEF LateError, SigtermThrows, FlushEnds, UserExits, Sigkill, Killed
<1>8. UserExits => flushing = Alive
  BY DEF UserExits
<1>9. exitCode' = 0 /\ env.premature /\ ~marker => PassIsTrue
  BY <1>6, <1>7, <1>8 DEF PassHostInv, PassInv
<1>10. PassInv'
  BY <1>2, <1>3, <1>5, <1>6, <1>9 DEF PassHostInv, PassInv
<1>. QED BY <1>1, <1>4, <1>10 DEF PassHostInv

LEMMA CorePass ==
    ASSUME PassHostInv, IsAlive, Listener \/ CoreStep, UNCHANGED hostVars
    PROVE  PassHostInv'
<1>1. HostInv' /\ TypeOK /\ Busy
  BY CoreOrListenerStep DEF PassHostInv, HostInv, HostTypeOK
<1>2. ChosenInv'
  BY <1>1, ListenerChosen, CoreStepChosen DEF PassHostInv
<1>3. UNCHANGED <<env, finishing, late, report, marker, flushing, exitCode>>
  BY DEF hostVars
<1>4. sink' = "bound" => sink = "bound"
  BY DEF Listener, DeclarationPrints, SuiteAnswers, RootStrays, BodySays,
         BodyChangesState, BodyCompletes, CoreStep, LoadPrint, LoadFails,
         LoadSucceeds, VisitGroup, PassOver, SkipTest, StartRun, DrainText,
         DrainState, DrainUnknown, DrainSpawn, DrainComplete, Dropped, HookSucceeds,
         HookFails, TestEnds, AllVisited, Drains, Finish, WriteThen, coreVars
<1>5. opts' = opts /\ (pc = "done" => pc' = pc /\ cases' = cases)
  BY DEF Listener, DeclarationPrints, SuiteAnswers, RootStrays, BodySays,
         BodyChangesState, BodyCompletes, CoreStep, LoadPrint, LoadFails,
         LoadSucceeds, VisitGroup, PassOver, SkipTest, StartRun, DrainText,
         DrainState, DrainUnknown, DrainSpawn, DrainComplete, Dropped, HookSucceeds,
         HookFails, TestEnds, AllVisited, Drains, AtItem, AtCall, AtEnd, coreVars
<1>6. PassIsTrue => PassIsTrue'
  <2>. SUFFICES ASSUME PassIsTrue PROVE PassIsTrue'
    OBVIOUS
  <2>1. pc = "done" /\ finishing
    BY DEF PassIsTrue
  <2>. QED BY <1>3, <1>5, <2>1, PassStays
<1>7. PassInv'
  BY <1>3, <1>4, <1>6 DEF PassHostInv, PassInv, IsAlive
<1>. QED BY <1>1, <1>2, <1>7 DEF PassHostInv

LEMMA SigtermPass ==
    ASSUME PassHostInv, Sigterm
    PROVE  PassHostInv'
<1>1. HostInv'
  BY SigtermStep DEF PassHostInv
<1>2. UNCHANGED <<opts, chosen, pc, agenda, cases, env>> /\ ~finishing /\ exitCode = Alive
  BY DEF Sigterm, MayInterrupt, IsAlive
<1>3. ChosenInv'
  BY <1>2, SameAccounts DEF PassHostInv
<1>4. ~PassIsTrue
  BY <1>2 DEF PassIsTrue
<1>5. flushing # 0
  BY <1>4 DEF PassHostInv, PassInv
<1>6. sink \in {"clean", "written", "bound"}
  BY DEF PassHostInv, HostInv, HostTypeOK, TypeOK
<1>7. ExitAfterFlush(143, sink)
  BY DEF Sigterm
<1>8. PassInv'
  BY <1>2, <1>5, <1>6, <1>7
     DEF ExitAfterFlush, PassHostInv, PassInv, IsAlive, Alive
<1>. QED BY <1>1, <1>3, <1>8 DEF PassHostInv

LEMMA CompletePass ==
    ASSUME PassHostInv, Complete \/ CompleteThrows \/ CompleteCannotWrite
    PROVE  PassHostInv'
<1>1. HostInv' /\ HostTypeOK
  BY CompleteStep DEF PassHostInv, HostInv
<1>2. /\ UNCHANGED <<opts, chosen, agenda, cases, env>> /\ exitCode = Alive
      /\ pc = "complete" /\ pc' \in {"done", "dead"} /\ finishing'
  BY DEF Complete, CompleteThrows, CompleteCannotWrite, IsAlive
<1>3. ChosenInv'
  BY <1>2, SameAccounts DEF PassHostInv
<1>4. flushing # 0
  BY <1>2 DEF PassHostInv, PassInv, PassIsTrue
<1>5. sink \in {"clean", "written", "bound"}
  BY <1>1 DEF HostTypeOK, TypeOK
<1>6. CASE CompleteThrows \/ CompleteCannotWrite
  <2>1. UNCHANGED <<flushing, marker, exitCode>> /\ (sink' = "bound" => sink = "bound")
    BY <1>6 DEF CompleteThrows, CompleteCannotWrite
  <2>2. PassInv'
    BY <1>2, <1>4, <2>1 DEF PassHostInv, PassInv, IsAlive, Alive
  <2>. QED BY <1>1, <1>3, <2>2 DEF PassHostInv
<1>7. CASE Complete
  <2>. DEFINE s == IF late > 0 /\ sink = "clean" THEN "written" ELSE sink
              code == CodeOf(Completed)
  <2>1. /\ ExitAfterFlush(code, s) /\ Write(Completed, FALSE)
        /\ pc' = IF sink = "bound" THEN "dead" ELSE "done"
    BY <1>7 DEF Complete
  <2>2. code \in {0, 1} /\ s \in {"clean", "written", "bound"}
    BY <1>5 DEF CodeOf
  <2>3. s = "bound" => sink = "bound"
    BY <1>5
  <2>4. ASSUME code = 0, sink # "bound"
        PROVE  PassIsTrue'
    <3>1. \A k \in DOMAIN Completed : ~Failing(Completed[k])
      BY <2>4 DEF CodeOf
    <3>2. late \in Nat /\ cases \in Seq(Case)
      BY <1>1, HostAssumption DEF HostTypeOK, TypeOK
    <3>3. late = 0
      <4>1. SUFFICES ASSUME late # 0 PROVE FALSE
        OBVIOUS
      <4>2. [name |-> Load, outcome |-> "error"] \in Case
        BY DEF Case, CaseNames, Outcomes
      <4>3. LateCases \in Seq(Case) /\ Len(LateCases) = late
            /\ LateCases[1] = [name |-> Load, outcome |-> "error"]
        BY <3>2, <4>1, <4>2 DEF LateCases
      <4>4. /\ Len(cases) + 1 \in DOMAIN Completed
            /\ Completed[Len(cases) + 1] = LateCases[1]
        BY <3>2, <4>1, <4>3 DEF Completed
      <4>. QED BY <3>1, <4>3, <4>4 DEF Failing
    <3>4. Completed = cases
      <4>1. LateCases = <<>>
        BY <3>3 DEF LateCases
      <4>. QED BY <3>2, <4>1 DEF Completed
    <3>5. \A t \in ChosenBy(opts.match, opts.shard) : Reported(<<"test", t>>)
      <4>2. \A r : ~ReportedFailing(r)
        BY <3>1, <3>4 DEF ReportedFailing
      <4>3. ChosenAccounted
        BY ChosenIsAccounted DEF PassHostInv
      <4>4. ChosenBy(opts.match, opts.shard) \subseteq Leaves
        BY <1>1, CoreAssumption DEF HostTypeOK, TypeOK, ChosenBy
      <4>. QED BY <1>2, <4>2, <4>3, <4>4 DEF ChosenAccounted
    <3>6. env.xml => report' = [written |-> TRUE, interrupted |-> FALSE, cases |-> cases]
      BY <2>1, <3>4 DEF Write
    <3>7. pc' = "done" /\ \A k \in DOMAIN cases : ~Failing(cases[k])
      BY <2>1, <2>4, <3>1, <3>4
    <3>. QED BY <1>2, <3>5, <3>6, <3>7 DEF PassIsTrue, Reported, Failing
  <2>. HIDE DEF s, code
  <2>5. PassInv'
    <3>1. sink' = "bound" => flushing' # Alive
      BY <2>1, <2>2, <2>3 DEF ExitAfterFlush, PassHostInv, PassInv, Alive
    <3>2. IsAlive' => flushing' # Alive
      BY <1>2, <2>1, <2>2, <2>3 DEF ExitAfterFlush, PassHostInv, PassInv, Alive, IsAlive
    <3>3. flushing' = 0 \/ exitCode' = 0 => code = 0 /\ s # "bound"
      BY <1>2, <1>4, <2>1, <2>2 DEF ExitAfterFlush, Alive
    <3>4. s # "bound" => sink # "bound"
      BY <1>5 DEF s
    <3>. QED BY <2>4, <3>1, <3>2, <3>3, <3>4 DEF PassInv
  <2>. QED BY <1>1, <1>3, <2>5 DEF PassHostInv
<1>. QED BY <1>6, <1>7

LEMMA HostNextPass ==
    ASSUME ~ExitsInFlush
    PROVE  PassHostInv /\ [HostNext]_allVars => PassHostInv'
<1>. SUFFICES ASSUME PassHostInv, [HostNext]_allVars PROVE PassHostInv'
  OBVIOUS
<1>1. CASE UNCHANGED allVars
  <2>1. HostInv'
    BY <1>1, HostNextInv DEF PassHostInv
  <2>2. /\ UNCHANGED <<opts, chosen, agenda, cases, pc, sink>>
        /\ UNCHANGED <<env, finishing, report, marker, flushing, exitCode>>
    BY <1>1 DEF allVars, vars, coreVars, hostVars
  <2>3. ChosenInv'
    BY <2>2, SameAccounts DEF PassHostInv
  <2>4. PassIsTrue => PassIsTrue'
    BY <2>2 DEF PassIsTrue, Reported, Failing
  <2>5. PassInv'
    BY <2>2, <2>4 DEF PassHostInv, PassInv, IsAlive
  <2>. QED BY <2>1, <2>3, <2>5 DEF PassHostInv
<1>. QED BY <1>1, QuietPass, CorePass, SigtermPass, CompletePass DEF HostNext

(* For every suite and every interleaving of the core with signals, kills, late errors,
   failing writes and exits, unless the user's code calls exit() while stdout is
   flushed: an exit code 0 without the premature-exit file means that every chosen test
   is reported and that nothing failed, and a report says so. *)
THEOREM NoFalsePassCorrect ==
    ASSUME ~ExitsInFlush
    PROVE  HostSpec => []NoFalsePass
<1>1. PassHostInv => NoFalsePass
  BY DEF PassHostInv, PassInv, PassIsTrue, NoFalsePass
<1>2. PassHostInv /\ [HostNext]_allVars => PassHostInv'
  BY HostNextPass
<1>. QED BY <1>1, <1>2, HostInitPass, PTL DEF HostSpec

-----------------------------------------------------------------------------
(* The name an interruption gives.  What the core reads is what runs; a bound stdout, a
   core that is done and one that is dead are of a driver that is finishing, which no
   longer answers a SIGTERM.                                                           *)

NamedInv ==
    /\ pc = "load" => running = Load
    /\ pc = "drain" => running = NameOf(Current)
    /\ sink = "bound" \/ pc \in {"done", "dead"} => finishing

NamedHostInv == HostInv /\ NamedInv

LEMMA InitNamed == HostInit => NamedHostInv
<1>. SUFFICES ASSUME HostInit PROVE NamedHostInv
  OBVIOUS
<1>1. pc = "load" /\ running = Load /\ sink = "clean"
  BY DEF HostInit, Init
<1>. QED BY <1>1, HostInitInv DEF NamedHostInv, NamedInv

LEMMA CoreNamed ==
    ASSUME NamedHostInv, Listener \/ CoreStep, UNCHANGED hostVars
    PROVE  NamedInv'
<1>1. finishing' = finishing
  BY DEF hostVars
<1>2. CASE Listener
  <2>1. UNCHANGED <<pc, running, agenda, sink>>
    BY <1>2 DEF Listener, DeclarationPrints, SuiteAnswers, RootStrays, BodySays,
         BodyChangesState, BodyCompletes, coreVars
  <2>2. Current' = Current
    BY <2>1 DEF Current
  <2>. QED BY <1>1, <2>1, <2>2 DEF NamedHostInv, NamedInv
<1>3. CASE CoreStep
  <2>1. /\ sink' = "bound" => sink = "bound"
        /\ pc' \in {"done", "dead"} => pc = pc' \/ sink = "bound"
    BY <1>3
    DEF CoreStep, LoadPrint, LoadFails, LoadSucceeds, VisitGroup, PassOver, SkipTest,
        StartRun, DrainText, DrainState, DrainUnknown, DrainSpawn, DrainComplete,
        Dropped, HookSucceeds, HookFails, TestEnds, AllVisited, Drains, AtItem, AtCall,
        AtEnd, Finish, WriteThen, coreVars
  <2>2. pc' = "load" => pc = "load" /\ running' = running
    BY <1>3
    DEF CoreStep, LoadPrint, LoadFails, LoadSucceeds, VisitGroup, PassOver, SkipTest,
        StartRun, DrainText, DrainState, DrainUnknown, DrainSpawn, DrainComplete,
        Dropped, HookSucceeds, HookFails, TestEnds, AllVisited, Drains, AtItem, AtCall,
        AtEnd, Finish, WriteThen, coreVars
  <2>3. pc' = "drain" => \/ pc = "drain" /\ running' = running /\ agenda' = agenda
                         \/ running' = NameOf(Current) /\ agenda' = agenda
    BY <1>3
    DEF CoreStep, LoadPrint, LoadFails, LoadSucceeds, VisitGroup, PassOver, SkipTest,
        StartRun, NowRunning, DrainText, DrainState, DrainUnknown, DrainSpawn,
        DrainComplete, Dropped, HookSucceeds, HookFails, TestEnds, AllVisited, Drains,
        AtItem, AtCall, AtEnd, Finish, WriteThen, coreVars
  <2>4. agenda' = agenda => Current' = Current
    BY DEF Current
  <2>. QED BY <1>1, <2>1, <2>2, <2>3, <2>4 DEF NamedHostInv, NamedInv
<1>. QED BY <1>2, <1>3

LEMMA HostNextNamed ==
    NamedHostInv /\ [HostNext]_allVars =>
       /\ NamedHostInv'
       /\ ~report.interrupted /\ report'.interrupted =>
             report'.cases[Len(report'.cases)].name =
                IF pc = "drain" THEN NameOf(Current) ELSE Load
<1>. SUFFICES ASSUME NamedHostInv, [HostNext]_allVars
              PROVE  /\ NamedInv'
                     /\ ~report.interrupted /\ report'.interrupted =>
                           report'.cases[Len(report'.cases)].name =
                              IF pc = "drain" THEN NameOf(Current) ELSE Load
  BY HostNextInv DEF NamedHostInv
<1>1. HostInv /\ HostTypeOK /\ NamedInv
  BY DEF NamedHostInv, HostInv
<1>2. CASE UNCHANGED allVars
  <2>1. UNCHANGED <<pc, running, agenda, sink, finishing, report>>
    BY <1>2 DEF allVars, vars, coreVars, hostVars
  <2>2. NamedInv'
    <3>1. Current' = Current
      BY <2>1 DEF Current
    <3>. QED BY <1>1, <2>1, <3>1 DEF NamedInv
  <2>3. report' = report
    BY <2>1
  <2>. QED BY <2>2, <2>3, Zenon
<1>3. CASE LateError \/ SigtermThrows \/ FlushEnds \/ UserExits \/ Sigkill
  <2>1. report' = report
    BY <1>1, <1>3, QuietStep
  <2>2. UNCHANGED vars /\ (finishing => finishing')
    <3>1. UNCHANGED vars /\ (finishing' = finishing \/ finishing')
      BY <1>3 DEF LateError, SigtermThrows, FlushEnds, UserExits, Sigkill
    <3>2. finishing \in BOOLEAN
      BY <1>1 DEF HostTypeOK
    <3>. QED BY <3>1, <3>2
  <2>3. UNCHANGED <<pc, running, agenda, sink>>
    BY <2>2 DEF vars, coreVars
  <2>4. NamedInv'
    <3>1. Current' = Current
      BY <2>3 DEF Current
    <3>. QED BY <1>1, <2>2, <2>3, <3>1 DEF NamedInv
  <2>. QED BY <2>1, <2>4, Zenon
<1>4. CASE (Listener \/ CoreStep) /\ UNCHANGED hostVars
  BY <1>4, CoreNamed DEF hostVars
<1>5. CASE Sigterm
  <2>1. /\ UNCHANGED <<pc, agenda, running, cases>> /\ finishing'
        /\ pc \in {"load", "drain", "done", "dead"} /\ ~finishing
        /\ Write(Append(cases, [name |-> IF running = Nothing THEN Suite ELSE running,
                                outcome |-> "error"]), TRUE)
    BY <1>5 DEF Sigterm, Yields, MayInterrupt
  <2>2. Current' = Current
    BY <2>1 DEF Current
  <2>3. IF pc = "drain" THEN running = NameOf(Current) ELSE running = Load
    BY <1>1, <2>1 DEF NamedInv
  <2>4. running # Nothing
    <3>1. pc = "drain" => Current \in Item /\ Current.kind # "group"
      BY <1>1 DEF HostInv, Busy, HostTypeOK, TypeOK, Current
    <3>2. pc = "drain" => NameOf(Current) \in Runs
      BY <3>1, NameOfType
    <3>3. Load # Nothing /\ Nothing \notin Runs
      BY DEF Load, Nothing, Runs
    <3>. QED BY <2>3, <3>2, <3>3
  <2>5. ASSUME ~report.interrupted, report'.interrupted
        PROVE  report'.cases[Len(report'.cases)].name = running
    <3>. DEFINE c == [name |-> running, outcome |-> "error"]
    <3>1. Write(Append(cases, c), TRUE)
      BY <2>1, <2>4
    <3>2. report'.cases = Append(cases, c)
      BY <2>5, <3>1 DEF Write
    <3>3. cases \in Seq(Case)
      BY <1>1 DEF HostTypeOK, TypeOK
    <3>4. Append(cases, c)[Len(Append(cases, c))] = c
      BY <3>3
    <3>. QED BY <3>2, <3>4
  <2>. QED BY <1>1, <2>1, <2>2, <2>3, <2>5 DEF NamedInv
<1>6. CASE Complete \/ CompleteThrows \/ CompleteCannotWrite
  <2>1. finishing' /\ pc' \in {"done", "dead"}
    BY <1>6 DEF Complete, CompleteThrows, CompleteCannotWrite
  <2>2. report' = report \/ report'.interrupted = FALSE
    BY <1>6 DEF Complete, CompleteThrows, CompleteCannotWrite, Write
  <2>. QED BY <2>1, <2>2 DEF NamedInv
<1>. QED BY <1>2, <1>3, <1>4, <1>5, <1>6 DEF HostNext

(* For every suite and every interleaving: the report that a SIGTERM writes ends with what
   was running, the run the core reads or the load. *)
THEOREM InterruptionNamedCorrect == HostSpec => InterruptionNamed
<1>1. NamedHostInv /\ [HostNext]_allVars => NamedHostInv'
  BY HostNextNamed
<1>2. NamedHostInv /\ [HostNext]_allVars =>
         [~report.interrupted /\ report'.interrupted =>
             report'.cases[Len(report'.cases)].name =
                IF pc = "drain" THEN NameOf(Current) ELSE Load]_allVars
  BY HostNextNamed
<1>. QED BY <1>1, <1>2, InitNamed, PTL DEF HostSpec, InterruptionNamed

=============================================================================
