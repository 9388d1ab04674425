------------------------------ MODULE DriverCore ------------------------------
(* The driver core (test/driver/core.dart): it runs one suite behind a
   RemoteListener channel and reports each case to a sink.

   The listener is package:test_api, outside this repository; it is modelled
   from the messages the core reads.  It shares the isolate with the core and
   the user's tests, so its messages interleave with everything between two
   awaits of the core.  The channel is one FIFO (`wire`): MultiChannel
   dispatches the underlying stream in order, and what no stream listens to is
   lost.

   A call of a sink method writes to stdout.  The sink is "clean" until the
   first write; "bound" while a flush is pending, when a write throws and ends
   the core.  The core itself never flushes: the host does.                    *)
EXTENDS SuiteTree

CONSTANTS
    Options,      \* the runs' options: the name filter, the shard, what skips
    MaxNoise,     \* bound: messages of a run other than its 'complete'
    MaxWire       \* bound: messages in flight

ASSUME CoreAssumption ==
    /\ Options \subseteq [match : SUBSET Leaves, shard : Nat \X Nat,
                          skip : SUBSET Nodes, testOn : BOOLEAN]
    /\ \A o \in Options : o.shard[1] < o.shard[2]
    /\ MaxNoise \in Nat /\ MaxWire \in Nat \ {0}

VARIABLES
    opts,         \* CoreOptions, with the suite's own skips
    chosen,       \* _chosen
    pc,           \* where the core is between two awaits
    agenda,       \* the calls of _visit, _runHook and _runTest still to make
    result,       \* _drain's result of the current run
    unsupported,  \* _drain's flag of the same name
    cases,        \* _Core.cases, and _HostSink.results but for the late errors
    running,      \* _HostSink.running
    sink,         \* stdout behind the sink: "clean", "written" or "bound"
    wire,         \* the channel from the listener to the core
    declared,     \* the listener has answered 'initial'
    body,         \* the listener's run of each position: idle, running, over
    verdict,      \* the result the listener last sent for it before 'complete'
    noise         \* messages sent so far that count against MaxNoise

coreVars   == <<chosen, pc, agenda, result, unsupported, cases, running, sink>>
listenVars == <<declared, body, verdict, noise>>
vars       == <<opts, coreVars, wire, listenVars>>

RunMessages  == {"text", "unknown", "spawn"}
RootMessages == {"print", "success", "loadException", "other", "closed", "stray"}
Message == [ch : Runs, type : RunMessages \cup {"complete"}]
      \cup [ch : Runs, type : {"state"}, result : Results]
      \cup [ch : {Nothing}, type : RootMessages]

Item == [kind : {"group"}, node : Groups, skip : BOOLEAN]
   \cup [kind : {"test"}, node : Leaves, skip : BOOLEAN]
   \cup [kind : {"setUp"}, node : SetUpOf, skip : {FALSE}]
   \cup [kind : {"tearDown"}, node : TearDownOf, skip : {FALSE}]
NameOf(item) == <<item.kind, item.node>>

Init ==
    /\ opts \in Options
    /\ chosen = {} /\ pc = "load" /\ agenda = <<>>
    /\ result = "success" /\ unsupported = FALSE
    /\ cases = <<>> /\ running = Load /\ sink = "clean"
    /\ wire = <<>> /\ declared = FALSE
    /\ body = [r \in Runs |-> "idle"]
    /\ verdict = [r \in Runs |-> "success"]
    /\ noise = 0

-----------------------------------------------------------------------------
(* The listener and the user's tests.                                         *)

Send(m) == Len(wire) < MaxWire /\ wire' = Append(wire, m)
Noisy   == noise < MaxNoise /\ noise' = noise + 1
RootSays(t) == Send([ch |-> Nothing, type |-> t])

(* A print while main() declares the suite. *)
DeclarationPrints ==
    /\ ~declared /\ Noisy /\ RootSays("print")
    /\ UNCHANGED <<opts, coreVars, declared, body, verdict>>

(* The answer to 'initial': the suite, an exception of main(), a response of
   another type, or the end of the stream. *)
SuiteAnswers ==
    /\ ~declared /\ declared' = TRUE
    /\ \E t \in {"success", "loadException", "other", "closed"} : RootSays(t)
    /\ UNCHANGED <<opts, coreVars, body, verdict, noise>>

(* A test's state changes.  test_api also does this after 'complete', for an
   error a callback raises late: the verdict at 'complete' is left as it was. *)
BodyChangesState(r) ==
    /\ body[r] # "idle" /\ Noisy
    /\ \E s \in Results :
          /\ Send([ch |-> r, type |-> "state", result |-> s])
          /\ verdict' = IF body[r] = "running" THEN [verdict EXCEPT ![r] = s]
                                               ELSE verdict
    /\ UNCHANGED <<opts, coreVars, declared, body>>

(* A print of a test, a message of an unknown type, a spawnHybridUri. *)
BodySays(r) ==
    /\ body[r] = "running" /\ Noisy
    /\ \E t \in RunMessages : Send([ch |-> r, type |-> t])
    /\ UNCHANGED <<opts, coreVars, declared, body, verdict>>

(* A message that reaches the root channel while tests run: one the core takes
   for the running case's, or a print or an error, which it ignores. *)
RootStrays ==
    /\ \E r \in Runs : body[r] # "idle"
    /\ Noisy /\ \E t \in {"stray", "print"} : RootSays(t)
    /\ UNCHANGED <<opts, coreVars, declared, body, verdict>>

BodyCompletes(r) ==
    /\ body[r] = "running"
    /\ body' = [body EXCEPT ![r] = "over"]
    /\ Send([ch |-> r, type |-> "complete"])
    /\ UNCHANGED <<opts, coreVars, declared, verdict, noise>>

Listener == \/ DeclarationPrints \/ SuiteAnswers \/ RootStrays
            \/ \E r \in Runs : \/ BodyChangesState(r) \/ BodySays(r)
                               \/ BodyCompletes(r)

-----------------------------------------------------------------------------
(* The core.  A step that writes to the sink goes on at p, or ends the core
   when stdout is bound to a pending flush: the write throws, and no handler
   of the core catches it.                                                    *)
WriteThen(p) == /\ pc' = IF sink = "bound" THEN "dead" ELSE p
                /\ sink' = IF sink = "clean" THEN "written" ELSE sink

(* _finish: the case is recorded before the sink prints it. *)
Finish(name, outcome, p) ==
    /\ cases' = Append(cases, [name |-> name, outcome |-> outcome])
    /\ running' = Nothing
    /\ WriteThen(p)

Received == wire # <<>> /\ wire' = Tail(wire)

LoadPrint ==
    /\ pc = "load" /\ Received /\ Head(wire).type = "print"
    /\ WriteThen("load")
    /\ UNCHANGED <<opts, chosen, agenda, result, unsupported, cases, running,
                   listenVars>>

(* Anything but 'success' is reported as a failed load. *)
LoadFails ==
    /\ pc = "load" /\ Received /\ Head(wire).type \notin {"print", "success"}
    /\ Finish(Load, "error", "complete")
    /\ UNCHANGED <<opts, chosen, agenda, result, unsupported, listenVars>>

(* _choose, then the call of _visit on the root. *)
LoadSucceeds ==
    /\ pc = "load" /\ Received /\ Head(wire).type = "success"
    /\ chosen' = ChosenBy(opts.match, opts.shard)
    /\ agenda' = << [kind |-> "group", node |-> Root, skip |-> ~opts.testOn] >>
    /\ pc' = "step"
    /\ UNCHANGED <<opts, result, unsupported, cases, running, sink, listenVars>>

Current == Head(agenda)
AtItem(kinds) == pc = "step" /\ agenda # <<>> /\ Current.kind \in kinds

(* The entries of a group in the order _visit goes through them.  Mutant: its
   tests, then its groups. *)
TestsFirst(g) == SelectSeq(Entries[g], LAMBDA e : e \in Leaves)
              \o SelectSeq(Entries[g], LAMBDA e : e \in Groups)
ToVisit(g) == Entries[g]

(* The calls _visit makes for a group, in order.  A skipped group runs neither
   hook and passes its skip on. *)
Call(kind, node, skip) == [kind |-> kind, node |-> node, skip |-> skip]
Hook(kind, g, of, skip) == IF ~skip /\ g \in of THEN <<Call(kind, g, FALSE)>>
                                                ELSE <<>>
EntryCalls(g, skip) ==
    [i \in 1..Len(Entries[g]) |->
        Call(IF ToVisit(g)[i] \in Groups THEN "group" ELSE "test",
             ToVisit(g)[i], skip)]
CallsOf(g, skip) == Hook("setUp", g, SetUpOf, skip)
                 \o EntryCalls(g, skip)
                 \o Hook("tearDown", g, TearDownOf, skip)

VisitGroup ==
    /\ AtItem({"group"})
    /\ LET g == Current.node
       IN  agenda' = (IF HasChosen(g, chosen)
                      THEN CallsOf(g, Current.skip \/ g \in opts.skip)
                      ELSE <<>>) \o Tail(agenda)
    /\ UNCHANGED <<opts, chosen, pc, result, unsupported, cases, running, sink,
                   wire, listenVars>>

(* A test that is not chosen. *)
PassOver ==
    /\ AtItem({"test"}) /\ Current.node \notin chosen
    /\ agenda' = Tail(agenda)
    /\ UNCHANGED <<opts, chosen, pc, result, unsupported, cases, running, sink,
                   wire, listenVars>>

(* The agenda is at a call that reports or runs something. *)
AtCall(kinds) == /\ AtItem(kinds)
                 /\ Current.kind = "test" => Current.node \in chosen

(* A test's inherited reason, or its own. *)
IsSkipped(item) == item.kind = "test" /\ (item.skip \/ item.node \in opts.skip)

(* _runTest's early return. *)
SkipTest ==
    /\ AtCall({"test"}) /\ IsSkipped(Current)
    /\ Finish(NameOf(Current), "skip", "step")
    /\ agenda' = Tail(agenda)
    /\ UNCHANGED <<opts, chosen, result, unsupported, wire, listenVars>>

(* What setRunning names.  Mutant: a test only, not a hook. *)
RunningTest == IF Current.kind = "test" THEN NameOf(Current) ELSE running
NowRunning == NameOf(Current)

(* _runHook and _runTest up to the first await of _drain. *)
StartRun ==
    /\ AtCall({"test", "setUp", "tearDown"}) /\ ~IsSkipped(Current)
    /\ running' = NowRunning
    /\ body' = [body EXCEPT ![NameOf(Current)] = "running"]
    /\ result' = "success" /\ unsupported' = FALSE
    /\ pc' = "drain"
    /\ UNCHANGED <<opts, chosen, agenda, cases, sink, wire, declared, verdict,
                   noise>>

(* Messages _drain reads: those of the current run, and the root's strays.    *)
Drains(types) ==
    /\ pc = "drain" /\ Received
    /\ Head(wire).ch \in {NameOf(Current), Nothing}
    /\ Head(wire).type \in types
    /\ UNCHANGED <<opts, chosen, agenda, cases, running, listenVars>>

DrainText == /\ Drains({"text"}) /\ WriteThen("drain")
             /\ UNCHANGED <<result, unsupported>>

(* The last state change counts.  Mutant: the first. *)
DrainFirstState == /\ Drains({"state"})
                   /\ result' = IF result = "success" THEN Head(wire).result
                                ELSE result
                   /\ UNCHANGED <<pc, sink, unsupported>>

DrainState == /\ Drains({"state"})
              /\ result' = Head(wire).result
              /\ UNCHANGED <<pc, sink, unsupported>>

(* The case fails, and the run is still read to 'complete'.  Mutant: it is not. *)
DrainUnknownEnds == /\ Drains({"unknown", "stray"})
                    /\ unsupported' = TRUE /\ pc' = "end"
                    /\ UNCHANGED <<sink, result>>

DrainUnknown == /\ Drains({"unknown", "stray"})
                /\ unsupported' = TRUE
                /\ UNCHANGED <<pc, sink, result>>

(* The tester cannot serve spawnHybridUri: the run is abandoned, not ended. *)
DrainSpawn == /\ Drains({"spawn"})
              /\ result' = "spawn" /\ pc' = "end"
              /\ UNCHANGED <<sink, unsupported>>

(* Mutant: after a message of an unknown type, 'complete' is not enough. *)
DrainCompleteUnlessUnsupported ==
    /\ Drains({"complete"})
    /\ pc' = IF unsupported THEN "drain" ELSE "end"
    /\ UNCHANGED <<sink, result, unsupported>>

DrainComplete == /\ Drains({"complete"})
                 /\ result' = IF unsupported THEN "error" ELSE result
                 /\ pc' = "end"
                 /\ UNCHANGED <<sink, unsupported>>

(* A message no stream listens to: of a run that is no longer read, of the root
   between two runs, or a root message the core ignores. *)
Dropped ==
    /\ pc # "load" /\ Received
    /\ pc = "drain" => \/ Head(wire).ch \notin {NameOf(Current), Nothing}
                       \/ Head(wire).type = "print"
    /\ UNCHANGED <<opts, coreVars, listenVars>>

(* The outcome of a run that did not succeed.  Mutant: the result itself. *)
ResultItself(res) == res
OutcomeOf(res) == IF res = "error" THEN "error" ELSE "fail"

AtEnd(kinds) == pc = "end" /\ Current.kind \in kinds

(* _runHook's success: no case. *)
HookSucceeds ==
    /\ AtEnd({"setUp", "tearDown"}) /\ result = "success"
    /\ running' = Nothing /\ pc' = "step" /\ agenda' = Tail(agenda)
    /\ UNCHANGED <<opts, chosen, result, unsupported, cases, sink, wire,
                   listenVars>>

(* A failed setUpAll drops its group's entries; the group's tearDownAll still
   runs.  Mutant: the tearDownAll is dropped too. *)
AgendaWithoutGroup ==
    SubSeq(agenda, IF Current.node \in TearDownOf
                   THEN 3 + Len(Entries[Current.node])
                   ELSE 2 + Len(Entries[Current.node]), Len(agenda))
AgendaAfterFailure ==
    IF Current.kind = "tearDown" THEN Tail(agenda)
    ELSE SubSeq(agenda, 2 + Len(Entries[Current.node]), Len(agenda))

(* _runHook's failure. *)
HookFails ==
    /\ AtEnd({"setUp", "tearDown"}) /\ result # "success"
    /\ Finish(NameOf(Current), OutcomeOf(result), "step")
    /\ agenda' = AgendaAfterFailure
    /\ UNCHANGED <<opts, chosen, result, unsupported, wire, listenVars>>

(* The agenda after a test: one run per case, since the listener owns retries.
   Mutant: the core tries a failed test again. *)
AgendaWithRetry == IF result = "failure" THEN agenda ELSE Tail(agenda)
AgendaAfterTest == Tail(agenda)

TestEnds ==
    /\ AtEnd({"test"})
    /\ Finish(NameOf(Current),
              CASE result = "success" -> "pass"
                [] result = "skipped" -> "skip"
                [] OTHER              -> OutcomeOf(result), "step")
    /\ agenda' = AgendaAfterTest
    /\ UNCHANGED <<opts, chosen, result, unsupported, wire, listenVars>>

(* run() returns; runCore calls onComplete in the next step. *)
AllVisited ==
    /\ pc = "step" /\ agenda = <<>>
    /\ pc' = "complete"
    /\ UNCHANGED <<opts, chosen, agenda, result, unsupported, cases, running,
                   sink, wire, listenVars>>

OnComplete ==
    /\ pc = "complete"
    /\ pc' = "done"
    /\ UNCHANGED <<opts, chosen, agenda, result, unsupported, cases, running,
                   sink, wire, listenVars>>

(* Every step of the core but onComplete, which belongs to the driver. *)
CoreStep ==
    \/ LoadPrint \/ LoadFails \/ LoadSucceeds
    \/ VisitGroup \/ PassOver \/ SkipTest \/ StartRun
    \/ DrainText \/ DrainState \/ DrainUnknown \/ DrainSpawn \/ DrainComplete
    \/ Dropped \/ HookSucceeds \/ HookFails \/ TestEnds \/ AllVisited

Next == Listener \/ CoreStep \/ OnComplete

Spec == Init /\ [][Next]_vars

(* The event loop runs whatever is ready, and test_api's timeouts complete
   every test and hook that main() has started. *)
Fairness ==
    /\ WF_vars(CoreStep \/ OnComplete)
    /\ WF_vars(SuiteAnswers)
    /\ \A r \in Runs : WF_vars(BodyCompletes(r))

FairSpec == Spec /\ Fairness
-----------------------------------------------------------------------------
(* What the core promises.                                                    *)

TypeOK ==
    /\ opts \in Options /\ chosen \subseteq Leaves
    /\ pc \in {"load", "step", "drain", "end", "complete", "done", "dead"}
    /\ agenda \in Seq(Item)
    /\ result \in Results \cup {"spawn"} /\ unsupported \in BOOLEAN
    /\ cases \in Seq(Case)
    /\ running \in CaseNames \cup {Nothing}
    /\ sink \in {"clean", "written", "bound"}
    /\ wire \in Seq(Message) /\ Len(wire) \leq MaxWire
    /\ declared \in BOOLEAN
    /\ body \in [Runs -> {"idle", "running", "over"}]
    /\ verdict \in [Runs -> Results]
    /\ noise \in 0..MaxNoise

Reported(r) == \E k \in DOMAIN cases : cases[k].name = r
ReportedFailing(r) ==
    \E k \in DOMAIN cases : cases[k].name = r /\ Failing(cases[k])
IsCurrent(r) == pc \in {"drain", "end"} /\ r = NameOf(Current)

(* The next case starts only after the current one ends (the comment on _drain),
   except for a run abandoned at spawnHybridUri: until a write throws, whatever
   still runs in the listener is the current run, or has been reported as
   failing. *)
OneRunAtATime ==
    pc # "dead" =>
       \A r \in Runs : body[r] = "running" => IsCurrent(r) \/ ReportedFailing(r)

(* One run per case: what has run, or runs, is never started again. *)
OneRunPerCase ==
    [][\A r \in Runs : /\ body[r] = "running" => body'[r] # "idle"
                      /\ body[r] = "over" => body'[r] = "over"]_vars

(* The listener's verdict reaches the report: a run that completed with a
   failure is reported as failing once the core has moved on, and a case is
   reported as passed only if the listener completed it with success. *)
VerdictReported ==
    /\ \A r \in Runs :
          body[r] = "over" /\ verdict[r] \in {"failure", "error"} /\ ~IsCurrent(r)
             => ReportedFailing(r)
    /\ \A k \in DOMAIN cases :
          cases[k].outcome = "pass" =>
             body[cases[k].name] = "over" /\ verdict[cases[k].name] = "success"

(* A test runs between the hooks of every group that holds it: each setUpAll
   completed and was not reported, no tearDownAll has started. *)
HooksAround ==
    \A t \in Leaves : body[<<"test", t>>] = "running" /\ IsCurrent(<<"test", t>>) =>
       \A g \in Ancestors(t) :
          /\ g \in SetUpOf => /\ body[<<"setUp", g>>] = "over"
                              /\ ~Reported(<<"setUp", g>>)
          /\ g \in TearDownOf => body[<<"tearDown", g>>] = "idle"

(* When the suite is done, every group that ran a setUpAll, failed or not, or
   any of its tests, has run its tearDownAll. *)
TearDownsOwed ==
    pc \in {"complete", "done"} =>
       \A g \in TearDownOf :
          \/ body[<<"tearDown", g>>] # "idle"
          \/ /\ g \in SetUpOf => body[<<"setUp", g>>] = "idle"
             /\ \A t \in Below[g] \cap Leaves : body[<<"test", t>>] = "idle"

(* Hooks come before and after what they are for, also when they fail: the two
   together. *)
HooksBracket == HooksAround /\ TearDownsOwed

(* When the suite is done, it has failed to load, or every chosen test is
   reported or lies under a reported setUpAll; no other test is reported. *)
ChosenAccounted ==
    pc \in {"complete", "done"} =>
       \/ ReportedFailing(Load)
       \/ \A t \in Leaves :
            IF t \in ChosenBy(opts.match, opts.shard)
            THEN \/ Reported(<<"test", t>>)
                 \/ \E g \in Ancestors(t) \cap SetUpOf :
                       ReportedFailing(<<"setUp", g>>)
            ELSE ~Reported(<<"test", t>>)

(* Nothing of a skipped test or group runs: no body, no setUpAll and no
   tearDownAll, whichever of the library, a group or the test is skipped. *)
SkippedNeverRuns ==
    \A r \in Runs : body[r] # "idle" =>
       /\ opts.testOn
       /\ opts.skip \cap ({r[2]} \cup Ancestors(r[2])) = {}

(* Nothing else runs or is reported, at any time: a test is one of the chosen, a
   setUpAll or a tearDownAll is of a group that holds a chosen test. *)
OnlyChosenRuns ==
    LET wanted == ChosenBy(opts.match, opts.shard)
    IN  \A r \in Runs : body[r] # "idle" \/ Reported(r) =>
           IF r[1] = "test" THEN r[2] \in wanted
                            ELSE \E t \in wanted : t \in Below[r[2]]

(* The shards of the run split what the name filter leaves: each test is in one
   shard and in no other, whatever _choose rounds. *)
ShardsSplit ==
    LET count     == opts.shard[2]
        Shard(i)  == ChosenBy(opts.match, <<i, count>>)
    IN  /\ UNION {Shard(i) : i \in 0..count - 1} = opts.match
        /\ \A i, j \in 0..count - 1 : i # j => Shard(i) \cap Shard(j) = {}

(* Every chosen test is accounted for, nothing else runs or is reported, nothing
   skipped runs, and together the shards choose every test once. *)
ChosenOnly ==
    ChosenAccounted /\ OnlyChosenRuns /\ SkippedNeverRuns /\ ShardsSplit

(* The report is the abstract log: every position of the suite at most once, in
   declaration order, and a failed load alone. *)
Log == INSTANCE CaseLog WITH
          Plan <- PlanOf[Root],
          LoadCase <- [name |-> Load, outcome |-> "error"],
          OutcomeSet <- Outcomes,
          log <- cases
InPlanOrder == Log!Spec

(* Every suite ends: onComplete runs. *)
Completes == <>(pc = "done")
=============================================================================
