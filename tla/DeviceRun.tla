------------------------------ MODULE DeviceRun -------------------------------
(* A test run on a device (device.dart, settings.dart): a runner, outside the
   repository, writes the settings file and launches the app; the driver prepares,
   runs what the settings select, prints every event as frames and then the
   footer; the runner decodes what it captured (DeviceDecoder).

   The log outlives a launch.  Its capture may lose a line or cut it short, and
   the app may be killed at any step.  A launch may follow that no settings were
   written for, by hand or by another tool.                                   *)
EXTENDS DeviceDecoder

CONSTANTS
    Selections,     \* what a filter and a shard may select ...
    All,            \* ... no filter and no shard among them
    Suite,          \* the outcomes of the cases a selection runs
    GivenIds,       \* run ids the runner writes
    FreshIds,       \* run ids the device chooses (_newRunId)
    CutId,          \* what is left of a run id that was cut
    NoId, NoSelection,
    Chunks,         \* the number of frames an event of each type takes
    MaxLaunches, MaxFaults,
    MayStop         \* the app may be gone before it exits

Outcomes == {"pass", "fail", "skip", "error"}
Types    == {"note", "case", "complete"}     \* note: message and running

ASSUME DeviceAssumption ==
    /\ All \in Selections /\ NoSelection \notin Selections
    /\ Suite \in [Selections -> Seq(Outcomes)]
    /\ GivenIds \cap FreshIds = {}
    /\ CutId \notin GivenIds \cup FreshIds /\ NoId \notin GivenIds \cup FreshIds
    /\ Chunks \in [Types -> Nat \ {0}]
    /\ MaxLaunches \in Nat /\ MaxFaults \in Nat
    /\ MayStop \in BOOLEAN

(* A settings file: the id it names, if a valid one; what it selects; whether
   parseRunSettings takes it; the launch it was written for (a history value). *)
NoFile == [kind |-> "none", launch |-> 0]
Settings(id, sel, ok, l) ==
    [kind |-> "file", id |-> id, select |-> sel, valid |-> ok, launch |-> l]

VARIABLES
    step,       \* of the app: off, outputs, read, delete, parse, error, run, noted,
                \* finish, footer, exit
    file,       \* the settings file
    text,       \* what _prepare returned, or NoFile
    run,        \* the run id of the launch, or NoId
    running,    \* what the suite runs of, or NoSelection
    seq,        \* the next event's number
    outcomes,   \* _DeviceSink.outcomes
    log,        \* the lines captured since the device was attached
    wanted,     \* the settings written for this launch, or the next
    launches,   \* how many there were
    told,       \* history: the cases each finished run reported
    faults      \* how many faults the capture had

vars == <<step, file, text, run, running, seq, outcomes, log, wanted, launches,
          told, faults>>
device == <<text, run, running, seq, outcomes>>

Init ==
    /\ step = "off" /\ file = NoFile /\ text = NoFile
    /\ run = NoId /\ running = NoSelection
    /\ seq = 0 /\ outcomes = <<>> /\ log = {} /\ wanted = NoFile
    /\ launches = 0 /\ told = <<>> /\ faults = 0

Started(id) == id \in RunIdsIn(log)

-----------------------------------------------------------------------------
(* The runner: settings before a launch, of a run id no run has had. *)
WriteSettings ==
    /\ step = "off" /\ wanted.launch # launches + 1 /\ launches < MaxLaunches
    /\ \E id \in {i \in GivenIds : ~Started(i)} \cup {NoId},
          sel \in Selections, ok \in BOOLEAN :
             /\ file' = Settings(id, sel, ok, launches + 1)
             /\ wanted' = file'
    /\ UNCHANGED <<step, device, log, launches, told, faults>>

(* A launch, also one that nothing was written for. *)
Launch ==
    /\ step = "off" /\ launches < MaxLaunches
    /\ launches' = launches + 1
    /\ step' = "outputs"
    /\ text' = NoFile /\ run' = NoId /\ running' = NoSelection
    /\ seq' = 0 /\ outcomes' = <<>>
    /\ UNCHANGED <<file, log, wanted, told, faults>>
Asked == launches > 0 /\ wanted.launch = launches

-----------------------------------------------------------------------------
(* _prepare: empty the outputs, read the file, delete it.  What it throws is
   the load error of a run named by the text, if it has returned one. *)
Fails(id) ==
    /\ run' = id
    /\ step' = "error"
    /\ UNCHANGED <<running, seq, outcomes, log, wanted, launches, told, faults>>

NewId(id) == id \in FreshIds /\ ~Started(id)

OutputsEmptied ==
    /\ step = "outputs" /\ step' = "read"
    /\ UNCHANGED <<file, device, log, wanted, launches, told, faults>>

OutputsFail ==
    /\ step = "outputs"
    /\ \E id \in FreshIds : NewId(id) /\ Fails(id)
    /\ UNCHANGED <<file, text>>

ReadFails ==
    /\ step = "read" /\ file # NoFile
    /\ \E id \in FreshIds : NewId(id) /\ Fails(id)
    /\ UNCHANGED <<file, text>>

NoSettings ==
    /\ step = "read" /\ file = NoFile
    /\ \E id \in FreshIds : NewId(id) /\ run' = id
    /\ running' = All
    /\ step' = "run"
    /\ UNCHANGED <<file, text, seq, outcomes, log, wanted, launches, told, faults>>

ReadSettings ==
    /\ step = "read" /\ file # NoFile
    /\ text' = file
    /\ step' = "delete"
    /\ UNCHANGED <<file, run, running, seq, outcomes, log, wanted, launches, told, faults>>

(* A file that cannot be deleted: the text is lost with the exception. *)
DeleteFails ==
    /\ step = "delete"
    /\ \E id \in FreshIds : NewId(id) /\ Fails(id)
    /\ text' = NoFile
    /\ UNCHANGED file

DeleteSettings ==
    /\ step = "delete"
    /\ file' = NoFile
    /\ step' = "parse"
    /\ UNCHANGED <<device, log, wanted, launches, told, faults>>

(* parseRunSettings, and runIdFromSettings where it throws. *)
Names(id) == IF text.id = NoId THEN NewId(id) ELSE id = text.id

Parsed ==
    /\ step = "parse" /\ text.valid
    /\ \E id \in GivenIds \cup FreshIds : Names(id) /\ run' = id
    /\ running' = text.select
    /\ step' = "run"
    /\ UNCHANGED <<file, text, seq, outcomes, log, wanted, launches, told, faults>>

(* Mutant: the unfiltered suite runs after a settings error. *)
NotParsedRunsAll ==
    /\ step = "parse" /\ ~text.valid
    /\ \E id \in GivenIds \cup FreshIds : Names(id) /\ run' = id
    /\ running' = All
    /\ step' = "run"
    /\ UNCHANGED <<file, text, seq, outcomes, log, wanted, launches, told, faults>>
NotParsed ==
    /\ step = "parse" /\ ~text.valid
    /\ \E id \in GivenIds \cup FreshIds : Names(id) /\ Fails(id)
    /\ UNCHANGED <<file, text>>

-----------------------------------------------------------------------------
(* _Emitter and _DeviceSink: an event is numbered and printed as its frames. *)
Event(type, body) == [run |-> run, seq |-> seq, type |-> type, body |-> body]
Emit(type, body) ==
    /\ log' = log \cup FramesOf(Event(type, body), Chunks[type])
    /\ seq' = seq + 1

CaseDone(outcome) ==
    /\ Emit("case", outcome)
    /\ outcomes' = Append(outcomes, outcome)

LoadError ==
    /\ step = "error" /\ outcomes = <<>>
    /\ CaseDone("error")
    /\ step' = "finish"
    /\ UNCHANGED <<file, text, run, running, wanted, launches, told, faults>>

Left == Len(Suite[running]) - Len(outcomes)

(* setRunning and message.  Bound: one event before a case. *)
Note ==
    /\ step = "run" /\ Left > 0
    /\ Emit("note", Len(outcomes))
    /\ step' = "noted"
    /\ UNCHANGED <<file, text, run, running, outcomes, wanted, launches, told, faults>>

RunCase ==
    /\ step \in {"run", "noted"} /\ Left > 0
    /\ CaseDone(Suite[running][Len(outcomes) + 1])
    /\ step' = "run"
    /\ UNCHANGED <<file, text, run, running, wanted, launches, told, faults>>

(* onComplete: a late error is a case of its own.  Bound: one. *)
SuiteEnds ==
    /\ step = "run" /\ Left = 0
    /\ \/ CaseDone("error")
       \/ UNCHANGED <<outcomes, seq, log>>
    /\ step' = "finish"
    /\ UNCHANGED <<file, text, run, running, wanted, launches, told, faults>>

(* _finish.  The status and the footer. *)
FinishStatus(cases) == StatusOf(cases)
Finish ==
    /\ step = "finish"
    /\ Emit("complete", <<Len(outcomes), FinishStatus(outcomes)>>)
    /\ told' = [i \in DOMAIN told \cup {run} |-> IF i = run THEN outcomes ELSE told[i]]
    /\ step' = "footer"
    /\ UNCHANGED <<file, text, run, running, outcomes, wanted, launches, faults>>

PrintFooter ==
    /\ step = "footer"
    /\ log' = log \cup {Footer(run, FinishStatus(outcomes))}
    /\ step' = "exit"
    /\ UNCHANGED <<file, device, wanted, launches, told, faults>>

(* exit once the output is flushed, exit() in user code, a crash, or the
   runner's stop: the app is gone, at any step. *)
Gone ==
    /\ step # "off"
    /\ step = "exit" \/ MayStop
    /\ step' = "off"
    /\ UNCHANGED <<file, device, log, wanted, launches, told, faults>>

-----------------------------------------------------------------------------
(* The capture: one or two lines are lost, or one is cut in its run id, its
   header or footer, or its chunk, or arrives twice, once cut.  Faults count
   where the capture is read: when the app is gone. *)
CutForms(l) ==
    {BrokenLine(CutId), BrokenLine(l.run)}
    \cup (IF l.kind = "frame" THEN {Short(l)} ELSE {})
Fault ==
    /\ step = "off"
    /\ faults < MaxFaults /\ faults' = faults + 1
    /\ \E l \in log :
          \/ \E k \in log : log' = log \ {l, k}
          \/ \E c \in CutForms(l) : log' = (log \ {l}) \cup {c} \/ log' = log \cup {c}
    /\ UNCHANGED <<step, file, device, wanted, launches, told>>

Next ==
    \/ WriteSettings \/ Launch
    \/ OutputsEmptied \/ OutputsFail \/ ReadFails \/ NoSettings \/ ReadSettings
    \/ DeleteFails \/ DeleteSettings \/ Parsed \/ NotParsed
    \/ LoadError \/ Note \/ RunCase \/ SuiteEnds \/ Finish \/ PrintFooter
    \/ Gone \/ Fault

Spec == Init /\ [][Next]_vars

-----------------------------------------------------------------------------
Ids == GivenIds \cup FreshIds

DeviceTypeOK ==
    /\ running \in Selections \cup {NoSelection}
    /\ run \in Ids \cup {NoId}
    /\ outcomes \in Seq(Outcomes)
    /\ seq >= Len(outcomes)
    /\ DOMAIN told \subseteq Ids
    /\ RunIdsIn(log) \subseteq Ids \cup {CutId}

(* Every check fails closed (the header of device_decoder.dart): whatever the
   capture lost or cut, what decodes is all that a finished run reported, and
   its verdict. *)
FailsClosed ==
    \A d \in {DecodeRun(log, id) : id \in RunIdsIn(log)} \cup {DecodeOnly(log)} :
        d.ok => /\ d.run \in DOMAIN told
                /\ d.cases = told[d.run] /\ d.status = StatusOf(told[d.run])

(* The decoder is not stricter than the driver: a run whose lines all arrived
   decodes, next to other runs' lines. *)
IntactRunDecodes ==
    faults = 0 => \A id \in DOMAIN told :
        (\E l \in log : l.kind = "footer" /\ l.run = id) => DecodeRun(log, id).ok

(* Never the unfiltered suite after a settings error (device.dart): where the
   runner has written settings, the suite runs what they select or not at all. *)
RunsWhatWasAsked ==
    running # NoSelection /\ Asked =>
        wanted.valid /\ running = wanted.select

(* The verdict the runner reads under its own run id is of this launch and of
   the tests it asked for, or a failure. *)
VerdictIsOfThisLaunch ==
    Asked /\ wanted.id # NoId =>
        LET d == DecodeRun(log, wanted.id) IN
        d.ok => /\ run = wanted.id
                /\ d.status = 0 => wanted.valid /\ d.cases = Suite[wanted.select]

(* What decodes is the run that was asked for, and an intact run decodes; the state
   keeps its types (decodeStream, over what deviceMain printed). *)
DecodesTheRun ==
    DeviceTypeOK /\ FailsClosed /\ IntactRunDecodes /\ VerdictIsOfThisLaunch

(* "Reads it once and deletes it, so a later launch never inherits it". *)
NeverInherits ==
    running # NoSelection /\ text # NoFile => text.launch = launches
=============================================================================
