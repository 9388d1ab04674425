----------------------------- MODULE DeviceProofs ------------------------------
(* RunsWhatWasAsked and DecodesTheRun for every set of selections and run ids, any
   number of launches and faults, and a run that fails or is stopped anywhere.

   RunsWhatWasAsked is not inductive: that the suite runs what the runner wrote
   last rests on where the file can be.  The settings file is always the one
   written last or absent (FileIsWanted); from the moment it is written until the
   launch it is meant for deletes it, it is there (Pending); and what that launch
   read is what the runner wrote (ReadIsWanted).

   For what decodes, the log is compared with the history of a run id (History).

   FramesSafe for every longest frame, run id, event and text: the longest header of an
   event is the one of its last frame, since a longer number has more digits, and the
   count that agrees with itself is the quotient rounded up (CeilingIs). *)
EXTENDS DeviceRun, DeviceFrames, SequenceLemmas, TLAPS, FiniteSetTheorems

Preparing == {"outputs", "read", "delete"}
FileIsWanted == file # NoFile => file = wanted
ReadIsWanted ==
    /\ step # "off" /\ text # NoFile => text = wanted
    /\ step \in {"delete", "parse"} => text # NoFile
Pending ==
    /\ step = "off" /\ wanted.launch = launches + 1 => file = wanted /\ file # NoFile
    /\ step \in Preparing /\ Asked => file = wanted /\ file # NoFile
Numbered ==
    /\ launches \in Nat /\ wanted.launch \in Nat
    /\ wanted.launch <= launches + 1
    /\ step # "off" => wanted.launch <= launches
    /\ step \in Preparing => running = NoSelection

LaunchInv ==
    /\ FileIsWanted
    /\ ReadIsWanted
    /\ Pending
    /\ Numbered
    /\ RunsWhatWasAsked

LEMMA LaunchInit == Init => LaunchInv
  BY DEF Init, LaunchInv, FileIsWanted, ReadIsWanted, Pending, Numbered,
         RunsWhatWasAsked, Asked, NoFile, Preparing

(* A step of a launch that has read its settings, or needs none, and changes
   neither them nor what runs. *)
LEMMA LaterStep ==
    ASSUME LaunchInv,
           file' \in {file, NoFile}, text' \in {text, NoFile},
           wanted' = wanted, launches' = launches,
           running' = running, step # "off",
           step' \notin Preparing, step' = "parse" => text' # NoFile,
           step' = "off" => file' = file
    PROVE  LaunchInv'
<1> USE DEF LaunchInv
<1>1. FileIsWanted'
  BY DEF FileIsWanted
<1>2. ReadIsWanted'
  BY DEF ReadIsWanted, Preparing
<1>3. Numbered'
  BY DEF Numbered
<1>4. Pending'
  BY DEF Pending, Numbered
<1>5. RunsWhatWasAsked'
  BY DEF RunsWhatWasAsked, Asked
<1> QED BY <1>1, <1>2, <1>3, <1>4, <1>5

LEMMA LaunchStep == LaunchInv /\ [Next]_vars => LaunchInv'
<1> SUFFICES ASSUME LaunchInv, [Next]_vars PROVE LaunchInv'
  OBVIOUS
<1> USE DEF LaunchInv
<1>1. CASE WriteSettings
  <2>1. PICK id, sel, ok :
          /\ file' = Settings(id, sel, ok, launches + 1) /\ wanted' = file'
          /\ step = "off" /\ step' = step /\ launches' = launches
          /\ text' = text /\ running' = running
    BY <1>1 DEF WriteSettings, device
  <2>2. wanted'.launch = launches + 1 /\ file' # NoFile
    BY <2>1 DEF Settings, NoFile
  <2>3. FileIsWanted' /\ Pending'
    BY <2>1, <2>2 DEF FileIsWanted, Pending, Preparing
  <2>4. ReadIsWanted'
    BY <2>1 DEF ReadIsWanted
  <2>5. Numbered'
    BY <2>1, <2>2 DEF Numbered, Preparing
  <2>6. RunsWhatWasAsked'
    BY <2>1, <2>2 DEF RunsWhatWasAsked, Asked, Numbered
  <2> QED BY <2>3, <2>4, <2>5, <2>6
<1>2. CASE Launch
  <2>1. /\ step = "off" /\ step' = "outputs" /\ launches' = launches + 1
        /\ text' = NoFile /\ running' = NoSelection
        /\ file' = file /\ wanted' = wanted
    BY <1>2 DEF Launch
  <2>2. FileIsWanted' /\ ReadIsWanted' /\ RunsWhatWasAsked'
    BY <2>1 DEF FileIsWanted, ReadIsWanted, RunsWhatWasAsked
  <2>3. Numbered'
    BY <2>1 DEF Numbered, Preparing
  <2>4. Pending'
    BY <2>1 DEF Pending, Asked, Numbered, Preparing
  <2> QED BY <2>2, <2>3, <2>4
<1>3. CASE OutputsEmptied
  <2>1. /\ step = "outputs" /\ step' = "read" /\ UNCHANGED <<file, text, running, wanted, launches>>
    BY <1>3 DEF OutputsEmptied, device
  <2>2. FileIsWanted' /\ ReadIsWanted' /\ RunsWhatWasAsked'
    BY <2>1 DEF FileIsWanted, ReadIsWanted, RunsWhatWasAsked, Asked
  <2>3. Numbered' /\ Pending'
    BY <2>1 DEF Numbered, Pending, Asked, Preparing
  <2> QED BY <2>2, <2>3
<1>4. CASE NoSettings
  <2>1. /\ step = "read" /\ step' = "run" /\ file = NoFile
        /\ UNCHANGED <<file, text, wanted, launches>>
    BY <1>4 DEF NoSettings
  <2>2. ~Asked
    BY <2>1 DEF Pending, Preparing
  <2>3. RunsWhatWasAsked'
    BY <2>1, <2>2 DEF RunsWhatWasAsked, Asked
  <2>4. FileIsWanted' /\ ReadIsWanted' /\ Numbered' /\ Pending'
    BY <2>1 DEF FileIsWanted, ReadIsWanted, Numbered, Pending, Preparing
  <2> QED BY <2>3, <2>4
<1>5. CASE ReadSettings
  <2>1. /\ step = "read" /\ step' = "delete" /\ file # NoFile /\ text' = file
        /\ UNCHANGED <<file, running, wanted, launches>>
    BY <1>5 DEF ReadSettings
  <2>2. FileIsWanted' /\ ReadIsWanted' /\ RunsWhatWasAsked'
    BY <2>1 DEF FileIsWanted, ReadIsWanted, RunsWhatWasAsked, Asked
  <2>3. Numbered' /\ Pending'
    BY <2>1 DEF Numbered, Pending, Asked, Preparing
  <2> QED BY <2>2, <2>3
<1>6. CASE DeleteSettings
  <2>1. /\ step = "delete" /\ step' = "parse" /\ file' = NoFile
        /\ UNCHANGED <<text, running, wanted, launches>>
    BY <1>6 DEF DeleteSettings, device
  <2> QED BY <2>1, LaterStep DEF ReadIsWanted, Preparing
<1>7. CASE Parsed
  <2>1. /\ step = "parse" /\ step' = "run" /\ text.valid /\ running' = text.select
        /\ UNCHANGED <<file, text, wanted, launches>>
    BY <1>7 DEF Parsed
  <2>2. text = wanted
    BY <2>1 DEF ReadIsWanted
  <2>3. RunsWhatWasAsked'
    BY <2>1, <2>2 DEF RunsWhatWasAsked
  <2>4. FileIsWanted' /\ ReadIsWanted' /\ Numbered' /\ Pending'
    BY <2>1 DEF FileIsWanted, ReadIsWanted, Numbered, Pending, Preparing
  <2> QED BY <2>3, <2>4
<1>8. CASE OutputsFail \/ ReadFails \/ DeleteFails \/ NotParsed
  <2>1. /\ step # "off" /\ step' = "error" /\ file' = file /\ text' \in {text, NoFile}
        /\ UNCHANGED <<running, wanted, launches>>
    BY <1>8 DEF OutputsFail, ReadFails, DeleteFails, NotParsed, Fails
  <2> QED BY <2>1, LaterStep DEF Preparing
<1>9. CASE LoadError \/ Note \/ RunCase \/ SuiteEnds \/ Finish \/ PrintFooter \/ Gone
  <2>1. /\ step # "off" /\ step' \in {"finish", "noted", "run", "footer", "exit", "off"}
        /\ UNCHANGED <<file, text, running, wanted, launches>>
    BY <1>9 DEF LoadError, Note, RunCase, SuiteEnds, Finish, PrintFooter, Gone, device
  <2> QED BY <2>1, LaterStep DEF Preparing
<1>10. CASE Fault \/ UNCHANGED vars
  <2>1. UNCHANGED <<step, file, text, running, wanted, launches>>
    BY <1>10 DEF Fault, device, vars
  <2> QED BY <2>1 DEF FileIsWanted, ReadIsWanted, Numbered, Pending, RunsWhatWasAsked, Asked
<1> QED
  BY <1>1, <1>2, <1>3, <1>4, <1>5, <1>6, <1>7, <1>8, <1>9, <1>10 DEF Next

(* Where the runner has written settings, a launch runs what they select or no
   test at all: never the unfiltered suite after a settings error. *)
THEOREM LaunchesRunWhatWasAsked == Spec => []RunsWhatWasAsked
<1>1. LaunchInv => RunsWhatWasAsked
  BY DEF LaunchInv
<1> QED BY <1>1, LaunchInit, LaunchStep, PTL DEF Spec

-----------------------------------------------------------------------------
(* What decodeStream's loop computes.  The cases of a longer stream are those
   of the shorter one and the case of the event behind it, if it is one; a
   stream has no others, since two results of the loop would differ first
   somewhere, and there they are computed from the same.                       *)

IsUpTo(es, f) ==
    f = [n \in 0..Len(es) |->
            IF n = 0 THEN <<>>
            ELSE IF es[n].type = "case" THEN Append(f[n - 1], es[n].body)
            ELSE f[n - 1]]

Reports(es, cs) == \E f : IsUpTo(es, f) /\ f[Len(es)] = cs

LEMMA UpToAt ==
    ASSUME NEW es, NEW f, IsUpTo(es, f), Len(es) \in Nat, NEW n \in 0..Len(es)
    PROVE  f[n] = IF n = 0 THEN <<>>
                  ELSE IF es[n].type = "case" THEN Append(f[n - 1], es[n].body)
                  ELSE f[n - 1]
  BY DEF IsUpTo

LEMMA UpToIsOne ==
    ASSUME NEW es, NEW f, NEW g, IsUpTo(es, f), IsUpTo(es, g), Len(es) \in Nat
    PROVE  f = g
<1>. DEFINE T == {n \in 0..Len(es) : f[n] # g[n]}
<1>1. CASE T = {}
  <2>1. \A n \in 0..Len(es) : f[n] = g[n]
    BY <1>1
  <2>2. /\ f = [n \in 0..Len(es) |-> f[n]]
        /\ g = [n \in 0..Len(es) |-> g[n]]
    BY DEF IsUpTo
  <2>. QED BY <2>1, <2>2
<1>2. CASE T # {}
  <2>1. T \subseteq Nat
    OBVIOUS
  <2>. HIDE DEF T
  <2>2. PICK n \in T : \A m \in T : n <= m
    BY <1>2, <2>1, LeastNumber
  <2>3. n \in 0..Len(es) /\ f[n] # g[n]
    BY <2>2 DEF T
  <2>4. n # 0
    BY <2>3, UpToAt
  <2>5. n - 1 \in 0..Len(es) /\ ~(n <= n - 1)
    BY <2>3, <2>4
  <2>6. f[n - 1] = g[n - 1]
    BY <2>2, <2>5 DEF T
  <2>. QED BY <2>3, <2>4, <2>6, UpToAt
<1>. QED BY <1>1, <1>2

LEMMA ReportsAreCases ==
    ASSUME NEW es, NEW cs, Reports(es, cs), Len(es) \in Nat
    PROVE  CasesIn(es) = cs
<1>1. PICK f : IsUpTo(es, f) /\ f[Len(es)] = cs
  BY DEF Reports
<1>2. CasesUpTo(es) = CHOOSE g : IsUpTo(es, g)
  BY Zenon DEF CasesUpTo, IsUpTo
<1>3. IsUpTo(es, CasesUpTo(es))
  BY <1>1, <1>2, Zenon
<1>4. CasesUpTo(es) = f
  BY <1>1, <1>3, UpToIsOne
<1> QED BY <1>1, <1>4 DEF CasesIn

LEMMA NothingReports == Reports(<<>>, <<>>)
<1>. DEFINE f == [n \in {0} |-> <<>>]
<1>1. Len(<<>>) = 0 /\ 0..0 = {0}
  OBVIOUS
<1>2. f = [n \in 0..Len(<<>>) |->
            IF n = 0 THEN <<>>
            ELSE IF <<>>[n].type = "case" THEN Append(f[n - 1], <<>>[n].body)
            ELSE f[n - 1]]
  BY <1>1
<1>3. IsUpTo(<<>>, f)
  BY <1>2 DEF IsUpTo
<1> QED BY <1>1, <1>3 DEF Reports

LEMMA ReportsGrow ==
    ASSUME NEW S, NEW es \in Seq(S), NEW e \in S, NEW cs, Reports(es, cs)
    PROVE  Reports(Append(es, e), IF e.type = "case" THEN Append(cs, e.body) ELSE cs)
<1>1. PICK f : IsUpTo(es, f) /\ f[Len(es)] = cs
  BY DEF Reports
<1>. DEFINE more == Append(es, e)
            last == IF e.type = "case" THEN Append(cs, e.body) ELSE cs
            g == [n \in 0..Len(more) |-> IF n = Len(more) THEN last ELSE f[n]]
<1>2. /\ Len(es) \in Nat /\ Len(more) = Len(es) + 1 /\ more[Len(es) + 1] = e
      /\ \A n \in 1..Len(es) : more[n] = es[n]
  OBVIOUS
<1>. HIDE DEF more, last
<1>3. ASSUME NEW n \in 0..Len(more)
      PROVE  g[n] = IF n = 0 THEN <<>>
                    ELSE IF more[n].type = "case" THEN Append(g[n - 1], more[n].body)
                    ELSE g[n - 1]
  <2>1. CASE n = Len(more)
    <3>1. g[n] = last /\ n # 0 /\ more[n] = e /\ n - 1 \in 0..Len(more) /\ n - 1 # Len(more)
      BY <1>2, <2>1
    <3>2. g[n - 1] = f[n - 1] /\ n - 1 = Len(es)
      BY <1>2, <2>1, <3>1
    <3>. QED BY <1>1, <3>1, <3>2 DEF last
  <2>2. CASE n # Len(more)
    <3>1. n \in 0..Len(es) /\ g[n] = f[n]
      BY <1>2, <2>2
    <3>2. CASE n = 0
      BY <1>1, <1>2, <3>1, <3>2, UpToAt
    <3>3. CASE n # 0
      <4>1. n \in 1..Len(es) /\ n - 1 \in 0..Len(more) /\ n - 1 # Len(more)
        BY <1>2, <3>1, <3>3
      <4>2. more[n] = es[n] /\ g[n - 1] = f[n - 1]
        BY <1>2, <4>1
      <4>. QED BY <1>1, <1>2, <3>1, <3>3, <4>2, UpToAt
    <3>. QED BY <3>2, <3>3
  <2>. QED BY <2>1, <2>2
<1>4. g = [n \in 0..Len(more) |-> g[n]]
  OBVIOUS
<1>5. IsUpTo(more, g)
  BY <1>3, <1>4 DEF IsUpTo
<1>6. g[Len(more)] = last
  BY <1>2
<1> QED BY <1>5, <1>6 DEF Reports, more, last

-----------------------------------------------------------------------------
(* What the log says of a run.  A run id stands for a history h, the events the
   device has emitted under it, of which the log may have lost or cut lines.
   Every frame that is left is a frame of h (Captured); h is open until its
   complete event, and closed with it, when it reports the cases the run was
   told of (IsClosed); while the run goes on, h is what it has emitted so far
   (OfLaunch).  Where no line was lost, all of h is in the log (Intact).       *)

Events == [run : Ids, seq : Nat, type : Types, body : Outcomes \cup Nat \cup (Nat \X Nat)]
Lines  == [kind : {"frame"}, run : Ids, seq : Nat, i : Nat, n : Nat,
           event : Events, whole : BOOLEAN]
     \cup [kind : {"footer"}, run : Ids, status : {0, 1}]
     \cup [kind : {"broken"}, run : Ids \cup {CutId}]
Files  == [kind : {"file"}, id : GivenIds \cup {NoId}, select : Selections,
           valid : BOOLEAN, launch : Nat]

Steps == {"off", "outputs", "read", "delete", "parse", "error", "run", "noted",
          "finish", "footer", "exit"}
Unnamed  == {"outputs", "read", "delete", "parse"}
Emitting == {"error", "run", "noted", "finish"}

EventsOf(id, h) == \A k \in 1..Len(h) : h[k].run = id /\ h[k].seq = k - 1

FrameOf(h, l) ==
    /\ l.seq + 1 \in 1..Len(h)
    /\ l.event = h[l.seq + 1]
    /\ l.n = Chunks[l.event.type]
    /\ l.i \in 0..(l.n - 1)
Captured(id, h) == \A l \in FramesIn(log, id) : FrameOf(h, l)

IsOpen(h) == \A k \in 1..Len(h) : h[k].type # "complete"
IsClosed(id, h) ==
    /\ id \in DOMAIN told
    /\ Reports(h, told[id])
    /\ Len(h) # 0
    /\ \A k \in 1..Len(h) : h[k].type = "complete" <=> k = Len(h)
    /\ h[Len(h)].body = <<Len(told[id]), StatusOf(told[id])>>

Intact(id, h) ==
    faults = 0 =>
        /\ \A k \in 1..Len(h) : FramesOf(h[k], Chunks[h[k].type]) \subseteq log
        /\ \A l \in FramesIn(log, id) : l.whole
        /\ BrokenLine(id) \notin log
        /\ \A l \in log : l.kind = "footer" /\ l.run = id =>
              IsClosed(id, h) /\ l.status = StatusOf(told[id])

(* All the cases of the selection, where no case failed. *)
AllRan == StatusOf(outcomes) = 0 => running \in Selections /\ outcomes = Suite[running]
OfLaunch(id, h) ==
    id = run =>
        /\ step \in Emitting => IsOpen(h) /\ Len(h) = seq /\ Reports(h, outcomes)
        /\ step \in {"footer", "exit"} => IsClosed(id, h)
        /\ IsClosed(id, h) => told[id] = outcomes /\ AllRan

History(id, h) ==
    /\ EventsOf(id, h)
    /\ Captured(id, h)
    /\ IsOpen(h) \/ IsClosed(id, h)
    /\ Intact(id, h)
    /\ OfLaunch(id, h)
Remembered(id) == \E h \in Seq(Events) : History(id, h)

DeviceTypes ==
    /\ step \in Steps
    /\ file \in Files \cup {NoFile} /\ text \in Files \cup {NoFile}
    /\ wanted \in Files \cup {NoFile}
    /\ run \in Ids \cup {NoId}
    /\ running \in Selections \cup {NoSelection}
    /\ seq \in Nat /\ outcomes \in Seq(Outcomes) /\ seq >= Len(outcomes)
    /\ log \subseteq Lines
    /\ DOMAIN told \subseteq Ids
    /\ faults \in Nat

(* A run that has no name has said nothing; from the choice of its id on it has one. *)
Named ==
    /\ step \in Unnamed => run = NoId /\ seq = 0 /\ outcomes = <<>>
    /\ step = "parse" => file = NoFile
    /\ step \in Emitting \cup {"footer", "exit"} => run \in Ids

(* No line names the run the settings name, before that run. *)
Fresh(id) == id # NoId => id \notin RunIdsIn(log)
SettingsAreNew ==
    /\ file # NoFile => Fresh(file.id)
    /\ file # NoFile /\ step # "off" => file.id = NoId \/ file.id # run
    /\ step \in {"delete", "parse"} => Fresh(text.id)
    /\ Asked => run = wanted.id \/ Fresh(wanted.id)

(* The cases so far are the selection's first. *)
Ran ==
    /\ step \in {"run", "noted"} =>
          /\ running \in Selections /\ Len(outcomes) <= Len(Suite[running])
          /\ \A k \in 1..Len(outcomes) : outcomes[k] = Suite[running][k]
    /\ step \in {"finish", "footer", "exit"} => AllRan

DeviceInv ==
    /\ LaunchInv
    /\ DeviceTypes /\ Named /\ SettingsAreNew /\ Ran
    /\ \A id \in Ids : Remembered(id)

LEMMA FrameKeys ==
    ASSUME NEW e, NEW n \in Nat
    PROVE  /\ \A l \in FramesOf(e, n) :
                 /\ l.kind = "frame" /\ l.run = e.run /\ l.seq = e.seq /\ l.event = e
                 /\ l.n = n /\ l.i \in 0..(n - 1) /\ l.whole
           /\ \A i \in 0..(n - 1) : Frame(e, i, n) \in FramesOf(e, n) /\ Frame(e, i, n).i = i
<1>1. ASSUME NEW i
      PROVE  LET l == Frame(e, i, n)
             IN  /\ l.kind = "frame" /\ l.run = e.run /\ l.seq = e.seq /\ l.event = e
                 /\ l.n = n /\ l.i = i /\ l.whole
  <2>1. LET l == Frame(e, i, n)
        IN  /\ l.kind = "frame" /\ l.run = e.run /\ l.seq = e.seq /\ l.event = e
            /\ l.n = n /\ l.i = i
    BY DEF Frame
  <2>2. Frame(e, i, n).whole
    BY Zenon DEF Frame
  <2>. QED BY <2>1, <2>2
<1>2. \A l \in FramesOf(e, n) : \E i \in 0..(n - 1) : l = Frame(e, i, n)
  BY DEF FramesOf
<1>3. \A i \in 0..(n - 1) : Frame(e, i, n) \in FramesOf(e, n)
  BY DEF FramesOf
<1> QED BY <1>1, <1>2, <1>3

LEMMA FrameThere ==
    ASSUME NEW e, NEW n \in Nat, NEW i \in 0..(n - 1)
    PROVE  Frame(e, i, n) \in FramesOf(e, n) /\ Frame(e, i, n).i = i
<1>1. Frame(e, i, n) \in FramesOf(e, n)
  BY Zenon DEF FramesOf
<1>2. Frame(e, i, n).i = i
  BY DEF Frame
<1>. QED BY <1>1, <1>2

LEMMA EventKeys ==
    ASSUME NEW e \in Events
    PROVE  /\ e.run \in Ids /\ e.seq \in Nat /\ e.type \in Types
           /\ Chunks[e.type] \in Nat /\ Chunks[e.type] # 0
<1>1. e.run \in Ids /\ e.seq \in Nat /\ e.type \in Types
  BY DEF Events
<1>2. Chunks \in [Types -> Nat \ {0}]
  BY DeviceAssumption
<1> QED BY <1>1, <1>2

LEMMA LineKeys ==
    /\ \A id, s : LET f == Footer(id, s) IN f.kind = "footer" /\ f.run = id /\ f.status = s
    /\ \A id : LET b == BrokenLine(id) IN b.kind = "broken" /\ b.run = id
  BY DEF Footer, BrokenLine

(* What a history rests on: the lines of its id, and what the id was told of. *)
SameOf(id) ==
    /\ \A l \in log \cup log' : l.run = id => l \in log /\ l \in log'
    /\ id \in DOMAIN told' <=> id \in DOMAIN told
    /\ id \in DOMAIN told => told'[id] = told[id]
    /\ faults' = 0 => faults = 0

LEMMA SameHistory ==
    ASSUME NEW id \in Ids, NEW h \in Seq(Events), History(id, h), SameOf(id), OfLaunch(id, h)'
    PROVE  History(id, h)'
<1>1. Captured(id, h)'
  BY DEF History, Captured, FrameOf, FramesIn, SameOf
<1>2. IsClosed(id, h)' <=> IsClosed(id, h)
  BY DEF IsClosed, SameOf
<1>3. Intact(id, h)'
  <2> SUFFICES ASSUME faults' = 0
               PROVE  /\ \A k \in 1..Len(h) : FramesOf(h[k], Chunks[h[k].type]) \subseteq log'
                      /\ \A l \in FramesIn(log', id) : l.whole
                      /\ BrokenLine(id) \notin log'
                      /\ \A l \in log' : l.kind = "footer" /\ l.run = id =>
                            IsClosed(id, h) /\ l.status = StatusOf(told'[id])
    BY <1>2 DEF Intact
  <2>1. /\ \A k \in 1..Len(h) : FramesOf(h[k], Chunks[h[k].type]) \subseteq log
        /\ \A l \in FramesIn(log, id) : l.whole
        /\ BrokenLine(id) \notin log
        /\ \A l \in log : l.kind = "footer" /\ l.run = id =>
                  IsClosed(id, h) /\ l.status = StatusOf(told[id])
    BY DEF History, Intact, SameOf
  <2>2. ASSUME NEW k \in 1..Len(h) PROVE FramesOf(h[k], Chunks[h[k].type]) \subseteq log'
    <3>1. h[k] \in Events /\ h[k].run = id
      BY DEF History, EventsOf
    <3>2. \A l \in FramesOf(h[k], Chunks[h[k].type]) : l.run = id
      BY <3>1, EventKeys, FrameKeys
    <3>. QED BY <2>1, <3>2 DEF SameOf
  <2>3. \A l \in FramesIn(log', id) : l.whole
    BY <2>1 DEF FramesIn, SameOf
  <2>4. BrokenLine(id) \notin log'
    BY <2>1, LineKeys DEF SameOf
  <2>5. \A l \in log' : l.kind = "footer" /\ l.run = id =>
              IsClosed(id, h) /\ l.status = StatusOf(told'[id])
    BY <2>1 DEF SameOf, IsClosed
  <2>. QED BY <2>2, <2>3, <2>4, <2>5
<1> QED BY <1>1, <1>2, <1>3 DEF History, EventsOf, IsOpen

(* Of a run the device does not speak for, nothing changes with its lines. *)
LEMMA OthersRemembered ==
    ASSUME NEW id \in Ids, Remembered(id), SameOf(id), id # run'
    PROVE  Remembered(id)'
<1>1. PICK h \in Seq(Events) : History(id, h)
  BY DEF Remembered
<1>2. OfLaunch(id, h)'
  BY DEF OfLaunch
<1>3. History(id, h)'
  BY <1>1, <1>2, SameHistory
<1> QED BY <1>3 DEF Remembered

(* A step that emits nothing. *)
LEMMA QuietRemembered ==
    ASSUME NEW id \in Ids, Remembered(id),
           UNCHANGED <<log, told, faults, run, running, seq, outcomes>>,
           step' \in Emitting => step \in Emitting,
           step' \in {"footer", "exit"} => step \in {"footer", "exit"}
    PROVE  Remembered(id)'
<1>1. PICK h \in Seq(Events) : History(id, h)
  BY DEF Remembered
<1>2. SameOf(id)
  BY DEF SameOf
<1>3. OfLaunch(id, h)'
  BY <1>1 DEF History, OfLaunch, IsClosed, AllRan
<1>4. History(id, h)'
  BY <1>1, <1>2, <1>3, SameHistory
<1> QED BY <1>4 DEF Remembered

(* A run is named: the log holds no line of it. *)
LEMMA NamedRemembered ==
    ASSUME NEW id \in Ids, run' = id, id \notin RunIdsIn(log), log' = log,
           step' \in Emitting, seq' = 0, outcomes' = <<>>
    PROVE  Remembered(id)'
<1>. DEFINE h == <<>>
<1>1. /\ h \in Seq(Events) /\ Len(h) = 0 /\ 1..0 = {}
  OBVIOUS
<1>2. \A l \in log' : l.run # id
  BY DEF RunIdsIn
<1>3. Reports(h, outcomes')
  BY NothingReports
<1>. HIDE DEF h
<1>4. EventsOf(id, h)' /\ IsOpen(h)' /\ Captured(id, h)' /\ ~IsClosed(id, h)'
  BY <1>1, <1>2 DEF EventsOf, IsOpen, Captured, FramesIn, IsClosed
<1>5. Intact(id, h)'
  BY <1>1, <1>2, LineKeys DEF Intact, FramesIn
<1>6. OfLaunch(id, h)'
  BY <1>1, <1>3, <1>4 DEF OfLaunch, Emitting
<1>7. History(id, h)'
  BY <1>4, <1>5, <1>6 DEF History
<1> QED BY <1>1, <1>7 DEF Remembered

(* An event is emitted: the history grows by it, and all its frames arrive. *)
LEMMA OpenIsNotClosed ==
    ASSUME NEW id, NEW h \in Seq(Events), IsOpen(h)
    PROVE  ~IsClosed(id, h)
  BY DEF IsOpen, IsClosed

LEMMA EventIsEmitted ==
    ASSUME NEW id \in Ids, NEW h \in Seq(Events), History(id, h), IsOpen(h),
           NEW e \in Events, e.run = id, e.seq = Len(h),
           log' = log \cup FramesOf(e, Chunks[e.type]), faults' = faults
    PROVE  LET g == Append(h, e)
           IN  /\ g \in Seq(Events) /\ Len(g) = Len(h) + 1 /\ g[Len(g)] = e
               /\ \A k \in 1..Len(g) : k # Len(g) => k \in 1..Len(h) /\ g[k] = h[k]
               /\ EventsOf(id, g)
               /\ Captured(id, g)'
               /\ Intact(id, g)'
               /\ \A l \in log' : l.kind = "footer" /\ l.run = id => faults # 0
<1>. DEFINE g == Append(h, e)
<1>1. /\ g \in Seq(Events) /\ Len(g) = Len(h) + 1 /\ g[Len(g)] = e /\ Len(h) \in Nat
      /\ \A k \in 1..Len(h) : g[k] = h[k] /\ k \in 1..Len(g)
  OBVIOUS
<1>. HIDE DEF g
<1>2. \A k \in 1..Len(g) : k # Len(g) => k \in 1..Len(h) /\ g[k] = h[k]
  BY <1>1
<1>3. EventsOf(id, h) /\ Captured(id, h) /\ Intact(id, h)
  BY DEF History
<1>4. EventsOf(id, g)
  BY <1>1, <1>2, <1>3 DEF EventsOf
<1>5. \A l \in FramesOf(e, Chunks[e.type]) :
         /\ l.kind = "frame" /\ l.run = id /\ l.seq = Len(h) /\ l.event = e
         /\ l.n = Chunks[e.type] /\ l.i \in 0..(Chunks[e.type] - 1) /\ l.whole
  BY EventKeys, FrameKeys
<1>6. Captured(id, g)'
  <2> SUFFICES ASSUME NEW l \in FramesIn(log', id) PROVE FrameOf(g, l)
    BY DEF Captured
  <2>1. CASE l \in log
    <3>1. FrameOf(h, l)
      BY <1>3, <2>1 DEF Captured, FramesIn
    <3>. QED BY <1>1, <3>1 DEF FrameOf
  <2>2. CASE l \in FramesOf(e, Chunks[e.type])
    <3>1. l.seq + 1 = Len(g) /\ Len(g) \in 1..Len(g)
      BY <1>1, <1>5, <2>2
    <3>. QED BY <1>1, <1>5, <2>2, <3>1 DEF FrameOf
  <2>. QED BY <2>1, <2>2 DEF FramesIn
<1>7. \A l \in log' : l.kind = "footer" /\ l.run = id => faults # 0
  <2> SUFFICES ASSUME NEW l \in log', l.kind = "footer", l.run = id, faults = 0 PROVE FALSE
    OBVIOUS
  <2>1. l \in log
    BY <1>5
  <2>2. IsClosed(id, h)
    BY <1>3, <2>1 DEF Intact
  <2>. QED BY <2>2, OpenIsNotClosed
<1>8. ASSUME faults' = 0
      PROVE  /\ \A k \in 1..Len(g) : FramesOf(g[k], Chunks[g[k].type]) \subseteq log'
             /\ \A l \in FramesIn(log', id) : l.whole
             /\ BrokenLine(id) \notin log'
  <2>1. /\ \A k \in 1..Len(h) : FramesOf(h[k], Chunks[h[k].type]) \subseteq log
        /\ \A l \in FramesIn(log, id) : l.whole
        /\ BrokenLine(id) \notin log
    BY <1>3, <1>8 DEF Intact
  <2>2. \A k \in 1..Len(g) : FramesOf(g[k], Chunks[g[k].type]) \subseteq log'
    BY <1>1, <1>2, <2>1
  <2>3. \A l \in FramesIn(log', id) : l.whole
    BY <1>5, <2>1 DEF FramesIn
  <2>4. BrokenLine(id) \notin log'
    BY <1>5, <2>1, LineKeys
  <2>. QED BY <2>2, <2>3, <2>4
<1>9. Intact(id, g)'
  BY <1>7, <1>8 DEF Intact
<1> QED BY <1>1, <1>2, <1>4, <1>6, <1>7, <1>9 DEF g

LEMMA EmitRemembered ==
    ASSUME NEW id \in Ids, Remembered(id), run = id, run' = id,
           step \in Emitting, step' \in Emitting,
           NEW e \in Events, e.run = id, e.seq = seq, e.type # "complete",
           log' = log \cup FramesOf(e, Chunks[e.type]), seq' = seq + 1,
           outcomes' = IF e.type = "case" THEN Append(outcomes, e.body) ELSE outcomes,
           UNCHANGED <<told, faults>>
    PROVE  Remembered(id)'
<1>1. PICK h \in Seq(Events) : History(id, h)
  BY DEF Remembered
<1>2. IsOpen(h) /\ Len(h) = seq /\ Reports(h, outcomes)
  BY <1>1 DEF History, OfLaunch
<1>. DEFINE g == Append(h, e)
<1>3. /\ g \in Seq(Events) /\ Len(g) = Len(h) + 1 /\ g[Len(g)] = e
      /\ \A k \in 1..Len(g) : k # Len(g) => k \in 1..Len(h) /\ g[k] = h[k]
      /\ EventsOf(id, g) /\ Captured(id, g)' /\ Intact(id, g)'
  BY <1>1, <1>2, EventIsEmitted
<1>4. Reports(g, outcomes')
  BY <1>2, ReportsGrow
<1>. HIDE DEF g
<1>5. IsOpen(g)
  BY <1>2, <1>3 DEF IsOpen
<1>6. ~IsClosed(id, g)'
  BY <1>3, <1>5 DEF IsOpen, IsClosed
<1>7. Len(g) = seq'
  BY <1>2, <1>3
<1>8. OfLaunch(id, g)'
  BY <1>4, <1>5, <1>6, <1>7 DEF OfLaunch, IsOpen, Emitting
<1>9. History(id, g)'
  BY <1>3, <1>5, <1>8 DEF History, EventsOf, IsOpen
<1> QED BY <1>3, <1>9 DEF Remembered

LEMMA FinishRemembered ==
    ASSUME NEW id \in Ids, Remembered(id), run = id, run' = id,
           step = "finish", step' = "footer", AllRan,
           NEW e \in Events, e.run = id, e.seq = seq, e.type = "complete",
           e.body = <<Len(outcomes), StatusOf(outcomes)>>,
           log' = log \cup FramesOf(e, Chunks[e.type]),
           told' = [i \in DOMAIN told \cup {run} |-> IF i = run THEN outcomes ELSE told[i]],
           UNCHANGED <<faults, outcomes, running>>
    PROVE  Remembered(id)'
<1>1. PICK h \in Seq(Events) : History(id, h)
  BY DEF Remembered
<1>2. IsOpen(h) /\ Len(h) = seq /\ Reports(h, outcomes)
  BY <1>1 DEF History, OfLaunch, Emitting
<1>. DEFINE g == Append(h, e)
<1>3. /\ g \in Seq(Events) /\ Len(g) = Len(h) + 1 /\ g[Len(g)] = e
      /\ \A k \in 1..Len(g) : k # Len(g) => k \in 1..Len(h) /\ g[k] = h[k]
      /\ EventsOf(id, g) /\ Captured(id, g)' /\ Intact(id, g)'
  BY <1>1, <1>2, EventIsEmitted
<1>4. Reports(g, outcomes)
  <2>1. Reports(g, IF e.type = "case" THEN Append(outcomes, e.body) ELSE outcomes)
    BY <1>2, ReportsGrow
  <2>. QED BY <2>1
<1>. HIDE DEF g
<1>5. id \in DOMAIN told' /\ told'[id] = outcomes
  OBVIOUS
<1>6. IsClosed(id, g)'
  <2>1. \A k \in 1..Len(g) : g[k].type = "complete" <=> k = Len(g)
    BY <1>2, <1>3 DEF IsOpen
  <2>2. Len(g) # 0
    BY <1>3
  <2>. QED BY <1>3, <1>4, <1>5, <2>1, <2>2 DEF IsClosed
<1>7. OfLaunch(id, g)'
  BY <1>5, <1>6 DEF OfLaunch, Emitting, AllRan
<1>8. History(id, g)'
  BY <1>3, <1>6, <1>7 DEF History, EventsOf
<1> QED BY <1>3, <1>8 DEF Remembered

LEMMA FooterRemembered ==
    ASSUME NEW id \in Ids, Remembered(id), run = id, run' = id,
           step = "footer", step' = "exit",
           log' = log \cup {Footer(id, StatusOf(outcomes))},
           UNCHANGED <<told, faults, outcomes, running, seq>>
    PROVE  Remembered(id)'
<1>1. PICK h \in Seq(Events) : History(id, h)
  BY DEF Remembered
<1>2. IsClosed(id, h) /\ told[id] = outcomes
  BY <1>1 DEF History, OfLaunch
<1>. DEFINE f == Footer(id, StatusOf(outcomes))
<1>3. f.kind = "footer" /\ f.run = id /\ f.status = StatusOf(outcomes)
  BY LineKeys
<1>. HIDE DEF f
<1>4. log' = log \cup {f}
  BY DEF f
<1>5. FramesIn(log', id) = FramesIn(log, id)
  BY <1>3, <1>4 DEF FramesIn
<1>6. Captured(id, h)' /\ IsClosed(id, h)'
  BY <1>1, <1>2, <1>5 DEF Captured, History, IsClosed
<1>7. Intact(id, h)'
  <2>1. BrokenLine(id) \in log' => BrokenLine(id) \in log
    BY <1>3, <1>4, LineKeys
  <2>2. \A l \in log' : l \in log \/ l.status = StatusOf(told'[id])
    BY <1>2, <1>3, <1>4
  <2>. QED BY <1>1, <1>2, <1>4, <1>5, <1>6, <2>1, <2>2 DEF Intact, History, IsClosed
<1>8. OfLaunch(id, h)'
  BY <1>1, <1>6 DEF History, OfLaunch, Emitting, AllRan, IsClosed
<1>9. History(id, h)'
  BY <1>1, <1>6, <1>7, <1>8 DEF History, EventsOf
<1> QED BY <1>9 DEF Remembered

(* A fault only takes lines, or puts back what is left of one: cut frames are
   frames of the same event. *)
LEMMA FaultRemembered ==
    ASSUME NEW id \in Ids, Remembered(id), faults' # 0,
           UNCHANGED <<run, running, seq, outcomes, told, step>>,
           \A l \in FramesIn(log', id) : \E k \in FramesIn(log, id) :
               l.seq = k.seq /\ l.event = k.event /\ l.n = k.n /\ l.i = k.i
    PROVE  Remembered(id)'
<1>1. PICK h \in Seq(Events) : History(id, h)
  BY DEF Remembered
<1>2. Captured(id, h)'
  <2> SUFFICES ASSUME NEW l \in FramesIn(log', id) PROVE FrameOf(h, l)
    BY DEF Captured
  <2>1. PICK k \in FramesIn(log, id) :
            l.seq = k.seq /\ l.event = k.event /\ l.n = k.n /\ l.i = k.i
    OBVIOUS
  <2>. QED BY <1>1, <2>1 DEF History, Captured, FrameOf
<1>3. IsClosed(id, h)' <=> IsClosed(id, h)
  BY DEF IsClosed
<1>4. OfLaunch(id, h)'
  BY <1>1, <1>3 DEF History, OfLaunch, AllRan
<1>5. History(id, h)'
  BY <1>1, <1>2, <1>3, <1>4 DEF History, EventsOf, IsOpen, Intact
<1> QED BY <1>5 DEF Remembered

-----------------------------------------------------------------------------
(* The steps. *)

LEMMA StatusIs == ASSUME NEW cs PROVE StatusOf(cs) \in {0, 1}
  BY DEF StatusOf

LEMMA EventIs ==
    ASSUME NEW type, NEW body, NEW e, e = Event(type, body),
           run \in Ids, seq \in Nat, type \in Types,
           body \in Outcomes \cup Nat \cup (Nat \X Nat)
    PROVE  /\ e \in Events /\ e.run = run /\ e.seq = seq /\ e.type = type /\ e.body = body
           /\ FramesOf(e, Chunks[type]) \subseteq Lines
           /\ \A l \in FramesOf(e, Chunks[type]) : l.run = run
<1>1. e \in Events /\ e.run = run /\ e.seq = seq /\ e.type = type /\ e.body = body
  BY DEF Event, Events
<1>2. Chunks[type] \in Nat
  BY <1>1, EventKeys
<1>3. \A l \in FramesOf(e, Chunks[type]) : l.run = run
  BY <1>1, <1>2, FrameKeys
<1>4. ASSUME NEW l \in FramesOf(e, Chunks[type]) PROVE l \in Lines
  <2>1. PICK i \in 0..(Chunks[type] - 1) : l = Frame(e, i, Chunks[type])
    BY <1>4 DEF FramesOf
  <2>2. i \in Nat /\ e.run \in Ids /\ e.seq \in Nat /\ TRUE \in BOOLEAN
    BY <1>1, <1>2
  <2>3. l \in [kind : {"frame"}, run : Ids, seq : Nat, i : Nat, n : Nat,
               event : Events, whole : BOOLEAN]
    BY <1>1, <1>2, <2>1, <2>2 DEF Frame
  <2>. QED BY <2>3 DEF Lines
<1> QED BY <1>1, <1>3, <1>4

(* The lines an emission adds are of the run. *)
LEMMA OthersKeepLines ==
    ASSUME NEW id, id # run, NEW new, log' = log \cup new, \A l \in new : l.run = run
    PROVE  \A l \in log \cup log' : l.run = id => l \in log /\ l \in log'
  OBVIOUS

LEMMA MoreIds ==
    ASSUME NEW new, log' = log \cup new, \A l \in new : l.run = run
    PROVE  RunIdsIn(log') \subseteq RunIdsIn(log) \cup {run}
  BY DEF RunIdsIn

LEMMA DeviceInitInv == Init => DeviceInv
<1> SUFFICES ASSUME Init PROVE DeviceInv
  OBVIOUS
<1>1. LaunchInv
  BY LaunchInit
<1>2. DeviceTypes
  BY DEF Init, DeviceTypes, Steps
<1>3. Named /\ Ran /\ SettingsAreNew
  BY DEF Init, Named, Ran, SettingsAreNew, Asked, Unnamed, Emitting, NoFile
<1>4. ASSUME NEW id \in Ids PROVE Remembered(id)
  <2>. DEFINE h == <<>>
  <2>1. /\ h \in Seq(Events) /\ Len(h) = 0 /\ 1..0 = {}
    OBVIOUS
  <2>2. log = {} /\ run \notin Ids
    BY DeviceAssumption DEF Init, Ids
  <2>. HIDE DEF h
  <2>3. EventsOf(id, h) /\ IsOpen(h) /\ Captured(id, h) /\ Intact(id, h) /\ OfLaunch(id, h)
    BY <2>1, <2>2 DEF EventsOf, IsOpen, Captured, Intact, OfLaunch, FramesIn
  <2>. QED BY <2>1, <2>3 DEF Remembered, History
<1> QED BY <1>1, <1>2, <1>3, <1>4 DEF DeviceInv

(* What a step does to the log and the histories, in short. *)
LEMMA QuietStep ==
    ASSUME DeviceInv, UNCHANGED <<log, told, faults, run, running, seq, outcomes>>,
           step' \in Emitting => step \in Emitting,
           step' \in {"footer", "exit"} => step \in {"footer", "exit"}
    PROVE  \A id \in Ids : Remembered(id)'
  BY QuietRemembered DEF DeviceInv

LEMMA NamingStep ==
    ASSUME DeviceInv, UNCHANGED <<log, told, faults, seq, outcomes>>,
           step \in Unnamed, step' \in Emitting, run' \in Ids, Fresh(run')
    PROVE  \A id \in Ids : Remembered(id)'
<1> SUFFICES ASSUME NEW id \in Ids PROVE Remembered(id)'
  OBVIOUS
<1>1. Remembered(id) /\ seq' = 0 /\ outcomes' = <<>>
  BY DEF DeviceInv, Named
<1>2. CASE run' = id
  <2>1. id \notin RunIdsIn(log)
    BY <1>2, DeviceAssumption DEF Fresh, Ids
  <2>. QED BY <1>1, <1>2, <2>1, NamedRemembered
<1>3. CASE run' # id
  <2>1. SameOf(id)
    BY DEF SameOf
  <2>. QED BY <1>1, <1>3, <2>1, OthersRemembered
<1> QED BY <1>2, <1>3

LEMMA EmitStep ==
    ASSUME DeviceInv, step \in Emitting, step' \in Emitting,
           UNCHANGED <<told, faults, run>>,
           NEW type \in {"note", "case"}, NEW body \in Outcomes \cup Nat,
           Emit(type, body),
           outcomes' = IF type = "case" THEN Append(outcomes, body) ELSE outcomes
    PROVE  /\ \A id \in Ids : Remembered(id)'
           /\ log' \subseteq Lines /\ RunIdsIn(log') \subseteq RunIdsIn(log) \cup {run}
           /\ seq' = seq + 1
<1>. DEFINE e == Event(type, body)
<1>1. run \in Ids /\ seq \in Nat /\ type \in Types /\ log \subseteq Lines
  BY DEF DeviceInv, DeviceTypes, Named, Types
<1>2. /\ e \in Events /\ e.run = run /\ e.seq = seq /\ e.type = type /\ e.body = body
      /\ FramesOf(e, Chunks[type]) \subseteq Lines
      /\ \A l \in FramesOf(e, Chunks[type]) : l.run = run
  BY <1>1, EventIs
<1>3. log' = log \cup FramesOf(e, Chunks[e.type]) /\ seq' = seq + 1
  BY <1>2 DEF Emit
<1>. HIDE DEF e
<1>4. ASSUME NEW id \in Ids PROVE Remembered(id)'
  <2>1. Remembered(id)
    BY DEF DeviceInv
  <2>2. CASE id = run
    BY <1>2, <1>3, <2>1, <2>2, EmitRemembered
  <2>3. CASE id # run
    <3>1. SameOf(id)
      BY <1>2, <1>3, <2>3, OthersKeepLines DEF SameOf
    <3>. QED BY <2>1, <2>3, <3>1, OthersRemembered
  <2>. QED BY <2>2, <2>3
<1>5. RunIdsIn(log') \subseteq RunIdsIn(log) \cup {run}
  BY <1>2, <1>3, MoreIds
<1> QED BY <1>1, <1>2, <1>3, <1>4, <1>5

LEMMA FinishStep ==
    ASSUME DeviceInv, Finish
    PROVE  /\ \A id \in Ids : Remembered(id)'
           /\ log' \subseteq Lines /\ RunIdsIn(log') \subseteq RunIdsIn(log) \cup {run}
           /\ seq' = seq + 1 /\ DOMAIN told' \subseteq Ids
<1>. DEFINE body == <<Len(outcomes), StatusOf(outcomes)>>
            e == Event("complete", body)
<1>1. /\ run \in Ids /\ seq \in Nat /\ log \subseteq Lines /\ AllRan
      /\ outcomes \in Seq(Outcomes) /\ "complete" \in Types /\ DOMAIN told \subseteq Ids
      /\ step = "finish" /\ step' = "footer"
      /\ UNCHANGED <<run, running, outcomes, faults>>
      /\ told' = [i \in DOMAIN told \cup {run} |-> IF i = run THEN outcomes ELSE told[i]]
  BY DEF DeviceInv, DeviceTypes, Named, Types, Finish, Emitting, Ran
<1>2. body \in Nat \X Nat
  BY <1>1, StatusIs
<1>3. log' = log \cup FramesOf(e, Chunks["complete"]) /\ seq' = seq + 1
  BY DEF Finish, Emit, FinishStatus
<1>. HIDE DEF body
<1>4. /\ e \in Events /\ e.run = run /\ e.seq = seq /\ e.type = "complete" /\ e.body = body
      /\ FramesOf(e, Chunks["complete"]) \subseteq Lines
      /\ \A l \in FramesOf(e, Chunks["complete"]) : l.run = run
  BY <1>1, <1>2, EventIs
<1>. HIDE DEF e
<1>5. ASSUME NEW id \in Ids PROVE Remembered(id)'
  <2>1. Remembered(id)
    BY DEF DeviceInv
  <2>2. CASE id = run
    BY <1>1, <1>3, <1>4, <2>1, <2>2, FinishRemembered DEF body
  <2>3. CASE id # run
    <3>1. \A l \in log \cup log' : l.run = id => l \in log /\ l \in log'
      BY <1>3, <1>4, <2>3, OthersKeepLines
    <3>2. /\ id \in DOMAIN told' <=> id \in DOMAIN told
          /\ id \in DOMAIN told => told'[id] = told[id]
      BY <1>1, <2>3
    <3>3. SameOf(id)
      BY <1>1, <3>1, <3>2 DEF SameOf
    <3>. QED BY <1>1, <2>1, <2>3, <3>3, OthersRemembered
  <2>. QED BY <2>2, <2>3
<1>6. RunIdsIn(log') \subseteq RunIdsIn(log) \cup {run}
  BY <1>3, <1>4, MoreIds
<1> QED BY <1>1, <1>3, <1>4, <1>5, <1>6

LEMMA FooterStep ==
    ASSUME DeviceInv, PrintFooter
    PROVE  /\ \A id \in Ids : Remembered(id)'
           /\ log' \subseteq Lines /\ RunIdsIn(log') \subseteq RunIdsIn(log) \cup {run}
<1>1. /\ run \in Ids /\ log \subseteq Lines /\ step = "footer" /\ step' = "exit"
      /\ log' = log \cup {Footer(run, StatusOf(outcomes))}
      /\ UNCHANGED <<run, running, outcomes, seq, told, faults>>
  BY DEF DeviceInv, DeviceTypes, Named, PrintFooter, FinishStatus, device
<1>. DEFINE f == Footer(run, StatusOf(outcomes))
<1>2. f \in Lines
  <2>1. f \in [kind : {"footer"}, run : Ids, status : {0, 1}]
    BY <1>1, StatusIs DEF Footer
  <2>. QED BY <2>1 DEF Lines
<1>3. f.run = run
  BY LineKeys
<1>4. log' = log \cup {f} /\ \A l \in {f} : l.run = run
  BY <1>1, <1>3
<1>. HIDE DEF f
<1>5. ASSUME NEW id \in Ids PROVE Remembered(id)'
  <2>1. Remembered(id)
    BY DEF DeviceInv
  <2>2. CASE id = run
    BY <1>1, <2>1, <2>2, FooterRemembered
  <2>3. CASE id # run
    <3>1. SameOf(id)
      BY <1>1, <1>3, <1>4, <2>3, OthersKeepLines DEF SameOf
    <3>. QED BY <1>1, <2>1, <2>3, <3>1, OthersRemembered
  <2>. QED BY <2>2, <2>3
<1>6. RunIdsIn(log') \subseteq RunIdsIn(log) \cup {run}
  BY <1>4 DEF RunIdsIn
<1> QED BY <1>1, <1>2, <1>4, <1>5, <1>6

LEMMA LineRuns == ASSUME NEW l \in Lines PROVE l.run \in Ids \cup {CutId}
  BY DEF Lines

LEMMA CutIs ==
    ASSUME NEW l \in Lines, NEW c \in CutForms(l)
    PROVE  /\ c \in Lines /\ c.run \in {l.run, CutId}
           /\ c.kind = "frame" => /\ l.kind = "frame" /\ c.run = l.run /\ c.seq = l.seq
                                  /\ c.event = l.event /\ c.n = l.n /\ c.i = l.i
<1>1. ASSUME NEW r \in {l.run, CutId}, c = BrokenLine(r)
      PROVE  c \in Lines /\ c.run = r /\ c.kind = "broken"
  <2>1. r \in Ids \cup {CutId}
    BY LineRuns
  <2>2. c \in [kind : {"broken"}, run : Ids \cup {CutId}]
    BY <1>1, <2>1 DEF BrokenLine
  <2>. QED BY <1>1, <2>2, LineKeys DEF Lines
<1>2. ASSUME l.kind = "frame", c = Short(l)
      PROVE  /\ c \in Lines /\ c.run = l.run /\ c.seq = l.seq
             /\ c.event = l.event /\ c.n = l.n /\ c.i = l.i
  <2>1. l \in [kind : {"frame"}, run : Ids, seq : Nat, i : Nat, n : Nat,
               event : Events, whole : BOOLEAN]
    BY <1>2 DEF Lines
  <2>2. /\ c.run = l.run /\ c.seq = l.seq /\ c.event = l.event /\ c.n = l.n /\ c.i = l.i
    BY <1>2, <2>1 DEF Short
  <2>3. FALSE \in BOOLEAN
    OBVIOUS
  <2>4. c \in [kind : {"frame"}, run : Ids, seq : Nat, i : Nat, n : Nat,
               event : Events, whole : BOOLEAN]
    BY <1>2, <2>1, <2>3 DEF Short
  <2>. QED BY <2>2, <2>4 DEF Lines
<1>3. \/ c = BrokenLine(CutId) \/ c = BrokenLine(l.run)
      \/ l.kind = "frame" /\ c = Short(l)
  BY DEF CutForms
<1> QED BY <1>1, <1>2, <1>3

LEMMA FaultStep ==
    ASSUME DeviceInv, Fault
    PROVE  /\ \A id \in Ids : Remembered(id)'
           /\ log' \subseteq Lines /\ RunIdsIn(log') \subseteq RunIdsIn(log) \cup {CutId}
           /\ faults' \in Nat
<1>1. /\ log \subseteq Lines /\ faults \in Nat /\ faults' = faults + 1
      /\ UNCHANGED <<step, file, text, run, running, seq, outcomes, wanted, told>>
  BY DEF DeviceInv, DeviceTypes, Fault, device
<1>2. PICK l \in log : log' \subseteq log \cup CutForms(l)
  BY DEF Fault
<1>3. \A c \in CutForms(l) :
          /\ c \in Lines /\ c.run \in {l.run, CutId}
          /\ c.kind = "frame" => /\ l.kind = "frame" /\ c.run = l.run /\ c.seq = l.seq
                                 /\ c.event = l.event /\ c.n = l.n /\ c.i = l.i
  BY <1>1, <1>2, CutIs
<1>4. ASSUME NEW id \in Ids PROVE Remembered(id)'
  <2>1. Remembered(id) /\ faults' # 0
    BY <1>1 DEF DeviceInv
  <2>2. \A m \in FramesIn(log', id) : \E k \in FramesIn(log, id) :
            m.seq = k.seq /\ m.event = k.event /\ m.n = k.n /\ m.i = k.i
    BY <1>2, <1>3 DEF FramesIn
  <2>. QED BY <1>1, <2>1, <2>2, FaultRemembered
<1>5. RunIdsIn(log') \subseteq RunIdsIn(log) \cup {CutId}
  BY <1>2, <1>3 DEF RunIdsIn
<1> QED BY <1>1, <1>2, <1>3, <1>4, <1>5

(* The settings' run stays without a line while the run that speaks is another,
   and a cut id is nobody's. *)
LEMMA StaysNew ==
    ASSUME SettingsAreNew, DeviceTypes,
           UNCHANGED <<file, text, wanted, launches, run>>,
           RunIdsIn(log') \subseteq RunIdsIn(log) \cup {run, CutId},
           step' \notin {"delete", "parse"},
           \/ step # "off" /\ step' # "off"
           \/ step' = "off" /\ RunIdsIn(log') \subseteq RunIdsIn(log) \cup {CutId}
    PROVE  SettingsAreNew'
<1>1. /\ file # NoFile => file.id \in GivenIds \cup {NoId}
      /\ Asked => wanted.id \in GivenIds \cup {NoId}
  <2>1. file # NoFile => file.id \in GivenIds \cup {NoId}
    BY DEF DeviceTypes, Files
  <2>2. Asked => wanted # NoFile
    BY DEF Asked, NoFile
  <2>3. Asked => wanted.id \in GivenIds \cup {NoId}
    BY <2>2 DEF DeviceTypes, Files
  <2>. QED BY <2>1, <2>3, DeviceAssumption
<1>2. file # NoFile => Fresh(file.id)'
  BY <1>1, DeviceAssumption DEF SettingsAreNew, Fresh
<1>3. Asked' => run' = wanted'.id \/ Fresh(wanted.id)'
  BY <1>1, DeviceAssumption DEF SettingsAreNew, Fresh, Asked
<1> QED BY <1>2, <1>3 DEF SettingsAreNew

(* The rest of the invariant, for the steps before the run has its name ... *)
Rest == DeviceTypes /\ Named /\ SettingsAreNew /\ Ran

LEMMA SettingsSteps ==
    ASSUME DeviceInv,
           WriteSettings \/ Launch \/ OutputsEmptied \/ ReadSettings \/ DeleteSettings
    PROVE  Rest' /\ \A id \in Ids : Remembered(id)'
<1>0. LaunchInv /\ DeviceTypes /\ Named /\ SettingsAreNew /\ Ran
  BY DEF DeviceInv
<1>1. CASE WriteSettings
  <2>1. /\ step = "off" /\ step' = "off" /\ launches \in Nat
        /\ UNCHANGED <<text, run, running, seq, outcomes, log, launches, told, faults>>
    BY <1>0, <1>1 DEF WriteSettings, device, LaunchInv, Numbered
  <2>2. PICK id \in {i \in GivenIds : ~Started(i)} \cup {NoId}, sel \in Selections,
             ok \in BOOLEAN : file' = Settings(id, sel, ok, launches + 1) /\ wanted' = file'
    BY <1>1 DEF WriteSettings
  <2>3. file' \in Files /\ file'.id = id /\ file'.launch = launches + 1
    <3>1. id \in GivenIds \cup {NoId} /\ launches + 1 \in Nat
      BY <2>1, <2>2
    <3>. QED BY <2>2, <3>1 DEF Settings, Files
  <2>4. DeviceTypes'
    BY <1>0, <2>1, <2>2, <2>3 DEF DeviceTypes
  <2>5. ~Asked'
    BY <2>1, <2>2, <2>3 DEF Asked
  <2>6. SettingsAreNew'
    BY <2>1, <2>2, <2>3, <2>5 DEF SettingsAreNew, Fresh, Started
  <2>7. Named' /\ Ran'
    BY <1>0, <2>1 DEF Named, Ran, Unnamed, Emitting
  <2>8. \A i \in Ids : Remembered(i)'
    BY <2>1, QuietStep DEF Emitting
  <2>. QED BY <2>4, <2>6, <2>7, <2>8 DEF Rest
<1>2. CASE Launch
  <2>1. /\ step = "off" /\ step' = "outputs" /\ launches' = launches + 1
        /\ text' = NoFile /\ run' = NoId /\ running' = NoSelection
        /\ seq' = 0 /\ outcomes' = <<>>
        /\ UNCHANGED <<file, log, wanted, told, faults>>
    BY <1>2 DEF Launch
  <2>2. DeviceTypes'
    BY <1>0, <2>1 DEF DeviceTypes, Steps
  <2>3. SettingsAreNew'
    <3>1. Asked' => file = wanted /\ file # NoFile
      BY <1>0, <2>1 DEF LaunchInv, Pending, Asked
    <3>. QED BY <1>0, <2>1, <3>1 DEF SettingsAreNew, Fresh
  <2>4. Named' /\ Ran'
    BY <2>1 DEF Named, Ran, Unnamed, Emitting
  <2>5. ASSUME NEW id \in Ids PROVE Remembered(id)'
    <3>1. SameOf(id) /\ id # run' /\ Remembered(id)
      BY <2>1, DeviceAssumption DEF SameOf, Ids, DeviceInv
    <3>. QED BY <3>1, OthersRemembered
  <2>. QED BY <2>2, <2>3, <2>4, <2>5 DEF Rest
<1>3. CASE OutputsEmptied \/ ReadSettings \/ DeleteSettings
  <2>1. /\ step \in Unnamed /\ step' \in Unnamed
        /\ file' \in {file, NoFile}
        /\ text' \in {file, text}
        /\ step' = "parse" => file' = NoFile
        /\ step' \in {"delete", "parse"} => text' = IF step = "read" THEN file ELSE text
        /\ step = "read" => file # NoFile
        /\ step' = "parse" => step = "delete"
        /\ step' = "delete" => step = "read"
        /\ UNCHANGED <<run, running, seq, outcomes, log, wanted, launches, told, faults>>
    BY <1>3 DEF OutputsEmptied, ReadSettings, DeleteSettings, device, Unnamed
  <2>2. DeviceTypes'
    <3>1. step' \in Steps
      BY <2>1 DEF Unnamed, Steps
    <3>. QED BY <1>0, <2>1, <3>1 DEF DeviceTypes
  <2>3. SettingsAreNew'
    <3>1. file' # NoFile => file' = file /\ Fresh(file'.id)
      BY <1>0, <2>1 DEF SettingsAreNew
    <3>2. file' # NoFile => file'.id = NoId \/ file'.id # run
      BY <1>0, <2>1, <3>1 DEF SettingsAreNew, Unnamed
    <3>3. step' \in {"delete", "parse"} => Fresh(text'.id)
      BY <1>0, <2>1 DEF SettingsAreNew
    <3>4. Asked' => run = wanted.id \/ Fresh(wanted.id)
      BY <1>0, <2>1 DEF SettingsAreNew, Asked
    <3>. QED BY <2>1, <3>1, <3>2, <3>3, <3>4 DEF SettingsAreNew, Fresh
  <2>4. Named' /\ Ran'
    BY <1>0, <2>1 DEF Named, Ran, Unnamed, Emitting
  <2>5. \A id \in Ids : Remembered(id)'
    BY <2>1, QuietStep DEF Emitting, Unnamed
  <2>. QED BY <2>2, <2>3, <2>4, <2>5 DEF Rest
<1> QED BY <1>1, <1>2, <1>3

(* ... for those that give it one ... *)
LEMMA NamingSteps ==
    ASSUME DeviceInv,
           \/ OutputsFail \/ ReadFails \/ NoSettings \/ DeleteFails \/ Parsed \/ NotParsed
    PROVE  Rest' /\ \A id \in Ids : Remembered(id)'
<1>0. /\ LaunchInv /\ DeviceTypes /\ Named /\ SettingsAreNew /\ Ran
      /\ All \in Selections /\ NoSelection \notin Selections
      /\ GivenIds \cap FreshIds = {} /\ NoId \notin GivenIds \cup FreshIds
  BY DeviceAssumption DEF DeviceInv
<1>1. /\ step \in Unnamed /\ step' \in {"error", "run"}
      /\ UNCHANGED <<file, seq, outcomes, log, wanted, launches, told, faults>>
      /\ text' \in {text, NoFile}
  BY DEF OutputsFail, ReadFails, NoSettings, DeleteFails, Parsed, NotParsed, Fails, Unnamed
<1>2. /\ run' \in Ids
      /\ \/ run' \in FreshIds /\ run' \notin RunIdsIn(log)
         \/ step = "parse" /\ run' = text.id
  BY DEF OutputsFail, ReadFails, NoSettings, DeleteFails, Parsed, NotParsed, Fails,
         NewId, Started, Names, Ids
<1>3. Fresh(run')
  BY <1>0, <1>2 DEF Fresh, SettingsAreNew
<1>4. running' \in Selections \cup {NoSelection} /\ (step' = "run" => running' \in Selections)
  <2>1. CASE NoSettings
    BY <1>0, <2>1 DEF NoSettings
  <2>2. CASE Parsed
    <3>1. text # NoFile /\ step = "parse"
      BY <1>0, <2>2 DEF LaunchInv, ReadIsWanted, Parsed
    <3>2. text \in Files
      BY <1>0, <3>1 DEF DeviceTypes
    <3>. QED BY <2>2, <3>2 DEF Parsed, Files
  <2>3. CASE OutputsFail \/ ReadFails \/ DeleteFails \/ NotParsed
    BY <1>0, <2>3 DEF OutputsFail, ReadFails, DeleteFails, NotParsed, Fails, DeviceTypes
  <2>. QED BY <2>1, <2>2, <2>3
<1>5. DeviceTypes'
  BY <1>0, <1>1, <1>2, <1>4 DEF DeviceTypes, Steps
<1>6. seq = 0 /\ outcomes = <<>> /\ run = NoId /\ (step = "parse" => file = NoFile)
  BY <1>0, <1>1 DEF Named
<1>7. Named'
  BY <1>1, <1>2 DEF Named, Unnamed, Emitting
<1>8. Ran'
  <2>1. step' = "run" => Suite[running'] \in Seq(Outcomes)
    BY <1>4, DeviceAssumption
  <2>2. outcomes' = <<>> /\ Len(<<>>) = 0 /\ 1..0 = {}
    BY <1>1, <1>6
  <2>3. step' = "run" => 0 <= Len(Suite[running'])
    BY <2>1
  <2>. QED BY <1>1, <1>4, <2>2, <2>3 DEF Ran
<1>9. SettingsAreNew'
  <2>1. file # NoFile => file.id \in GivenIds \cup {NoId}
    BY <1>0 DEF DeviceTypes, Files
  <2>2. file' # NoFile => file'.id = NoId \/ file'.id # run'
    BY <1>0, <1>1, <1>2, <1>6, <2>1
  <2>3. file' # NoFile => Fresh(file'.id)
    BY <1>0, <1>1 DEF SettingsAreNew
  <2>4. Asked' => Fresh(wanted.id)
    BY <1>0, <1>1, <1>6 DEF SettingsAreNew, Asked, Fresh
  <2>. QED BY <1>1, <2>2, <2>3, <2>4 DEF SettingsAreNew, Fresh
<1>10. \A id \in Ids : Remembered(id)'
  BY <1>1, <1>2, <1>3, NamingStep DEF Emitting
<1> QED BY <1>5, <1>7, <1>8, <1>9, <1>10 DEF Rest

(* ... for those that emit under it ... *)
LEMMA EmittingSteps ==
    ASSUME DeviceInv, LoadError \/ Note \/ RunCase \/ SuiteEnds
    PROVE  Rest' /\ \A id \in Ids : Remembered(id)'
<1>0. /\ DeviceTypes /\ Named /\ SettingsAreNew /\ Ran
      /\ UNCHANGED <<file, text, run, running, wanted, launches, told, faults>>
      /\ step \in Emitting /\ step' \in Emitting
  BY DEF DeviceInv, LoadError, Note, RunCase, SuiteEnds, Emitting
<1>1. outcomes \in Seq(Outcomes) /\ seq \in Nat /\ seq >= Len(outcomes) /\ Len(outcomes) \in Nat
  BY <1>0 DEF DeviceTypes
<1>2. /\ step \in {"run", "noted"} =>
            /\ running \in Selections /\ Suite[running] \in Seq(Outcomes)
            /\ Len(outcomes) <= Len(Suite[running])
            /\ \A k \in 1..Len(outcomes) : outcomes[k] = Suite[running][k]
  BY <1>0, DeviceAssumption DEF Ran
<1>3. CASE UNCHANGED <<outcomes, seq, log>>
  <2>1. step = "run" /\ step' = "finish" /\ Left = 0
    BY <1>1, <1>3 DEF LoadError, Note, RunCase, SuiteEnds, Emit, CaseDone
  <2>2. outcomes = Suite[running] /\ running \in Selections
    <3>1. Len(outcomes) = Len(Suite[running]) /\ Suite[running] \in Seq(Outcomes)
      BY <1>1, <1>2, <2>1 DEF Left
    <3>. QED BY <1>1, <1>2, <2>1, <3>1
  <2>3. Ran'
    BY <1>0, <1>3, <2>1, <2>2 DEF Ran, AllRan
  <2>4. DeviceTypes' /\ Named'
    BY <1>0, <1>3 DEF DeviceTypes, Named, Emitting, Unnamed, Steps
  <2>5. SettingsAreNew'
    BY <1>0, <1>3, StaysNew DEF Emitting
  <2>6. \A id \in Ids : Remembered(id)'
    BY <1>0, <1>3, QuietStep DEF Emitting
  <2>. QED BY <2>3, <2>4, <2>5, <2>6 DEF Rest
<1>4. CASE Note
  <2>1. Emit("note", Len(outcomes)) /\ outcomes' = outcomes /\ step = "run" /\ step' = "noted"
    BY <1>4 DEF Note
  <2>2. /\ \A id \in Ids : Remembered(id)'
        /\ log' \subseteq Lines /\ RunIdsIn(log') \subseteq RunIdsIn(log) \cup {run}
        /\ seq' = seq + 1
    BY <1>0, <1>1, <2>1, EmitStep
  <2>3. DeviceTypes' /\ Named' /\ Ran'
    BY <1>0, <1>1, <2>1, <2>2 DEF DeviceTypes, Named, Ran, Emitting, Unnamed, Steps
  <2>4. SettingsAreNew'
    BY <1>0, <2>2, StaysNew DEF Emitting
  <2>. QED BY <2>2, <2>3, <2>4 DEF Rest
<1>5. ASSUME NEW o \in Outcomes, CaseDone(o),
             \/ step' = "finish" /\ o = "error"
             \/ /\ step \in {"run", "noted"} /\ step' = "run"
                /\ Len(outcomes) < Len(Suite[running]) /\ o = Suite[running][Len(outcomes) + 1]
      PROVE  Rest' /\ \A id \in Ids : Remembered(id)'
  <2>1. Emit("case", o) /\ outcomes' = Append(outcomes, o)
    BY <1>5 DEF CaseDone
  <2>2. /\ \A id \in Ids : Remembered(id)'
        /\ log' \subseteq Lines /\ RunIdsIn(log') \subseteq RunIdsIn(log) \cup {run}
        /\ seq' = seq + 1
    BY <1>0, <2>1, EmitStep
  <2>3. /\ outcomes' \in Seq(Outcomes) /\ Len(outcomes') = Len(outcomes) + 1
        /\ outcomes'[Len(outcomes) + 1] = o
        /\ \A k \in 1..Len(outcomes) : outcomes'[k] = outcomes[k]
    BY <1>1, <2>1
  <2>4. DeviceTypes' /\ Named'
    BY <1>0, <1>1, <2>2, <2>3 DEF DeviceTypes, Named, Emitting, Unnamed, Steps
  <2>5. Ran'
    <3>1. CASE step' = "finish" /\ o = "error"
      <4>1. Len(outcomes) + 1 \in 1..Len(outcomes') /\ IsFailing(outcomes'[Len(outcomes) + 1])
        BY <1>1, <2>3, <3>1 DEF IsFailing
      <4>2. StatusOf(outcomes') = 1
        BY <4>1 DEF StatusOf
      <4>. QED BY <3>1, <4>2 DEF Ran, AllRan
    <3>2. CASE /\ step \in {"run", "noted"} /\ step' = "run"
               /\ Len(outcomes) < Len(Suite[running]) /\ o = Suite[running][Len(outcomes) + 1]
      <4>1. Len(outcomes') <= Len(Suite[running])
        BY <1>1, <1>2, <2>3, <3>2
      <4>2. \A k \in 1..Len(outcomes') : outcomes'[k] = Suite[running][k]
        BY <1>1, <1>2, <2>3, <3>2
      <4>. QED BY <1>0, <1>2, <3>2, <4>1, <4>2 DEF Ran
    <3>. QED BY <1>5, <3>1, <3>2
  <2>6. SettingsAreNew'
    BY <1>0, <2>2, StaysNew DEF Emitting
  <2>. QED BY <2>2, <2>4, <2>5, <2>6 DEF Rest
<1>6. CASE RunCase
  <2>1. /\ step \in {"run", "noted"} /\ step' = "run" /\ Left > 0
        /\ CaseDone(Suite[running][Len(outcomes) + 1])
    BY <1>6 DEF RunCase
  <2>2. Len(outcomes) < Len(Suite[running]) /\ Suite[running][Len(outcomes) + 1] \in Outcomes
    <3>1. Len(Suite[running]) \in Nat /\ Len(outcomes) < Len(Suite[running])
      BY <1>1, <1>2, <2>1 DEF Left
    <3>. QED BY <1>1, <1>2, <2>1, <3>1
  <2>. QED BY <1>5, <2>1, <2>2
<1>7. CASE LoadError \/ SuiteEnds
  <2>1. UNCHANGED <<outcomes, seq, log>> \/ (CaseDone("error") /\ step' = "finish")
    BY <1>7 DEF LoadError, SuiteEnds
  <2>. QED BY <1>3, <1>5, <2>1 DEF Outcomes
<1> QED BY <1>4, <1>6, <1>7

(* ... and for the end of the run, and what happens to the log meanwhile. *)
LEMMA EndingSteps ==
    ASSUME DeviceInv, Finish \/ PrintFooter \/ Gone \/ Fault \/ UNCHANGED vars
    PROVE  Rest' /\ \A id \in Ids : Remembered(id)'
<1>0. /\ DeviceTypes /\ Named /\ SettingsAreNew /\ Ran
  BY DEF DeviceInv
<1>1. CASE Finish
  <2>1. /\ step = "finish" /\ step' = "footer" /\ AllRan
        /\ UNCHANGED <<file, text, run, running, outcomes, wanted, launches, faults>>
    BY <1>0, <1>1 DEF Finish, Ran
  <2>2. /\ \A id \in Ids : Remembered(id)'
        /\ log' \subseteq Lines /\ RunIdsIn(log') \subseteq RunIdsIn(log) \cup {run}
        /\ seq' = seq + 1 /\ DOMAIN told' \subseteq Ids
    BY <1>1, FinishStep
  <2>3. seq \in Nat /\ Len(outcomes) \in Nat /\ seq >= Len(outcomes)
    BY <1>0 DEF DeviceTypes
  <2>4. DeviceTypes' /\ Named' /\ Ran'
    BY <1>0, <2>1, <2>2, <2>3 DEF DeviceTypes, Named, Ran, AllRan, Emitting, Unnamed, Steps
  <2>5. SettingsAreNew'
    BY <1>0, <2>1, <2>2, StaysNew
  <2>. QED BY <2>2, <2>4, <2>5 DEF Rest
<1>2. CASE PrintFooter
  <2>1. /\ step = "footer" /\ step' = "exit" /\ AllRan
        /\ UNCHANGED <<file, text, run, running, seq, outcomes, told, wanted, launches, faults>>
    BY <1>0, <1>2 DEF PrintFooter, Ran, device
  <2>2. /\ \A id \in Ids : Remembered(id)'
        /\ log' \subseteq Lines /\ RunIdsIn(log') \subseteq RunIdsIn(log) \cup {run}
    BY <1>2, FooterStep
  <2>3. DeviceTypes' /\ Named' /\ Ran'
    BY <1>0, <2>1, <2>2 DEF DeviceTypes, Named, Ran, AllRan, Emitting, Unnamed, Steps
  <2>4. SettingsAreNew'
    BY <1>0, <2>1, <2>2, StaysNew
  <2>. QED BY <2>2, <2>3, <2>4 DEF Rest
<1>3. CASE Gone
  <2>1. /\ step' = "off"
        /\ UNCHANGED <<file, text, run, running, seq, outcomes, log, told, wanted, launches,
                       faults>>
    BY <1>3 DEF Gone, device
  <2>2. DeviceTypes' /\ Named' /\ Ran'
    BY <1>0, <2>1 DEF DeviceTypes, Named, Ran, Emitting, Unnamed, Steps
  <2>3. SettingsAreNew'
    BY <1>0, <2>1, StaysNew
  <2>4. \A id \in Ids : Remembered(id)'
    BY <2>1, QuietStep DEF Emitting
  <2>. QED BY <2>2, <2>3, <2>4 DEF Rest
<1>4. CASE Fault
  <2>1. /\ step = "off" /\ step' = "off"
        /\ UNCHANGED <<file, text, run, running, seq, outcomes, told, wanted, launches>>
    BY <1>4 DEF Fault, device
  <2>2. /\ \A id \in Ids : Remembered(id)'
        /\ log' \subseteq Lines /\ RunIdsIn(log') \subseteq RunIdsIn(log) \cup {CutId}
        /\ faults' \in Nat
    BY <1>4, FaultStep
  <2>3. DeviceTypes' /\ Named' /\ Ran'
    BY <1>0, <2>1, <2>2 DEF DeviceTypes, Named, Ran, Emitting, Unnamed, Steps
  <2>4. SettingsAreNew'
    BY <1>0, <2>1, <2>2, StaysNew
  <2>. QED BY <2>2, <2>3, <2>4 DEF Rest
<1>5. CASE UNCHANGED vars
  <2>1. UNCHANGED <<step, file, text, run, running, seq, outcomes, log, told, wanted, launches,
                    faults>>
    BY <1>5 DEF vars
  <2>2. Rest'
    BY <1>0, <2>1 DEF Rest, DeviceTypes, Named, Ran, AllRan, SettingsAreNew, Fresh, Asked
  <2>3. \A id \in Ids : Remembered(id)'
    BY <2>1, QuietStep
  <2>. QED BY <2>2, <2>3
<1> QED BY <1>1, <1>2, <1>3, <1>4, <1>5

LEMMA DeviceStepInv == DeviceInv /\ [Next]_vars => DeviceInv'
<1> SUFFICES ASSUME DeviceInv, [Next]_vars PROVE DeviceInv'
  OBVIOUS
<1>1. LaunchInv'
  BY LaunchStep DEF DeviceInv
<1>2. Rest' /\ \A id \in Ids : Remembered(id)'
  BY SettingsSteps, NamingSteps, EmittingSteps, EndingSteps DEF Next
<1> QED BY <1>1, <1>2 DEF DeviceInv, Rest

-----------------------------------------------------------------------------
(* What decodes.  The frames the decoder takes are whole, each of the event the
   history has at its number, and none is missing; so what it reads is the
   history up to a complete event, and only a closed one has that.             *)

LEMMA NumbersCounted ==
    ASSUME NEW n \in Nat
    PROVE  IsFiniteSet(0..(n - 1)) /\ Cardinality(0..(n - 1)) = n
<1>1. 0 \in Int /\ n - 1 \in Int
  OBVIOUS
<1>2. IsFiniteSet(0..(n - 1)) /\ Cardinality(0..(n - 1)) = IF 0 > n - 1 THEN 0 ELSE n - 1 - 0 + 1
  BY <1>1, FS_Interval
<1> QED BY <1>2

LEMMA DecodedIsTold ==
    ASSUME DeviceInv, NEW id \in RunIdsIn(log), DecodeRun(log, id).ok
    PROVE  /\ id \in Ids /\ id \in DOMAIN told
           /\ DecodeRun(log, id).run = id
           /\ DecodeRun(log, id).cases = told[id]
           /\ DecodeRun(log, id).status = StatusOf(told[id])
           /\ id = run => told[id] = outcomes /\ AllRan
<1>. DEFINE F  == FramesIn(log, id)
            N  == Cardinality(Seqs(F))
            es == Payloads(F)
            st == CHOOSE s \in StatusesIn(log, id) : TRUE
<1>1. /\ TransportOk(log, id) /\ (\A s \in Seqs(F) : Parses(F, s)) /\ Consistent(es, st)
      /\ DecodeRun(log, id) = [ok |-> TRUE, run |-> id, cases |-> CasesIn(es), status |-> st]
  <2>1. ~Failed.ok
    BY Zenon DEF Failed
  <2>. QED BY <2>1, Zenon DEF DecodeRun
<1>2. /\ BrokenLine(id) \notin log /\ (\A f \in F : ChunkFits(f)) /\ F # {}
      /\ Seqs(F) = 0..(N - 1)
      /\ \A f \in F : {g.i : g \in ChunksOf(F, f.seq)} = 0..(f.n - 1)
  BY <1>1 DEF TransportOk, WellFormed, NothingMissing
<1>3. /\ {k \in 1..Len(es) : es[k].type = "complete"} = {Len(es)}
      /\ es[Len(es)].body = <<Len(CasesIn(es)), st>>
      /\ StatusOf(CasesIn(es)) = st
  BY <1>1 DEF Consistent
<1>4. es = [k \in 1..N |-> EventAt(F, k - 1)]
  BY DEF Payloads
<1>5. DecodeRun(log, id).run = id /\ DecodeRun(log, id).cases = CasesIn(es)
      /\ DecodeRun(log, id).status = st
  BY <1>1
<1>. HIDE DEF es, st
<1>6. id \in Ids
  <2>1. PICK l \in log : l.run = id
    BY DEF RunIdsIn
  <2>2. PICK f \in F : TRUE
    BY <1>2
  <2>3. f \in Lines /\ f.kind = "frame" /\ f.run = id
    BY <2>2 DEF FramesIn, DeviceInv, DeviceTypes
  <2>. QED BY <2>3 DEF Lines
<1>7. PICK h \in Seq(Events) : History(id, h)
  BY <1>6 DEF DeviceInv, Remembered
<1>8. \A f \in F : FrameOf(h, f) /\ f.seq \in Nat
  <2>1. \A f \in F : FrameOf(h, f)
    BY <1>7 DEF History, Captured
  <2>2. \A f \in F : f \in Lines /\ f.kind = "frame"
    BY DEF FramesIn, DeviceInv, DeviceTypes
  <2>. QED BY <2>1, <2>2 DEF Lines
<1>9. \A f \in F : f.whole
  BY <1>1, <1>2 DEF ChunkFits, Parses, Seqs, ChunksOf
<1>10. N \in Nat /\ N # 0 /\ N <= Len(h)
  <2>1. Len(h) \in Nat
    OBVIOUS
  <2>2. Seqs(F) \subseteq 0..(Len(h) - 1)
    BY <1>8, <2>1 DEF Seqs, FrameOf
  <2>3. N \in Nat /\ N <= Len(h)
    <3>1. IsFiniteSet(0..(Len(h) - 1)) /\ Cardinality(0..(Len(h) - 1)) = Len(h)
      BY <2>1, NumbersCounted
    <3>2. /\ IsFiniteSet(Seqs(F))
          /\ Cardinality(Seqs(F)) <= Cardinality(0..(Len(h) - 1))
      BY <2>2, <3>1, FS_Subset
    <3>. QED BY <3>1, <3>2, FS_CardinalityType
  <2>4. Seqs(F) # {}
    <3>1. \A f \in F : f.seq \in Seqs(F)
      BY DEF Seqs
    <3>. QED BY <1>2, <3>1
  <2>5. N # 0
    BY <1>2, <2>4
  <2>. QED BY <2>3, <2>5
<1>11. ASSUME NEW k \in 1..N PROVE es[k] = h[k]
  <2>1. k - 1 \in Seqs(F) /\ (k - 1) + 1 = k
    BY <1>2, <1>10
  <2>2. PICK f \in F : f.seq = k - 1
    BY <2>1 DEF Seqs
  <2>3. f \in ChunksOf(F, k - 1)
    BY <2>2 DEF ChunksOf
  <2>. DEFINE g == CHOOSE c \in ChunksOf(F, k - 1) : TRUE
  <2>4. g \in ChunksOf(F, k - 1)
    BY <2>3
  <2>5. EventAt(F, k - 1) = g.event
    BY <1>9 DEF EventAt, ChunksOf
  <2>. HIDE DEF g
  <2>6. g \in F /\ g.seq = k - 1
    BY <2>4 DEF ChunksOf
  <2>7. g.event = h[k]
    BY <1>8, <2>1, <2>6 DEF FrameOf
  <2>. QED BY <1>4, <2>5, <2>7
<1>12. Len(es) = N
  BY <1>4, <1>10
<1>. HIDE DEF F, N
<1>13. IsClosed(id, h)
  <2>1. N \in 1..Len(h) /\ es[N].type = "complete" /\ es[N] = h[N]
    BY <1>3, <1>10, <1>11, <1>12
  <2>. QED BY <1>7, <2>1 DEF History, IsOpen
<1>14. N = Len(h)
  BY <1>3, <1>10, <1>11, <1>12, <1>13 DEF IsClosed
<1>15. es = h
  BY <1>4, <1>11, <1>14
<1>16. CasesIn(es) = told[id]
  BY <1>13, <1>15, ReportsAreCases DEF IsClosed
<1>17. st = StatusOf(told[id])
  BY <1>3, <1>16
<1>18. id = run => told[id] = outcomes /\ AllRan
  BY <1>7, <1>13 DEF History, OfLaunch
<1> QED BY <1>5, <1>6, <1>13, <1>16, <1>17, <1>18 DEF IsClosed

LEMMA InvFailsClosed == DeviceInv => FailsClosed
<1> SUFFICES ASSUME DeviceInv,
                    NEW d \in {DecodeRun(log, id) : id \in RunIdsIn(log)} \cup {DecodeOnly(log)},
                    d.ok
             PROVE  /\ d.run \in DOMAIN told
                    /\ d.cases = told[d.run] /\ d.status = StatusOf(told[d.run])
  BY DEF FailsClosed
<1>1. \E id \in RunIdsIn(log) : d = DecodeRun(log, id)
  <2>1. CASE d = DecodeOnly(log)
    <3>1. ~Failed.ok
      BY Zenon DEF Failed
    <3>2. /\ Cardinality(RunIdsIn(log)) = 1
          /\ d = DecodeRun(log, CHOOSE r \in RunIdsIn(log) : TRUE)
      BY <2>1, <3>1, Zenon DEF DecodeOnly
    <3>3. RunIdsIn(log) # {}
      BY <3>2, FS_EmptySet
    <3>. QED BY <3>2, <3>3, Zenon
  <2>. QED BY <2>1
<1>2. PICK id \in RunIdsIn(log) : d = DecodeRun(log, id)
  BY <1>1
<1> QED BY <1>2, DecodedIsTold

(* Without a fault all of a history is there, and the footer of its run. *)
LEMMA InvIntactDecodes == DeviceInv => IntactRunDecodes
<1> SUFFICES ASSUME DeviceInv, faults = 0, NEW id \in DOMAIN told, NEW foot \in log,
                    foot.kind = "footer", foot.run = id
             PROVE  DecodeRun(log, id).ok
  BY DEF IntactRunDecodes
<1>. DEFINE F  == FramesIn(log, id)
            es == Payloads(F)
            st == CHOOSE s \in StatusesIn(log, id) : TRUE
<1>1. id \in Ids
  BY DEF DeviceInv, DeviceTypes
<1>2. PICK h \in Seq(Events) : History(id, h)
  BY <1>1 DEF DeviceInv, Remembered
<1>3. /\ EventsOf(id, h) /\ Captured(id, h)
      /\ \A k \in 1..Len(h) : FramesOf(h[k], Chunks[h[k].type]) \subseteq log
      /\ \A l \in F : l.whole
      /\ BrokenLine(id) \notin log
      /\ \A l \in log : l.kind = "footer" /\ l.run = id => l.status = StatusOf(told[id])
      /\ IsClosed(id, h)
  BY <1>2 DEF History, Intact
<1>4. Len(h) \in Nat /\ Len(h) # 0
  BY <1>3 DEF IsClosed
<1>5. \A l \in F : FrameOf(h, l) /\ l.seq \in Nat
  <2>1. \A l \in F : FrameOf(h, l)
    BY <1>3 DEF Captured
  <2>2. \A l \in F : l \in Lines /\ l.kind = "frame"
    BY DEF FramesIn, DeviceInv, DeviceTypes
  <2>. QED BY <2>1, <2>2 DEF Lines
<1>6. ASSUME NEW k \in 1..Len(h), NEW i \in 0..(Chunks[h[k].type] - 1)
      PROVE  /\ Frame(h[k], i, Chunks[h[k].type]) \in F
             /\ Frame(h[k], i, Chunks[h[k].type]).seq = k - 1
             /\ Frame(h[k], i, Chunks[h[k].type]).i = i
  <2>1. h[k] \in Events /\ h[k].run = id /\ h[k].seq = k - 1
    BY <1>3 DEF EventsOf
  <2>. DEFINE n == Chunks[h[k].type]
  <2>2. n \in Nat /\ i \in 0..(n - 1)
    BY <2>1, EventKeys
  <2>. HIDE DEF n
  <2>3. /\ Frame(h[k], i, n) \in FramesOf(h[k], n)
        /\ Frame(h[k], i, n).i = i
    BY <2>2, FrameThere
  <2>4. /\ Frame(h[k], i, n).kind = "frame" /\ Frame(h[k], i, n).run = id
        /\ Frame(h[k], i, n).seq = k - 1
    BY <2>1, <2>2, <2>3, FrameKeys
  <2>5. FramesOf(h[k], n) \subseteq log
    BY <1>3 DEF n
  <2>. QED BY <2>3, <2>4, <2>5 DEF FramesIn, n
<1>7. \A k \in 1..Len(h) : Chunks[h[k].type] \in Nat /\ 0 \in 0..(Chunks[h[k].type] - 1)
  <2>1. \A k \in 1..Len(h) : h[k] \in Events
    OBVIOUS
  <2>2. \A k \in 1..Len(h) : Chunks[h[k].type] \in Nat /\ Chunks[h[k].type] # 0
    BY <2>1, EventKeys
  <2>. QED BY <2>2
<1>. HIDE DEF F
<1>8. Seqs(F) = 0..(Len(h) - 1)
  <2>1. Seqs(F) \subseteq 0..(Len(h) - 1)
    BY <1>4, <1>5 DEF Seqs, FrameOf
  <2>2. ASSUME NEW s \in 0..(Len(h) - 1) PROVE s \in Seqs(F)
    <3>1. s + 1 \in 1..Len(h) /\ (s + 1) - 1 = s
      BY <1>4
    <3>2. PICK f \in F : f.seq = s
      <4>1. 0 \in 0..(Chunks[h[s + 1].type] - 1)
        BY <1>7, <3>1
      <4>2. Frame(h[s + 1], 0, Chunks[h[s + 1].type]) \in F
            /\ Frame(h[s + 1], 0, Chunks[h[s + 1].type]).seq = (s + 1) - 1
        BY <1>6, <3>1, <4>1
      <4>. QED BY <3>1, <4>2
    <3>. QED BY <3>2 DEF Seqs
  <2>. QED BY <2>1, <2>2
<1>9. Cardinality(Seqs(F)) = Len(h)
  BY <1>4, <1>8, NumbersCounted
<1>10. NothingMissing(F)
  <2>1. F # {}
    BY <1>4, <1>8 DEF Seqs
  <2>2. ASSUME NEW f \in F PROVE {g.i : g \in ChunksOf(F, f.seq)} = 0..(f.n - 1)
    <3>1. f.seq + 1 \in 1..Len(h) /\ f.event = h[f.seq + 1] /\ f.n = Chunks[h[f.seq + 1].type]
          /\ f.seq \in Nat
      BY <1>5 DEF FrameOf
    <3>2. \A g \in ChunksOf(F, f.seq) : g.i \in 0..(f.n - 1)
      BY <1>5, <3>1 DEF ChunksOf, FrameOf
    <3>3. ASSUME NEW i \in 0..(f.n - 1) PROVE \E g \in ChunksOf(F, f.seq) : g.i = i
      <4>1. (f.seq + 1) - 1 = f.seq
        BY <3>1
      <4>. DEFINE k == f.seq + 1
                  g == Frame(h[k], i, Chunks[h[k].type])
      <4>2. k \in 1..Len(h) /\ i \in 0..(Chunks[h[k].type] - 1)
        BY <3>1
      <4>3. g \in F /\ g.seq = k - 1 /\ g.i = i
        <5>. HIDE DEF F, k
        <5>. QED BY <1>6, <4>2
      <4>. HIDE DEF g, F
      <4>4. \E x \in F : x.seq = f.seq /\ x.i = i
        BY <4>1, <4>3
      <4>. QED BY <4>4 DEF ChunksOf
    <3>. QED BY <3>2, <3>3
  <2>. QED BY <1>8, <1>9, <2>1, <2>2 DEF NothingMissing
<1>11. Agree(F)
  <2>1. ASSUME NEW f \in F, NEW g \in F, f.seq = g.seq
        PROVE  f.n = g.n /\ (f.i = g.i => f = g)
    <3>1. f.n = g.n /\ f.event = g.event
      BY <1>5, <2>1 DEF FrameOf
    <3>2. f.whole /\ g.whole /\ f.run = g.run /\ f.kind = "frame" /\ g.kind = "frame"
      BY <1>3 DEF F, FramesIn
    <3>3. f \in Lines /\ g \in Lines
      BY DEF F, FramesIn, DeviceInv, DeviceTypes
    <3>4. /\ f \in [kind : {"frame"}, run : Ids, seq : Nat, i : Nat, n : Nat,
                    event : Events, whole : BOOLEAN]
          /\ g \in [kind : {"frame"}, run : Ids, seq : Nat, i : Nat, n : Nat,
                    event : Events, whole : BOOLEAN]
      BY <3>2, <3>3 DEF Lines
    <3>5. f.whole = g.whole
      BY <3>2, <3>4
    <3>. QED BY <2>1, <3>1, <3>2, <3>4, <3>5
  <2>. QED BY <2>1 DEF Agree
<1>12. StatusesIn(log, id) = {StatusOf(told[id])}
  BY <1>3 DEF StatusesIn
<1>13. OneFooter(log, id) /\ st = StatusOf(told[id])
  <2>1. Cardinality({StatusOf(told[id])}) = 1
    BY FS_Singleton
  <2>. QED BY <1>12, <2>1 DEF OneFooter
<1>14. TransportOk(log, id)
  <2>1. \A f \in FramesIn(log, id) : ChunkFits(f)
    BY <1>3 DEF ChunkFits, F
  <2>. QED BY <1>3, <1>10, <1>11, <1>13, <2>1 DEF TransportOk, WellFormed, F
<1>15. \A s \in Seqs(F) : Parses(F, s)
  BY <1>3 DEF Parses, ChunksOf
<1>16. es = h
  <2>1. ASSUME NEW k \in 1..Len(h) PROVE EventAt(F, k - 1) = h[k]
    <3>1. PICK f \in F : f.seq = k - 1
      BY <1>6, <1>7
    <3>2. f \in ChunksOf(F, k - 1)
      BY <3>1 DEF ChunksOf
    <3>. DEFINE g == CHOOSE c \in ChunksOf(F, k - 1) : TRUE
    <3>3. g \in ChunksOf(F, k - 1)
      BY <3>2
    <3>4. EventAt(F, k - 1) = g.event
      BY <1>3 DEF EventAt, ChunksOf
    <3>. HIDE DEF g
    <3>5. g \in F /\ g.seq = k - 1 /\ (k - 1) + 1 = k
      BY <3>3, <1>4 DEF ChunksOf
    <3>6. g.event = h[k]
      BY <1>5, <3>5 DEF FrameOf
    <3>. QED BY <3>4, <3>6
  <2>2. es = [k \in 1..Len(h) |-> EventAt(F, k - 1)]
    BY <1>9 DEF Payloads
  <2>. QED BY <2>1, <2>2
<1>. HIDE DEF es, st
<1>17. Consistent(es, st)
  <2>1. CasesIn(h) = told[id]
    BY <1>3, <1>4, ReportsAreCases DEF IsClosed
  <2>2. {k \in 1..Len(h) : h[k].type = "complete"} = {Len(h)}
    BY <1>3, <1>4 DEF IsClosed
  <2>. QED BY <1>3, <1>13, <1>16, <2>1, <2>2 DEF Consistent, IsClosed
<1>18. DecodeRun(log, id) = [ok |-> TRUE, run |-> id, cases |-> CasesIn(es), status |-> st]
  BY <1>14, <1>15, <1>17, Zenon DEF DecodeRun, F, es, st
<1> QED BY <1>18

LEMMA InvVerdict == DeviceInv => VerdictIsOfThisLaunch
<1> SUFFICES ASSUME DeviceInv, Asked, wanted.id # NoId, DecodeRun(log, wanted.id).ok
             PROVE  /\ run = wanted.id
                    /\ DecodeRun(log, wanted.id).status = 0 =>
                          /\ wanted.valid
                          /\ DecodeRun(log, wanted.id).cases = Suite[wanted.select]
  BY DEF VerdictIsOfThisLaunch
<1>. DEFINE id == wanted.id
<1>1. id \in RunIdsIn(log)
  <2>1. ~Failed.ok
    BY Zenon DEF Failed
  <2>2. TransportOk(log, id)
    BY <2>1, Zenon DEF DecodeRun
  <2>3. FramesIn(log, id) # {}
    BY <2>2 DEF TransportOk, NothingMissing
  <2>. QED BY <2>3 DEF FramesIn, RunIdsIn
<1>2. run = wanted.id
  BY <1>1 DEF DeviceInv, SettingsAreNew, Fresh
<1>3. /\ DecodeRun(log, id).cases = told[id]
      /\ DecodeRun(log, id).status = StatusOf(told[id])
      /\ told[id] = outcomes /\ AllRan
  BY <1>1, <1>2, DecodedIsTold
<1>4. ASSUME StatusOf(outcomes) = 0
      PROVE  wanted.valid /\ outcomes = Suite[wanted.select]
  <2>1. running \in Selections /\ outcomes = Suite[running]
    BY <1>3, <1>4 DEF AllRan
  <2>2. running # NoSelection
    BY <2>1, DeviceAssumption
  <2>3. wanted.valid /\ running = wanted.select
    BY <2>2 DEF DeviceInv, LaunchInv, RunsWhatWasAsked
  <2>. QED BY <2>1, <2>3
<1> QED BY <1>2, <1>3, <1>4

LEMMA InvTypes == DeviceInv => DeviceTypeOK
<1> SUFFICES ASSUME DeviceInv PROVE DeviceTypeOK
  OBVIOUS
<1>1. \A l \in log : l.run \in Ids \cup {CutId}
  BY LineRuns DEF DeviceInv, DeviceTypes
<1> QED BY <1>1 DEF DeviceInv, DeviceTypes, DeviceTypeOK, RunIdsIn

(* Whatever a capture loses, cuts or repeats, what decodes is the run that was asked
   for, all of it and its verdict; and a run of which all lines arrived decodes. *)
THEOREM DecodesTheRunCorrect == Spec => []DecodesTheRun
<1>1. DeviceInv => DecodesTheRun
  BY InvTypes, InvFailsClosed, InvIntactDecodes, InvVerdict DEF DecodesTheRun
<1> QED BY <1>1, DeviceInitInv, DeviceStepInv, PTL DEF Spec

-----------------------------------------------------------------------------
(* How many digits numbers have: the recursion has a solution, one on each 0..n, and the
   longer a number is, the more digits it has. *)
DigitsOn(f, n) == \A k \in 0..n : f[k] = IF k < 10 THEN 1 ELSE 1 + f[k \div 10]

LEMMA Tenth == ASSUME NEW k \in Nat, k >= 10 PROVE k \div 10 \in Nat /\ k \div 10 < k
OBVIOUS

LEMMA TenthGrows == ASSUME NEW k \in Nat, NEW n \in Nat, k <= n PROVE k \div 10 <= n \div 10
OBVIOUS

LEMMA DigitsAgree ==
    ASSUME NEW n \in Nat, NEW f, NEW g, DigitsOn(f, n), DigitsOn(g, n)
    PROVE  \A k \in 0..n : f[k] = g[k]
<1>. DEFINE T == {k \in 0..n : f[k] # g[k]}
<1>1. ASSUME T # {} PROVE FALSE
  <2>1. PICK k \in T : \A j \in T : k <= j
    <3>1. T \subseteq Nat
      OBVIOUS
    <3>. HIDE DEF T
    <3>. QED BY <1>1, <3>1, LeastNumber
  <2>2. k \in 0..n /\ k \in Nat /\ f[k] # g[k]
    OBVIOUS
  <2>3. ASSUME k >= 10 PROVE f[k \div 10] = g[k \div 10]
    <3>1. k \div 10 \in 0..n /\ ~(k <= k \div 10)
      BY <2>2, <2>3, Tenth
    <3>2. k \div 10 \notin T
      <4>. HIDE DEF T
      <4>. QED BY <2>1, <3>1
    <3>. QED BY <3>1, <3>2
  <2>. QED BY <2>2, <2>3 DEF DigitsOn
<1>. QED BY <1>1

LEMMA DigitsLess ==
    ASSUME NEW n \in Nat, NEW k \in 0..n, NEW f, DigitsOn(f, n)
    PROVE  DigitsOn(f, k)
<1>1. \A j \in 0..k : j \in 0..n
  OBVIOUS
<1>. QED BY <1>1 DEF DigitsOn

LEMMA DigitsExist == \A n \in Nat : \E f \in [0..n -> Nat \ {0}] : DigitsOn(f, n)
<1>. DEFINE T == {n \in Nat : ~\E f \in [0..n -> Nat \ {0}] : DigitsOn(f, n)}
<1>1. ASSUME T # {} PROVE FALSE
  <2>1. PICK n \in T : \A m \in T : n <= m
    <3>1. T \subseteq Nat
      OBVIOUS
    <3>. HIDE DEF T
    <3>. QED BY <1>1, <3>1, LeastNumber
  <2>2. n \in Nat /\ ~\E f \in [0..n -> Nat \ {0}] : DigitsOn(f, n)
    BY <2>1
  <2>3. n # 0
    <3>1. [k \in 0..0 |-> 1] \in [0..0 -> Nat \ {0}] /\ DigitsOn([k \in 0..0 |-> 1], 0)
      BY DEF DigitsOn
    <3>. QED BY <2>2, <3>1
  <2>4. PICK f \in [0..(n - 1) -> Nat \ {0}] : DigitsOn(f, n - 1)
    <3>1. n - 1 \in Nat /\ ~(n <= n - 1)
      BY <2>2, <2>3
    <3>2. n - 1 \notin T
      <4>. HIDE DEF T
      <4>. QED BY <2>1, <3>1
    <3>. QED BY <3>1, <3>2
  <2>. DEFINE d == IF n < 10 THEN 1 ELSE 1 + f[n \div 10]
              g == [k \in 0..n |-> IF k = n THEN d ELSE f[k]]
  <2>5. d \in Nat \ {0}
    <3>1. CASE n < 10
      BY <3>1
    <3>2. CASE ~(n < 10)
      <4>1. n \div 10 \in 0..(n - 1)
        BY <2>2, <3>2, Tenth
      <4>2. f[n \div 10] \in Nat \ {0}
        BY <4>1
      <4>. QED BY <3>2, <4>2
    <3>. QED BY <3>1, <3>2
  <2>6. g \in [0..n -> Nat \ {0}]
    <3>1. \A k \in 0..n : k # n => k \in 0..(n - 1)
      BY <2>2
    <3>. HIDE DEF d
    <3>. QED BY <2>5, <3>1
  <2>7. DigitsOn(g, n)
    <3>. SUFFICES ASSUME NEW k \in 0..n
                  PROVE  g[k] = IF k < 10 THEN 1 ELSE 1 + g[k \div 10]
      BY DEF DigitsOn
    <3>1. ASSUME ~(k < 10) PROVE k \div 10 \in 0..n /\ k \div 10 # n /\ g[k \div 10] = f[k \div 10]
      <4>1. k \div 10 \in Nat /\ k \div 10 < k /\ k <= n
        BY <2>2, <3>1, Tenth
      <4>. QED BY <2>2, <4>1
    <3>2. CASE k = n
      <4>1. g[k] = d
        BY <3>2
      <4>. QED BY <3>1, <3>2, <4>1
    <3>3. CASE k # n
      <4>1. k \in 0..(n - 1) /\ g[k] = f[k]
        BY <2>2, <3>3
      <4>2. f[k] = IF k < 10 THEN 1 ELSE 1 + f[k \div 10]
        BY <2>4, <4>1 DEF DigitsOn
      <4>. QED BY <3>1, <4>1, <4>2
    <3>. QED BY <3>2, <3>3
  <2>. HIDE DEF g
  <2>. QED BY <2>2, <2>6, <2>7
<1>. QED BY <1>1

LEMMA DigitsAre ==
    \A n \in Nat : /\ Digits[n] \in Nat \ {0}
                   /\ Digits[n] = IF n < 10 THEN 1 ELSE 1 + Digits[n \div 10]
<1>. DEFINE Is(f, n) == f \in [0..n -> Nat \ {0}] /\ DigitsOn(f, n)
            F(n) == CHOOSE f : Is(f, n)
            D == [n \in Nat |-> F(n)[n]]
            Solves(f) == f = [n \in Nat |-> IF n < 10 THEN 1 ELSE 1 + f[n \div 10]]
<1>1. ASSUME NEW n \in Nat PROVE Is(F(n), n)
  <2>1. \E f : Is(f, n)
    BY DigitsExist
  <2>. HIDE DEF Is
  <2>. QED BY <2>1, Zenon
<1>. HIDE DEF F
<1>2. ASSUME NEW n \in Nat, NEW k \in 0..n PROVE F(n)[k] = D[k]
  <2>1. k \in Nat /\ k \in 0..k /\ D[k] = F(k)[k]
    OBVIOUS
  <2>2. DigitsOn(F(n), k) /\ DigitsOn(F(k), k)
    BY <1>1, <2>1, DigitsLess
  <2>. HIDE DEF D
  <2>. QED BY <2>1, <2>2, DigitsAgree
<1>3. ASSUME NEW n \in Nat
      PROVE  D[n] \in Nat \ {0} /\ D[n] = IF n < 10 THEN 1 ELSE 1 + D[n \div 10]
  <2>1. /\ F(n) \in [0..n -> Nat \ {0}] /\ n \in 0..n /\ F(n)[n] = D[n]
        /\ DigitsOn(F(n), n)
    BY <1>1
  <2>. HIDE DEF D
  <2>2. F(n)[n] = IF n < 10 THEN 1 ELSE 1 + F(n)[n \div 10]
    BY <2>1 DEF DigitsOn
  <2>3. ASSUME ~(n < 10) PROVE F(n)[n \div 10] = D[n \div 10]
    <3>1. n \div 10 \in 0..n
      BY <2>3, Tenth
    <3>. QED BY <1>2, <3>1
  <2>4. F(n)[n] \in Nat \ {0}
    BY <2>1
  <2>. QED BY <2>1, <2>2, <2>3, <2>4
<1>4. Solves(D)
  <2>1. D = [n \in Nat |-> D[n]]
    BY DEF D
  <2>. HIDE DEF D
  <2>. QED BY <1>3, <2>1
<1>5. Digits = CHOOSE f : Solves(f)
  BY Zenon DEF Digits
<1>6. Solves(Digits)
  <2>. HIDE DEF Solves, D
  <2>. QED BY <1>4, <1>5, Zenon
<1>7. ASSUME NEW n \in Nat PROVE Digits[n] = D[n]
  <2>1. DigitsOn(Digits, n)
    <3>1. \A k \in 0..n : k \in Nat
      OBVIOUS
    <3>. QED BY <1>6, <3>1 DEF DigitsOn
  <2>2. DigitsOn(D, n)
    <3>1. \A k \in 0..n : k \in Nat
      OBVIOUS
    <3>. HIDE DEF D
    <3>. QED BY <1>3, <3>1 DEF DigitsOn
  <2>. HIDE DEF D
  <2>. QED BY <2>1, <2>2, DigitsAgree
<1>. HIDE DEF D
<1>. QED BY <1>3, <1>6, <1>7

LEMMA DigitsGrow ==
    ASSUME NEW n \in Nat, NEW k \in Nat, k <= n
    PROVE  Digits[k] <= Digits[n]
<1>. DEFINE T == {m \in Nat : \E j \in 0..m : ~(Digits[j] <= Digits[m])}
<1>1. ASSUME T # {} PROVE FALSE
  <2>1. PICK m \in T : \A j \in T : m <= j
    <3>1. T \subseteq Nat
      OBVIOUS
    <3>. HIDE DEF T
    <3>. QED BY <1>1, <3>1, LeastNumber
  <2>2. PICK j \in 0..m : m \in Nat /\ j \in Nat /\ ~(Digits[j] <= Digits[m])
    BY <2>1
  <2>3. /\ Digits[j] \in Nat \ {0} /\ Digits[m] \in Nat \ {0}
        /\ Digits[j] = IF j < 10 THEN 1 ELSE 1 + Digits[j \div 10]
        /\ Digits[m] = IF m < 10 THEN 1 ELSE 1 + Digits[m \div 10]
    BY <2>2, DigitsAre
  <2>4. ~(j < 10) /\ ~(m < 10)
    BY <2>2, <2>3
  <2>5. /\ j \div 10 \in Nat /\ m \div 10 \in Nat
        /\ j \div 10 <= m \div 10 /\ ~(m <= m \div 10)
    BY <2>2, <2>4, Tenth, TenthGrows
  <2>6. m \div 10 \notin T
    <3>. HIDE DEF T
    <3>. QED BY <2>1, <2>5
  <2>7. Digits[j \div 10] <= Digits[m \div 10]
    BY <2>5, <2>6
  <2>8. Digits[j \div 10] \in Nat /\ Digits[m \div 10] \in Nat
    BY <2>5, DigitsAre
  <2>. QED BY <2>2, <2>3, <2>4, <2>7, <2>8
<1>2. n \notin T
  BY <1>1
<1>. QED BY <1>2

(* A text of l characters takes q chunks of b: q - 1 whole ones do not hold it, q do. *)
LEMMA CeilingIs ==
    ASSUME NEW l \in Nat \ {0}, NEW b \in Nat \ {0}
    PROVE  LET q == (l + b - 1) \div b
           IN  q \in Nat \ {0} /\ (q - 1) * b < l /\ l <= q * b
<1>. DEFINE a == l + b - 1
            q == a \div b
<1>1. a \in Nat /\ b <= a
  OBVIOUS
<1>2. q \in Int /\ a % b \in 0..(b - 1) /\ a = b * q + (a % b)
  BY <1>1
<1>. QED BY <1>1, <1>2

LEMMA ProductGrows ==
    ASSUME NEW b \in Nat, NEW x \in Int, NEW y \in Int, x <= y
    PROVE  x * b <= y * b /\ x * b \in Int /\ (x + 1) * b = x * b + b
OBVIOUS

-----------------------------------------------------------------------------
(* The frames.                                                                *)

EventAssumed ==
    event \in [run : Nat \ {0}, seq : Nat, length : Nat \ {0}]
Budgeted == ChunkBudget(event, count) > 0 /\ Needed(event, count) = count

FramesInv ==
    /\ EventAssumed
    /\ count \in Nat \ {0}
    /\ stage \in {"count", "split", "done", "error"}
    /\ frames \in Seq([start : Int, end : Int]) /\ Len(frames) <= count
    /\ stage \notin {"split", "done"} => Len(frames) = 0
    /\ stage \in {"split", "done"} => Budgeted
    /\ \A k \in 1..Len(frames) : frames[k] = ChunkOf(k - 1)
    /\ stage = "done" => Len(frames) = count

LEMMA BudgetIs ==
    ASSUME EventAssumed, NEW n \in Nat \ {0}
    PROVE  /\ ChunkBudget(event, n) \in Int
           /\ \A i \in 0..(n - 1) :
                 HeaderLength(event, i, n) \in Int
                 /\ HeaderLength(event, i, n) <= FrameMax - ChunkBudget(event, n)
<1>1. /\ Digits[event.seq] \in Nat /\ Digits[n] \in Nat /\ event.run \in Nat
      /\ FrameMax \in Nat
  BY DigitsAre, FramesAssumption DEF EventAssumed
<1>2. ASSUME NEW i \in 0..(n - 1)
      PROVE  Digits[i] \in Nat /\ Digits[n - 1] \in Nat /\ Digits[i] <= Digits[n - 1]
  BY DigitsAre, DigitsGrow
<1>3. Digits[n - 1] \in Nat
  BY DigitsAre
<1>. QED BY <1>1, <1>2, <1>3 DEF ChunkBudget, HeaderLength

LEMMA NeededIs ==
    ASSUME EventAssumed, NEW n \in Nat \ {0}, ChunkBudget(event, n) > 0
    PROVE  /\ Needed(event, n) \in Nat \ {0}
           /\ (Needed(event, n) - 1) * ChunkBudget(event, n) < event.length
           /\ event.length <= Needed(event, n) * ChunkBudget(event, n)
<1>1. ChunkBudget(event, n) \in Nat \ {0} /\ event.length \in Nat \ {0}
  BY BudgetIs DEF EventAssumed
<1>. QED BY <1>1, CeilingIs DEF Needed

(* The chunk at i is whole but for the last, which is not empty and ends the text. *)
LEMMA ChunkIs ==
    ASSUME EventAssumed, count \in Nat \ {0}, Budgeted, NEW i \in 0..(count - 1)
    PROVE  LET b == ChunkBudget(event, count)
               c == ChunkOf(i)
           IN  /\ c \in [start : Int, end : Int] /\ c.start = i * b /\ b \in Nat \ {0}
               /\ 0 <= c.start /\ c.end <= event.length
               /\ c.end - c.start \in 1..b
               /\ i # count - 1 => c.end = (i + 1) * b /\ c.end - c.start = b
               /\ i = count - 1 => c.end = event.length
<1>. DEFINE b == ChunkBudget(event, count)
            c == ChunkOf(i)
            l == event.length
<1>1. /\ b \in Nat \ {0} /\ l \in Nat \ {0}
      /\ (count - 1) * b < l /\ l <= count * b
  BY NeededIs, BudgetIs DEF Budgeted, EventAssumed
<1>2. c = [start |-> i * b, end |-> IF i * b + b < l THEN i * b + b ELSE l]
  BY Zenon DEF ChunkOf
<1>. HIDE DEF b, l, c
<1>3. /\ i * b \in Int /\ i * b <= (count - 1) * b /\ (i + 1) * b = i * b + b
      /\ 0 * b <= i * b /\ 0 * b = 0
  BY <1>1, ProductGrows
<1>4. i # count - 1 => (i + 1) * b <= (count - 1) * b
  BY <1>1, ProductGrows
<1>5. i = count - 1 => (i + 1) * b = count * b
  OBVIOUS
<1>6. (count - 1) * b \in Int /\ count * b \in Int
  BY <1>1, ProductGrows
<1>. DEFINE s == i * b
            t == (count - 1) * b
            u == count * b
            v == (i + 1) * b
<1>7. /\ s \in Int /\ t \in Int /\ u \in Int /\ v = s + b /\ 0 <= s /\ s <= t /\ t < l /\ l <= u
      /\ i # count - 1 => v <= t
      /\ i = count - 1 => v = u
      /\ c = [start |-> s, end |-> IF s + b < l THEN s + b ELSE l]
  BY <1>1, <1>2, <1>3, <1>4, <1>5, <1>6
<1>. HIDE DEF s, t, u, v
<1>8. c.start = s /\ c.end = IF s + b < l THEN s + b ELSE l
  BY <1>7
<1>9. c.end \in Int /\ c \in [start : Int, end : Int]
  BY <1>1, <1>7
<1>10. /\ 0 <= c.start /\ c.end <= l /\ c.end - c.start \in 1..b
       /\ i # count - 1 => c.end = v /\ c.end - c.start = b
       /\ i = count - 1 => c.end = l
  BY <1>1, <1>7, <1>8
<1>. QED BY <1>1, <1>8, <1>9, <1>10 DEF b, c, l, s, v

LEMMA CountingOK == ASSUME FramesInv, HeaderTooLong \/ Recount \/ Counted PROVE FramesInv'
<1>1. /\ EventAssumed /\ EventAssumed' /\ frames' = frames /\ Len(frames) = 0
      /\ stage' \in {"count", "split", "error"} /\ count \in Nat \ {0}
  BY DEF FramesInv, EventAssumed, HeaderTooLong, Recount, Counted
<1>2. count' \in Nat \ {0}
  BY <1>1, NeededIs DEF Recount, Counted, HeaderTooLong
<1>3. stage' = "split" => Budgeted'
  BY DEF Counted, Recount, HeaderTooLong, Budgeted
<1>. QED BY <1>1, <1>2, <1>3 DEF FramesInv

LEMMA PrintFrameOK == ASSUME FramesInv, PrintFrame PROVE FramesInv'
<1>1. /\ EventAssumed /\ count \in Nat \ {0} /\ Budgeted /\ stage = "split"
      /\ frames \in Seq([start : Int, end : Int]) /\ Len(frames) < count
      /\ UNCHANGED <<event, count, stage>>
  BY DEF FramesInv, PrintFrame
<1>. DEFINE n == Len(frames)
            c == ChunkOf(n)
<1>2. n \in Nat /\ n \in 0..(count - 1)
  BY <1>1
<1>3. c \in [start : Int, end : Int]
  BY <1>1, <1>2, ChunkIs
<1>4. frames' = Append(frames, c)
  BY DEF PrintFrame
<1>. HIDE DEF c
<1>5. /\ frames' \in Seq([start : Int, end : Int]) /\ Len(frames') = n + 1
      /\ frames'[n + 1] = c /\ \A k \in 1..n : frames'[k] = frames[k]
  BY <1>1, <1>3, <1>4
<1>6. \A k \in 1..(n + 1) : frames'[k] = ChunkOf(k - 1)
  <2>. TAKE k \in 1..(n + 1)
  <2>1. CASE k = n + 1
    BY <1>2, <1>5, <2>1 DEF c
  <2>2. CASE k # n + 1
    <3>1. k \in 1..n
      BY <1>2, <2>2
    <3>2. frames[k] = ChunkOf(k - 1)
      BY <3>1 DEF FramesInv
    <3>. QED BY <1>5, <3>1, <3>2
  <2>. QED BY <2>1, <2>2
<1>7. \A k \in 1..(n + 1) : ChunkOf(k - 1)' = ChunkOf(k - 1)
  BY <1>1 DEF ChunkOf, ChunkBudget, HeaderLength
<1>8. EventAssumed' /\ Budgeted'
  BY <1>1 DEF EventAssumed, Budgeted, ChunkBudget, HeaderLength, Needed
<1>. HIDE DEF n
<1>9. \A k \in 1..Len(frames') : frames'[k] = ChunkOf(k - 1)'
  BY <1>5, <1>6, <1>7
<1>. QED BY <1>1, <1>2, <1>5, <1>8, <1>9 DEF FramesInv, n

LEMMA FramesStep == FramesInv /\ [FramesNext]_frameVars => FramesInv'
<1>. SUFFICES ASSUME FramesInv, [FramesNext]_frameVars PROVE FramesInv'
  OBVIOUS
<1>1. ASSUME UNCHANGED <<event, count, frames>>
      PROVE  /\ EventAssumed' = EventAssumed /\ Budgeted' = Budgeted
             /\ \A k \in 1..Len(frames) : ChunkOf(k - 1)' = ChunkOf(k - 1)
  BY <1>1 DEF EventAssumed, Budgeted, ChunkOf, ChunkBudget, HeaderLength, Needed
<1>2. CASE AllPrinted
  BY <1>1, <1>2 DEF AllPrinted, FramesInv
<1>3. CASE UNCHANGED frameVars
  BY <1>1, <1>3 DEF frameVars, FramesInv
<1>. QED BY <1>2, <1>3, CountingOK, PrintFrameOK DEF FramesNext

LEMMA FramesAreSafe == ASSUME FramesInv PROVE FramesSafe
<1>. DEFINE n == Len(frames)
<1>1. /\ EventAssumed /\ count \in Nat \ {0} /\ n \in Nat /\ n <= count
      /\ \A k \in 1..n : frames[k] = ChunkOf(k - 1)
      /\ stage = "done" => n = count
  BY DEF FramesInv
<1>2. ASSUME NEW k \in 1..n PROVE Budgeted
  BY <1>2, <1>1 DEF FramesInv
<1>3. ASSUME NEW k \in 1..n
      PROVE  LET b == ChunkBudget(event, count)
             IN  /\ frames[k].start = (k - 1) * b
                 /\ 0 <= frames[k].start /\ frames[k].end <= event.length
                 /\ Size(k) \in 1..b
                 /\ k # count => frames[k].end = k * b /\ Size(k) = b
                 /\ k = count => frames[k].end = event.length
  <2>1. k - 1 \in 0..(count - 1) /\ (k - 1) + 1 = k /\ (k - 1 = count - 1 <=> k = count)
    BY <1>1
  <2>2. frames[k] = ChunkOf(k - 1)
    BY <1>1
  <2>. QED BY <1>1, <1>2, <2>1, <2>2, ChunkIs DEF Size
<1>4. FramesTypeOK
  BY <1>1, <1>3 DEF FramesTypeOK, FramesInv
<1>5. FramesFit
  <2>. SUFFICES ASSUME NEW k \in 1..n
                PROVE  HeaderLength(event, k - 1, count) + Size(k) <= FrameMax
    BY DEF FramesFit
  <2>1. k - 1 \in 0..(count - 1)
    BY <1>1
  <2>2. /\ HeaderLength(event, k - 1, count) \in Int /\ ChunkBudget(event, count) \in Int
        /\ HeaderLength(event, k - 1, count) <= FrameMax - ChunkBudget(event, count)
    BY <1>1, <2>1, BudgetIs
  <2>3. Size(k) \in Int /\ Size(k) <= ChunkBudget(event, count)
    BY <1>3, <2>2
  <2>4. FrameMax \in Int
    BY FramesAssumption
  <2>. QED BY <2>2, <2>3, <2>4
<1>6. FramesDecode
  <2>. SUFFICES ASSUME stage = "done" PROVE
            /\ \A k \in 1..count : Size(k) > 0
            /\ \A k \in 1..(count - 1) : Size(k) = ChunkBudget(event, count)
            /\ frames[1].start = 0 /\ frames[count].end = event.length
            /\ \A k \in 1..(count - 1) : frames[k].end = frames[k + 1].start
    BY DEF FramesDecode
  <2>1. n = count /\ 1 \in 1..n /\ count \in 1..n
    BY <1>1
  <2>2. ChunkBudget(event, count) \in Nat /\ 0 * ChunkBudget(event, count) = 0
    BY <1>1, <1>2, <2>1, BudgetIs DEF Budgeted
  <2>3. \A k \in 1..count : Size(k) > 0
    BY <1>3, <2>1, <2>2
  <2>4. frames[1].start = 0
    BY <1>3, <2>1, <2>2
  <2>5. \A k \in 1..(count - 1) : /\ k \in 1..n /\ k + 1 \in 1..n /\ k # count /\ (k + 1) - 1 = k
    BY <1>1, <2>1
  <2>6. \A k \in 1..(count - 1) : frames[k].end = frames[k + 1].start
    BY <1>3, <2>5
  <2>7. \A k \in 1..(count - 1) : Size(k) = ChunkBudget(event, count)
    BY <1>3, <2>5
  <2>8. frames[count].end = event.length
    BY <1>3, <2>1
  <2>. QED BY <2>3, <2>4, <2>6, <2>7, <2>8
<1>. QED BY <1>4, <1>5, <1>6 DEF FramesSafe

(* encodeEvent: for every longest frame, run id, event number and text, no frame is longer
   than frameMaxChars, and the frames of an event are what the decoder takes. *)
THEOREM FramesSafeCorrect == FramesSpec => []FramesSafe
<1>1. FramesInit => FramesInv
  <2>. SUFFICES ASSUME FramesInit PROVE FramesInv
    OBVIOUS
  <2>1. frames \in Seq([start : Int, end : Int]) /\ Len(frames) = 0 /\ 1..0 = {}
    BY DEF FramesInit
  <2>2. EventAssumed
    BY FramesAssumption DEF FramesInit, EventAssumed
  <2>. QED BY <2>1, <2>2 DEF FramesInit, FramesInv
<1>. QED BY <1>1, FramesStep, FramesAreSafe, PTL DEF FramesSpec
=============================================================================
