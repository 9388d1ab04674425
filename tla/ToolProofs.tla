------------------------------ MODULE ToolProofs ------------------------------
(* What the tools promise, for every input.

   EntryIsExact, for every set of sources and imports, cycles among them: the search
   forward keeps what it has met closed but for its queue, so that at its end the
   files met are parsed and closed; the search backward keeps what reaches a web-only
   URI closed under importers but for its queue.  What is met and not in the second
   set is then closed as well, holds the entrypoint, and imports nothing web-only.

   GuardsMeanIt, for every consumer and any number of kills: what the rules check
   found of the rules it saved holds until it writes them back, and a planted target
   that Bazel refused by its name was the only one.

   GreenMeansIt, for every matrix, tables and outcome of the jobs: an artifact's name is
   split where the workflow joined it, so what the gate finds under a job is that job's.
   A job that succeeded built what its own table expects, with the keys that EXAMPLES
   selects; these are the same on every OS, which carries a row of one table to the jobs
   of the others.

   AssetsSafe, for every list of bundles and jars: each stage of the merge and of the
   check says what it has seen so far, and at the end of each stage that is everything.

   TableSafe and RunsKeepTheirWord, for every table and any invocations beside each
   other: each one's inventories, rows and baseline are what its selection asks for,
   whatever the table and the sources have become since.

   FactsHold, for every pubspec and manifest and any order of edits: each script says
   something of the text it read, and what is up to date was read from the text there
   is.  What a line lies under at column zero is the last line there above it.

   ProbesMeanIt, for every world: at each step of a scenario, which bases and servers
   there are, and what the locks so far are.  The walk over the core module's graph keeps
   what it has met closed but for its stack, and visits nothing deeper than it has met
   modules. *)
EXTENDS LibEntry, ConsumerGuards, CiGate, NativeAssets, PubspecFacts, ApkTable,
        ToolchainProbe, SequenceLemmas

Reaches(f) == \E g \in Compiled({f}) : Web \in UrisOf(g)

(* What is parsed is parsed right, at whatever point. *)
Parsed ==
    /\ project \in Projects
    /\ DOMAIN imports \subseteq DOMAIN project.source
    /\ imports \in [DOMAIN imports -> SUBSET DOMAIN project.source]
    /\ \A f \in DOMAIN imports : imports[f] = ImportsOf(f)
    /\ webDirect = {f \in DOMAIN imports : Web \in UrisOf(f)}

Loading == pending \subseteq project.candidates /\ web = {} /\ entry = {}

Forward ==
    /\ pending \subseteq met /\ LibraryFiles \subseteq met
    /\ met \subseteq DOMAIN project.source
    /\ met \ pending \subseteq DOMAIN imports
    /\ \A f \in met \ pending : ImportsOf(f) \subseteq met
    /\ web = {} /\ entry = {}

Backward ==
    /\ LibraryFiles \subseteq met /\ met \subseteq DOMAIN imports
    /\ \A f \in met : ImportsOf(f) \subseteq met
    /\ webDirect \subseteq web /\ web \subseteq DOMAIN imports /\ pending \subseteq web
    /\ \A f \in web \ pending : Importers(f) \subseteq web
    /\ \A f \in web : Reaches(f)

EntryInv ==
    /\ doing \in {"load", "forward", "backward", "written"}
    /\ Parsed
    /\ doing = "load" => Loading
    /\ doing = "forward" => Forward
    /\ doing = "backward" => Backward /\ entry = {}
    /\ doing = "written" => Backward /\ pending = {} /\ entry = LibraryFiles \ web

-----------------------------------------------------------------------------
(* What a project says does not change with the state. *)
LEMMA SameProject ==
    ASSUME project' = project
    PROVE  /\ \A f : ImportsOf(f)' = ImportsOf(f)
           /\ \A f : UrisOf(f)' = UrisOf(f)
           /\ LibraryFiles' = LibraryFiles
           /\ \A r : Compiled(r)' = Compiled(r)
<1>1. \A f : ImportsOf(f)' = ImportsOf(f)
  BY DEF ImportsOf, UrisOf, Resolve, PackageDir, IsFile
<1>2. \A f : UrisOf(f)' = UrisOf(f)
  BY DEF UrisOf
<1>3. LibraryFiles' = LibraryFiles
  BY DEF LibraryFiles, IsPart
<1>4. \A s : Closed(s)' <=> Closed(s)
  BY <1>1 DEF Closed
<1>5. \A r : Compiled(r)' = Compiled(r)
  BY <1>4 DEF Compiled
<1> QED BY <1>1, <1>2, <1>3, <1>5

(* The imports of a file are files. *)
LEMMA ImportsAreFiles ==
    \A f : ImportsOf(f) \subseteq DOMAIN project.source
  BY DEF ImportsOf, IsFile

(* What a file imports is compiled with it, and so on. *)
LEMMA CompiledSteps ==
    ASSUME NEW f \in DOMAIN project.source, NEW t \in ImportsOf(f), Reaches(t)
    PROVE  Reaches(f)
<1>1. PICK g \in Compiled({t}) : Web \in UrisOf(g)
  BY DEF Reaches
<1>2. g \in Compiled({f})
  <2>1. g \in DOMAIN project.source
    BY <1>1 DEF Compiled
  <2>2. ASSUME NEW s \in SUBSET DOMAIN project.source, {f} \subseteq s, Closed(s)
        PROVE  g \in s
    <3>1. {t} \subseteq s
      BY <2>2 DEF Closed
    <3> QED BY <3>1, <2>2, <1>1 DEF Compiled
  <2> QED BY <2>1, <2>2 DEF Compiled
<1> QED BY <1>1, <1>2 DEF Reaches

(* A file is compiled with itself. *)
LEMMA DirectReaches ==
    ASSUME NEW f \in DOMAIN project.source, Web \in UrisOf(f)
    PROVE  Reaches(f)
<1>1. f \in Compiled({f})
  BY DEF Compiled
<1> QED BY <1>1 DEF Reaches

(* Parsing a file leaves what is parsed parsed right. *)
LEMMA ParsingIsRight ==
    ASSUME Parsed, NEW f \in DOMAIN project.source, Parses(f), project' = project
    PROVE  /\ Parsed'
           /\ DOMAIN imports' = DOMAIN imports \cup {f}
           /\ imports'[f] = ImportsOf(f)
<1>1. CASE f \in DOMAIN imports
  <2>1. imports' = imports /\ webDirect' = webDirect
    BY <1>1 DEF Parses
  <2>2. DOMAIN imports' = DOMAIN imports \cup {f}
    BY <1>1, <2>1
  <2>3. \A g \in DOMAIN imports' : imports'[g] = ImportsOf(g)
    BY <2>1 DEF Parsed
  <2>4. imports' \in [DOMAIN imports' -> SUBSET DOMAIN project.source]
    BY <2>1 DEF Parsed
  <2>5. webDirect' = {g \in DOMAIN imports' : Web \in UrisOf(g)}
    BY <2>1 DEF Parsed
  <2>6. DOMAIN imports' \subseteq DOMAIN project.source
    BY <2>1 DEF Parsed
  <2>7. Parsed'
    BY <2>3, <2>4, <2>5, <2>6, SameProject DEF Parsed
  <2> QED BY <2>2, <2>3, <2>7
<1>2. CASE f \notin DOMAIN imports
  <2>1. /\ imports' = [g \in DOMAIN imports \cup {f} |->
                          IF g = f THEN ImportsOf(f) ELSE imports[g]]
        /\ webDirect' = webDirect \cup {g \in {f} : Web \in UrisOf(g)}
    BY <1>2 DEF Parses
  <2>2. DOMAIN imports' = DOMAIN imports \cup {f}
    BY <2>1
  <2>3. \A g \in DOMAIN imports' : imports'[g] = ImportsOf(g)
    BY <2>1, <2>2 DEF Parsed
  <2>4. imports' \in [DOMAIN imports' -> SUBSET DOMAIN project.source]
    <3>1. \A g \in DOMAIN imports' : imports'[g] \in SUBSET DOMAIN project.source
      BY <2>3, ImportsAreFiles
    <3>2. imports' = [g \in DOMAIN imports' |-> imports'[g]]
      BY <2>1
    <3> QED BY <3>1, <3>2
  <2>5. webDirect' = {g \in DOMAIN imports' : Web \in UrisOf(g)}
    BY <2>1, <2>2 DEF Parsed
  <2>6. Parsed'
    BY <2>2, <2>3, <2>4, <2>5, SameProject DEF Parsed
  <2> QED BY <2>2, <2>3, <2>6
<1> QED BY <1>1, <1>2

-----------------------------------------------------------------------------
LEMMA EntryStarts == EntryInit => EntryInv
<1> SUFFICES ASSUME NEW p \in Projects, EntryStart(p) PROVE EntryInv
  BY DEF EntryInit
<1>1. /\ project = p /\ doing = "load" /\ DOMAIN imports = {} /\ webDirect = {}
      /\ pending = p.candidates /\ web = {} /\ entry = {}
      /\ imports \in [{} -> SUBSET DOMAIN project.source]
  BY DEF EntryStart
<1> QED BY <1>1 DEF EntryInv, Parsed, Loading

LEMMA LoadCandidateStep ==
    ASSUME EntryInv, NEW f \in DOMAIN project.source, LoadCandidate(f)
    PROVE  EntryInv'
<1>1. /\ doing = "load" /\ f \in pending /\ Parses(f) /\ pending' = pending \ {f}
      /\ project' = project /\ doing' = doing /\ web' = web /\ entry' = entry
  BY DEF LoadCandidate
<1>2. Parsed'
  BY <1>1, ParsingIsRight DEF EntryInv
<1>3. Loading'
  BY <1>1 DEF EntryInv, Loading
<1> QED BY <1>1, <1>2, <1>3 DEF EntryInv

LEMMA SearchForwardStep == ASSUME EntryInv, SearchForward PROVE EntryInv'
<1>1. /\ doing = "load" /\ doing' = "forward"
      /\ pending' = LibraryFiles /\ met' = LibraryFiles
      /\ project' = project /\ imports' = imports /\ webDirect' = webDirect
      /\ web' = web /\ entry' = entry
  BY DEF SearchForward
<1>2. Parsed'
  BY <1>1, SameProject DEF EntryInv, Parsed
<1>3. LibraryFiles \subseteq DOMAIN project.source
  BY EntryAssumption DEF EntryInv, Parsed, LibraryFiles
<1>4. Forward'
  BY <1>1, <1>3, SameProject DEF EntryInv, Loading, Forward
<1> QED BY <1>1, <1>2, <1>4 DEF EntryInv

LEMMA FollowStep ==
    ASSUME EntryInv, NEW f \in DOMAIN project.source, Follow(f)
    PROVE  EntryInv'
<1>1. /\ doing = "forward" /\ f \in pending /\ Parses(f)
      /\ met' = met \cup imports'[f]
      /\ pending' = (pending \ {f}) \cup (imports'[f] \ met)
      /\ project' = project /\ doing' = doing /\ web' = web /\ entry' = entry
  BY DEF Follow
<1>2. Parsed' /\ DOMAIN imports' = DOMAIN imports \cup {f} /\ imports'[f] = ImportsOf(f)
  BY <1>1, ParsingIsRight DEF EntryInv
<1>3. Forward
  BY <1>1 DEF EntryInv
<1>4. met' \ pending' \subseteq (met \ pending) \cup {f}
  BY <1>1
<1>5. met' \subseteq DOMAIN project.source
  BY <1>1, <1>2, <1>3, ImportsAreFiles DEF Forward
<1>6. \A g \in met' \ pending' : ImportsOf(g) \subseteq met'
  BY <1>1, <1>2, <1>3, <1>4 DEF Forward
<1>7. Forward'
  BY <1>1, <1>2, <1>3, <1>4, <1>5, <1>6, SameProject DEF Forward
<1> QED BY <1>1, <1>2, <1>7 DEF EntryInv

LEMMA SearchBackwardStep == ASSUME EntryInv, SearchBackward PROVE EntryInv'
<1>1. /\ doing = "forward" /\ pending = {} /\ doing' = "backward"
      /\ web' = webDirect /\ pending' = webDirect /\ met' = met
      /\ project' = project /\ imports' = imports /\ webDirect' = webDirect
      /\ entry' = entry
  BY DEF SearchBackward
<1>2. Parsed /\ Forward
  BY <1>1 DEF EntryInv
<1>3. \A g \in webDirect : Reaches(g)
  BY <1>2, DirectReaches DEF Parsed

<1>4. \A g : Reaches(g)' <=> Reaches(g)
  BY <1>1, SameProject DEF Reaches
<1>5. Backward'
  BY <1>1, <1>2, <1>3, <1>4, SameProject DEF Backward, Forward, Parsed
<1>6. Parsed'
  BY <1>1, <1>2, SameProject DEF Parsed
<1> QED BY <1>1, <1>5, <1>6 DEF EntryInv, Forward

LEMMA GoBackStep ==
    ASSUME EntryInv, NEW f \in DOMAIN project.source, GoBack(f)
    PROVE  EntryInv'
<1>1. /\ doing = "backward" /\ f \in pending
      /\ web' = web \cup Importers(f)
      /\ pending' = (pending \ {f}) \cup (Importers(f) \ web)
      /\ project' = project /\ doing' = doing /\ imports' = imports
      /\ webDirect' = webDirect /\ met' = met /\ entry' = entry
  BY DEF GoBack
<1>2. Parsed /\ Backward /\ entry = {}
  BY <1>1 DEF EntryInv
<1>3. \A g : Importers(g)' = Importers(g)
  BY <1>1 DEF Importers
<1>4. \A g : Reaches(g)' <=> Reaches(g)
  BY <1>1, SameProject DEF Reaches
<1>5. ASSUME NEW g \in Importers(f) PROVE g \in DOMAIN imports /\ Reaches(g)
  <2>1. g \in DOMAIN imports /\ f \in ImportsOf(g) /\ g \in DOMAIN project.source
    BY <1>2, <1>5 DEF Importers, Parsed
  <2>2. Reaches(f)
    BY <1>1, <1>2 DEF Backward
  <2> QED BY <2>1, <2>2, CompiledSteps
<1>6. web' \ pending' \subseteq (web \ pending) \cup {f}
  BY <1>1
<1>7. \A g \in web' \ pending' : Importers(g) \subseteq web'
  BY <1>1, <1>2, <1>6 DEF Backward
<1>8. /\ webDirect' \subseteq web' /\ web' \subseteq DOMAIN imports' /\ pending' \subseteq web'
      /\ \A g \in web' : Reaches(g)
  BY <1>1, <1>2, <1>5 DEF Backward
<1>9. Backward'
  BY <1>1, <1>2, <1>3, <1>4, <1>7, <1>8, SameProject DEF Backward
<1>10. Parsed'
  BY <1>1, <1>2, SameProject DEF Parsed
<1> QED BY <1>1, <1>2, <1>9, <1>10 DEF EntryInv

LEMMA WriteEntryStep == ASSUME EntryInv, WriteEntry PROVE EntryInv'
<1>1. /\ doing = "backward" /\ pending = {} /\ doing' = "written"
      /\ entry' = LibraryFiles \ web
      /\ project' = project /\ imports' = imports /\ webDirect' = webDirect
      /\ pending' = pending /\ met' = met /\ web' = web
  BY DEF WriteEntry
<1>2. Parsed /\ Backward
  BY <1>1 DEF EntryInv
<1>3. \A g : Importers(g)' = Importers(g) /\ (Reaches(g)' <=> Reaches(g))
  BY <1>1, SameProject DEF Importers, Reaches
<1>4. Parsed' /\ Backward'
  BY <1>1, <1>2, <1>3, SameProject DEF Parsed, Backward
<1> QED BY <1>1, <1>4, SameProject DEF EntryInv

LEMMA EntryStutters == ASSUME EntryInv, UNCHANGED entryVars PROVE EntryInv'
<1>1. \A g : Importers(g)' = Importers(g) /\ (Reaches(g)' <=> Reaches(g))
  BY SameProject DEF Importers, Reaches, entryVars
<1>2. Parsed'
  BY SameProject DEF entryVars, EntryInv, Parsed
<1>3. Loading => Loading'
  BY DEF entryVars, Loading
<1>4. Forward => Forward'
  BY SameProject DEF entryVars, Forward
<1>5. Backward => Backward'
  BY <1>1, SameProject DEF entryVars, Backward
<1> QED BY <1>2, <1>3, <1>4, <1>5, SameProject DEF entryVars, EntryInv

LEMMA EntryStep == EntryInv /\ [EntryNext]_entryVars => EntryInv'
<1> SUFFICES ASSUME EntryInv, [EntryNext]_entryVars PROVE EntryInv'
  OBVIOUS
<1> QED
  BY LoadCandidateStep, FollowStep, GoBackStep, SearchForwardStep, SearchBackwardStep,
     WriteEntryStep, EntryStutters DEF EntryNext

THEOREM EntryInvariant == EntrySpec => []EntryInv
  BY EntryStarts, EntryStep, PTL DEF EntrySpec

-----------------------------------------------------------------------------
(* What the libraries compile has been met. *)
LEMMA MetIsClosed ==
    ASSUME Parsed, Backward
    PROVE  Compiled(LibraryFiles) \subseteq met
<1>1. met \in SUBSET DOMAIN project.source /\ LibraryFiles \subseteq met
  BY DEF Parsed, Backward
<1>2. Closed(met)
  BY DEF Backward, Closed
<1> QED BY <1>1, <1>2 DEF Compiled

(* At the end, what is met and reaches nothing web-only is closed. *)
LEMMA RestIsClosed ==
    ASSUME Parsed, Backward, pending = {}
    PROVE  Compiled(LibraryFiles \ web) \subseteq met \ web
<1>1. met \ web \in SUBSET DOMAIN project.source
  BY DEF Parsed, Backward
<1>2. LibraryFiles \ web \subseteq met \ web
  BY DEF Backward
<1>3. ASSUME NEW f \in met \ web, NEW t \in ImportsOf(f) PROVE t \in met \ web
  <2>1. t \in met /\ f \in DOMAIN imports
    BY <1>3 DEF Backward
  <2>2. f \in Importers(t)
    BY <1>3, <2>1 DEF Importers, Parsed
  <2>3. t \notin web
    BY <1>3, <2>2 DEF Backward
  <2> QED BY <2>1, <2>3
<1>4. Closed(met \ web)
  BY <1>3 DEF Closed
<1> QED BY <1>1, <1>2, <1>4 DEF Compiled

LEMMA EntryTypes == ASSUME EntryInv PROVE EntryTypeOK
<1>1. Parsed
  BY DEF EntryInv
<1>2. pending \subseteq DOMAIN project.source
  BY <1>1, EntryAssumption DEF EntryInv, Parsed, Loading, Forward, Backward
<1>3. web \subseteq DOMAIN imports /\ (doing = "backward" => pending \subseteq web)
  BY DEF EntryInv, Loading, Forward, Backward
<1>4. entry \subseteq LibraryFiles
  BY DEF EntryInv, Loading, Forward
<1>5. webDirect \subseteq DOMAIN imports
  BY <1>1 DEF Parsed
<1>6. imports \in [DOMAIN imports -> SUBSET DOMAIN project.source]
  BY <1>1 DEF Parsed
<1>7. doing \in {"load", "forward", "backward", "written"}
  BY DEF EntryInv
<1> QED BY <1>2, <1>3, <1>4, <1>5, <1>6, <1>7 DEF EntryTypeOK

(* The entrypoint that lib_entry.py writes imports all the libraries that can be
   compiled for the VM and no other, for every package: whatever its files import,
   over however many cycles, and whatever they name that does not exist. *)
THEOREM EntryIsExactCorrect == EntrySpec => []EntryIsExact
<1>1. EntryInv => EntryIsExact
  <2> SUFFICES ASSUME EntryInv PROVE EntryIsExact
    OBVIOUS
  <2>1. Parsed /\ EntryTypeOK
    BY EntryTypes DEF EntryInv
  <2>2. AllParsed
    <3> SUFFICES ASSUME doing \in {"backward", "written"}
                 PROVE  Compiled(LibraryFiles) \subseteq DOMAIN imports
      BY DEF AllParsed
    <3>1. Backward
      BY DEF EntryInv
    <3> QED BY <2>1, <3>1, MetIsClosed DEF Backward
  <2>3. CASE doing = "written"
    <3>1. Backward /\ pending = {} /\ entry = LibraryFiles \ web
      BY <2>3 DEF EntryInv
    <3>2. EntryCompiles
      <4>1. \A f \in Compiled(entry) : f \in met \ web
        BY <2>1, <3>1, RestIsClosed
      <4>2. \A f \in met \ web : Web \notin UrisOf(f)
        BY <2>1, <3>1 DEF Parsed, Backward
      <4> QED BY <4>1, <4>2 DEF EntryCompiles
    <3>3. NothingLost
      BY <3>1 DEF NothingLost, Backward, Reaches
    <3> QED BY <2>1, <2>2, <3>2, <3>3 DEF EntryIsExact
  <2>4. CASE doing # "written"
    BY <2>1, <2>2, <2>4 DEF EntryIsExact, EntryCompiles, NothingLost
  <2> QED BY <2>3, <2>4
<1> QED BY <1>1, EntryInvariant, PTL

-----------------------------------------------------------------------------
ShrinkSteps == {"idle", "specs", "inputs", "first", "plant", "planted", "restore",
                "rebuild", "unshrunk", "passed", "failed", "killed"}
GuardSteps  == {"idle", "plant", "query", "restore", "rejected", "empty", "cross",
                "graphs", "registrants", "edges", "passed", "failed", "killed"}
Answers == {"none", "named", "unnamed", "accepted"}

PastInputs == {"first", "plant", "planted", "restore", "rebuild", "unshrunk", "passed"}
Emptied    == {"planted", "restore"}

(* What the rules check knows at each of its steps. *)
ShrinkOK ==
    /\ shrink \in [at : ShrinkSteps, original : {"whole", "empty"}, wrong : BOOLEAN]
    /\ rules \in {"whole", "empty"} /\ dex \in {"none", "kept", "stripped"}
    /\ shrink.at \in PastInputs => {Conventional, Custom} \subseteq InputPaths(consumer.r8)
    /\ shrink.at = "plant" => Dex(rules) = "kept"
    /\ shrink.at \in Emptied => rules = "empty" /\ Dex(shrink.original) = "kept"
    /\ shrink.at = "rebuild" => rules = shrink.original /\ Dex(rules) = "kept"
    /\ shrink.at \in {"restore", "rebuild"} /\ ~shrink.wrong => Dex("empty") = "stripped"
    /\ shrink.at \in {"unshrunk", "passed"} =>
          /\ dex = "kept" /\ rules = "whole"
          /\ Dex("whole") = "kept" /\ Dex("empty") = "stripped"
    /\ shrink.at = "passed" => InputPaths(consumer.unshrunk) = {}

(* Without a kill, the rules are emptied only while the check holds their text. *)
Unkilled == kills = 0
RulesBack ==
    Unkilled => /\ rules = "empty" => shrink.at \in Emptied
                /\ shrink.at \in Emptied => shrink.original = "whole"

Holding == guard.at \in {"query", "restore"}
PlantCount ==
    /\ kills \in Nat /\ kills <= Kills /\ plants \in Nat
    /\ Holding => plants = guard.original + 1 /\ guard.original <= kills
    /\ ~Holding => plants <= kills

Crosses ==
    \/ consumer.graphs["cross"] \cap SecondRepos # {}
    \/ consumer.graphs["second"] \cap FirstRepos # {}

(* What the graph guard knows: an answer that names the missing source was given for
   a BUILD file that had one target of that name, the one it planted. *)
GuardOK ==
    /\ guard \in [at : GuardSteps, original : Nat, answer : Answers]
    /\ guard.at \in {"plant", "query"} => guard.answer = "none"
    /\ guard.at = "restore" /\ guard.answer = "named" =>
          consumer.missing = "named" /\ guard.original = 0
    /\ guard.at \in {"rejected", "empty", "cross", "graphs", "registrants", "edges", "passed"}
          /\ guard.answer = "named" => consumer.missing = "named" /\ plants = 0
    /\ guard.at \in {"empty", "cross", "graphs", "registrants", "edges", "passed"} =>
          guard.answer \in {"none", "named"}
    /\ guard.at \in {"graphs", "registrants", "edges", "passed"} /\ guard.answer # "none" =>
          Crosses

GuardsInv ==
    consumer \in Consumers /\ ShrinkOK /\ RulesBack /\ PlantCount /\ GuardOK

LEMMA SameConsumer ==
    ASSUME consumer' = consumer
    PROVE  /\ \A text : Dex(text)' = Dex(text)
           /\ InputPaths(consumer.r8)' = InputPaths(consumer.r8)
           /\ InputPaths(consumer.unshrunk)' = InputPaths(consumer.unshrunk)
           /\ Crosses' <=> Crosses
  BY DEF Dex, InputPaths, Crosses

LEMMA DexValues == \A text : Dex(text) \in {"kept", "stripped"}
  BY DEF Dex

LEMMA GuardsStarts == GuardsInit => GuardsInv
<1> SUFFICES ASSUME NEW c \in Consumers, GuardsStart(c) PROVE GuardsInv
  BY DEF GuardsInit
<1>1. /\ consumer = c /\ rules = "whole" /\ plants = 0 /\ dex = "none" /\ kills = 0
      /\ shrink = [at |-> "idle", original |-> "whole", wrong |-> FALSE]
      /\ guard = [at |-> "idle", original |-> 0, answer |-> "none"]
  BY DEF GuardsStart
<1>2. ShrinkOK
  BY <1>1 DEF ShrinkOK, ShrinkSteps, PastInputs, Emptied
<1>3. RulesBack
  BY <1>1 DEF RulesBack, Emptied
<1>4. ~Holding
  BY <1>1 DEF Holding
<1>5. PlantCount
  BY <1>1, <1>4, GuardsAssumption DEF PlantCount
<1>6. GuardOK
  BY <1>1 DEF GuardOK, GuardSteps, Answers
<1> QED BY <1>1, <1>2, <1>3, <1>5, <1>6 DEF GuardsInv

(* Steps of the one check leave what the other knows. *)
LEMMA GuardKept ==
    ASSUME consumer' = consumer, guard' = guard, plants' = plants, GuardOK
    PROVE  GuardOK'
  BY SameConsumer DEF GuardOK

LEMMA CountKept ==
    ASSUME guard' = guard, plants' = plants, kills' = kills, PlantCount
    PROVE  PlantCount'
  BY DEF PlantCount, Holding

LEMMA ShrinkKept ==
    ASSUME consumer' = consumer, shrink' = shrink, rules' = rules, dex' = dex, ShrinkOK
    PROVE  ShrinkOK'
  BY SameConsumer DEF ShrinkOK

LEMMA BackKept ==
    ASSUME shrink' = shrink, rules' = rules, kills' = kills, RulesBack
    PROVE  RulesBack'
  BY DEF RulesBack, Unkilled

(* A step of the rules check but its kill. *)
ShrinkMoves ==
    \/ StartShrink \/ CheckSpecs \/ CheckInputs \/ FirstBuild \/ EmptyRules
    \/ PlantedBuild \/ RestoreRules \/ RestoredBuild \/ CheckUnshrunk
GuardMoves ==
    \/ StartGuard \/ PlantTarget \/ QueryPlanted \/ RestoreTarget \/ CheckRejected
    \/ CheckEmpty \/ CheckCross \/ CheckGraphs \/ CheckRegistrants \/ CheckEdges

LEMMA ShrinkStepOK ==
    ASSUME GuardsInv, ShrinkMoves
    PROVE  ShrinkOK' /\ RulesBack' /\ consumer' = consumer
<1> USE DEF GuardsInv, ShrinkTo, ShrinkStep
<1>0. ShrinkOK /\ RulesBack
  OBVIOUS
<1>1. CASE StartShrink
  BY <1>1, SameConsumer DEF StartShrink, ShrinkOK, RulesBack, Unkilled, ShrinkSteps, PastInputs, Emptied
<1>2. CASE CheckSpecs
  BY <1>2, SameConsumer DEF CheckSpecs, ShrinkOK, RulesBack, Unkilled, ShrinkSteps, PastInputs, Emptied
<1>3. CASE CheckInputs
  BY <1>3, SameConsumer DEF CheckInputs, ShrinkOK, RulesBack, Unkilled, ShrinkSteps, PastInputs, Emptied
<1>4. CASE FirstBuild
  BY <1>4, SameConsumer, DexValues DEF FirstBuild, BuildDex, ShrinkOK, RulesBack, Unkilled, ShrinkSteps, PastInputs, Emptied
<1>5. CASE EmptyRules
  BY <1>5, SameConsumer DEF EmptyRules, ShrinkOK, RulesBack, Unkilled, ShrinkSteps, PastInputs, Emptied
<1>6. CASE PlantedBuild
  BY <1>6, SameConsumer, DexValues, ZenonT(60) DEF PlantedBuild, BuildDex, StillKept, ShrinkOK, RulesBack, Unkilled, ShrinkSteps, PastInputs, Emptied
<1>7. CASE RestoreRules
  BY <1>7, SameConsumer DEF RestoreRules, ShrinkOK, RulesBack, Unkilled, ShrinkSteps, PastInputs, Emptied
<1>8. CASE RestoredBuild
  BY <1>8, SameConsumer, DexValues DEF RestoredBuild, BuildDex, ShrinkOK, RulesBack, Unkilled, ShrinkSteps, PastInputs, Emptied
<1>9. CASE CheckUnshrunk
  BY <1>9, SameConsumer DEF CheckUnshrunk, ShrinkOK, RulesBack, Unkilled, ShrinkSteps, PastInputs, Emptied
<1> QED BY <1>1, <1>2, <1>3, <1>4, <1>5, <1>6, <1>7, <1>8, <1>9 DEF ShrinkMoves

(* The guard's answers, without the arithmetic of the plants. *)
LEMMA GuardStepOK ==
    ASSUME GuardsInv, GuardMoves
    PROVE  GuardOK' /\ PlantCount' /\ consumer' = consumer
<1> USE DEF GuardsInv, GuardTo, GuardStep
<1>0. GuardOK /\ PlantCount
  OBVIOUS
<1>1. CASE StartGuard
  BY <1>1, SameConsumer DEF StartGuard, GuardOK, PlantCount, Holding, GuardSteps, Answers
<1>2. CASE PlantTarget
  <2>1. /\ guard.at = "plant" /\ guard.original \in Nat /\ guard.answer = "none"
        /\ guard' = [guard EXCEPT !.at = "query", !.original = plants]
        /\ plants' = plants + 1 /\ plants \in Nat /\ consumer' = consumer /\ kills' = kills
    BY <1>2 DEF PlantTarget, GuardOK, PlantCount
  <2>2. GuardOK'
    BY <2>1, SameConsumer DEF GuardOK, GuardSteps, Answers
  <2>3. Holding' /\ ~Holding /\ guard'.original = plants
    BY <2>1, <2>2 DEF Holding, GuardOK
  <2>4. PlantCount'
    BY <2>1, <2>3 DEF PlantCount
  <2> QED BY <2>1, <2>2, <2>4
<1>3. CASE QueryPlanted
  <2>1. /\ guard.at = "query"
        /\ guard' = [guard EXCEPT !.at = "restore",
                         !.answer = IF Loads THEN consumer.missing ELSE "unnamed"]
        /\ plants' = plants /\ consumer' = consumer /\ kills' = kills
    BY <1>3 DEF QueryPlanted
  <2>2. Holding /\ Holding' /\ guard'.original = guard.original
    BY <2>1 DEF Holding, GuardOK
  <2>3. PlantCount'
    BY <2>1, <2>2 DEF PlantCount
  <2>4. Loads => guard.original = 0
    BY <2>2 DEF Loads, PlantCount, GuardOK
  <2>5. consumer.missing \in Answers
    BY GuardsAssumption DEF Answers
  <2>6. GuardOK'
    BY <2>1, <2>4, <2>5, SameConsumer DEF GuardOK, GuardSteps, Answers
  <2> QED BY <2>1, <2>3, <2>6
<1>4. CASE RestoreTarget
  BY <1>4, SameConsumer DEF RestoreTarget, GuardOK, PlantCount, Holding, GuardSteps, Answers
<1>5. CASE CheckRejected
  BY <1>5, SameConsumer DEF CheckRejected, RejectedByName, GuardOK, PlantCount, Holding, GuardSteps, Answers
<1>6. CASE CheckEmpty
  BY <1>6, SameConsumer DEF CheckEmpty, GuardOK, PlantCount, Holding, GuardSteps, Answers
<1>7. CASE CheckCross
  BY <1>7, SameConsumer DEF CheckCross, HasMarkers, Apart, GraphOf, Crosses, GuardOK, PlantCount, Holding, GuardSteps, Answers
<1>8. CASE CheckGraphs
  BY <1>8, SameConsumer DEF CheckGraphs, GuardOK, PlantCount, Holding, GuardSteps, Answers
<1>9. CASE CheckRegistrants
  BY <1>9, SameConsumer DEF CheckRegistrants, GuardOK, PlantCount, Holding, GuardSteps, Answers
<1>10. CASE CheckEdges
  BY <1>10, SameConsumer DEF CheckEdges, GuardOK, PlantCount, Holding, GuardSteps, Answers
<1> QED BY <1>1, <1>2, <1>3, <1>4, <1>5, <1>6, <1>7, <1>8, <1>9, <1>10 DEF GuardMoves

(* A kill leaves everything as it is, but that it has happened. *)
LEMMA KillShrinkOK == ASSUME GuardsInv, KillShrink PROVE GuardsInv'
<1>1. /\ shrink' = [shrink EXCEPT !.at = "killed"] /\ kills' = kills + 1 /\ kills < Kills
      /\ consumer' = consumer /\ rules' = rules /\ plants' = plants
      /\ dex' = dex /\ guard' = guard
  BY DEF KillShrink, ShrinkTo
<1>2. ShrinkOK'
  BY <1>1, SameConsumer DEF GuardsInv, ShrinkOK, ShrinkSteps, PastInputs, Emptied
<1>3. PlantCount'
  <2>1. Kills \in Nat /\ (Holding' <=> Holding) /\ PlantCount /\ guard.original \in Nat
    BY <1>1, GuardsAssumption DEF GuardsInv, Holding, GuardOK
  <2> QED BY <1>1, <2>1 DEF PlantCount
<1>4. RulesBack'
  BY <1>1 DEF GuardsInv, PlantCount, RulesBack, Unkilled
<1> QED BY <1>1, <1>2, <1>3, <1>4, GuardKept DEF GuardsInv

LEMMA KillGuardOK == ASSUME GuardsInv, KillGuard PROVE GuardsInv'
<1>1. /\ guard' = [guard EXCEPT !.at = "killed"] /\ kills' = kills + 1 /\ kills < Kills
      /\ consumer' = consumer /\ rules' = rules /\ plants' = plants
      /\ dex' = dex /\ shrink' = shrink
  BY DEF KillGuard, GuardTo
<1>2. GuardOK'
  BY <1>1, SameConsumer DEF GuardsInv, GuardOK, GuardSteps
<1>3. ~Holding'
  BY <1>1 DEF Holding, GuardsInv, GuardOK
<1>4. PlantCount'
  BY <1>1, <1>3, GuardsAssumption DEF GuardsInv, GuardOK, PlantCount
<1>5. RulesBack'
  BY <1>1 DEF GuardsInv, PlantCount, RulesBack, Unkilled
<1> QED BY <1>1, <1>2, <1>4, <1>5, ShrinkKept DEF GuardsInv

LEMMA GuardsStep == GuardsInv /\ [GuardsNext]_guardsVars => GuardsInv'
<1> SUFFICES ASSUME GuardsInv, [GuardsNext]_guardsVars PROVE GuardsInv'
  OBVIOUS
<1>1. CASE ShrinkMoves
  <2>1. guard' = guard /\ plants' = plants /\ kills' = kills
    BY <1>1 DEF ShrinkMoves, ShrinkStep, StartShrink, CheckSpecs, CheckInputs, FirstBuild,
                EmptyRules, PlantedBuild, RestoreRules, RestoredBuild, CheckUnshrunk
  <2> QED BY <1>1, <2>1, ShrinkStepOK, GuardKept, CountKept DEF GuardsInv
<1>2. CASE GuardMoves
  <2>1. shrink' = shrink /\ rules' = rules /\ dex' = dex /\ kills' = kills
    BY <1>2 DEF GuardMoves, GuardStep, StartGuard, PlantTarget, QueryPlanted, RestoreTarget,
                CheckRejected, CheckEmpty, CheckCross, CheckGraphs, CheckRegistrants, CheckEdges
  <2> QED BY <1>2, <2>1, GuardStepOK, ShrinkKept, BackKept DEF GuardsInv
<1>3. CASE KillShrink
  BY <1>3, KillShrinkOK
<1>4. CASE KillGuard
  BY <1>4, KillGuardOK
<1>5. CASE UNCHANGED guardsVars
  BY <1>5, ShrinkKept, BackKept, GuardKept, CountKept DEF guardsVars, GuardsInv
<1> QED BY <1>1, <1>2, <1>3, <1>4, <1>5 DEF GuardsNext, ShrinkMoves, GuardMoves

THEOREM GuardsInvariant == GuardsSpec => []GuardsInv
  BY GuardsStarts, GuardsStep, PTL DEF GuardsSpec

(* Neither check of the consumer module passes without having seen its planted defect
   rejected, and neither passes over a file that it or an earlier run left changed:
   however often they are killed and started again, and beside one another. *)
THEOREM GuardsMeanItCorrect == GuardsSpec => []GuardsMeanIt
<1>1. GuardsInv => GuardsMeanIt
  <2> SUFFICES ASSUME GuardsInv PROVE GuardsMeanIt
    OBVIOUS
  <2>1. GuardsTypeOK
    <3>1. rules \in {"whole", "empty"} /\ dex \in {"none", "kept", "stripped"}
      BY DEF GuardsInv, ShrinkOK
    <3>2. plants \in 0..(kills + 1) /\ kills \in 0..Kills
      BY GuardsAssumption DEF GuardsInv, PlantCount, GuardOK
    <3>3. kills = 0 => (rules = "empty" => shrink.at \in {"planted", "restore"})
      BY DEF GuardsInv, RulesBack, Unkilled, Emptied
    <3>4. kills = 0 => (plants > 0 => Holding)
      BY DEF GuardsInv, PlantCount
    <3> QED BY <3>1, <3>2, <3>3, <3>4 DEF GuardsTypeOK, Holding
  <2>2. RulesCheckMeansIt
    BY DEF GuardsInv, ShrinkOK, PastInputs, RulesCheckMeansIt
  <2>3. SelftestMeansIt
    BY DEF GuardsInv, GuardOK, Crosses, SelftestMeansIt
  <2> QED BY <2>1, <2>2, <2>3 DEF GuardsMeanIt
<1> QED BY <1>1, GuardsInvariant, PTL

-----------------------------------------------------------------------------
(* The example matrix.  What the gate has passed holds of the pipeline, what is uploaded
   under the name of a job is what that job built, and a job that succeeded has held
   its rows against its table. *)
UploadsOK ==
    \A a \in DOMAIN artifacts : \E j \in Matrix(pipeline) :
        a = ArtifactOf(j) /\ artifacts[a] = pipeline.kernels[j]

SuccessOK ==
    \A j \in Matrix(pipeline) :
        jobs[j] = "success" => RowsMatch(j) /\ pipeline.kernels[j] # NoDigests

GateOK ==
    /\ gate.step \in {"rows", "kernels", "done"} /\ ~gate.failed => ReadsMatrix /\ RowsClaimed
    /\ gate.step \in {"kernels", "done"} /\ ~gate.failed => KernelsAgree
    /\ gate.step = "done" /\ ~gate.failed => MatrixSucceeded

CiInv == pipeline \in Pipelines /\ CiTypeOK /\ UploadsOK /\ SuccessOK /\ GateOK

(* A name that is uploaded is split where it was joined, if the example has no hyphen. *)
LEMMA KeyIsJob ==
    ASSUME NEW S, NEW os \in Seq(S), NEW e \in Seq(S), Len(e) = 1
    PROVE  Front(os \o e) = os /\ Last(os \o e) = e[1]
<1>1. /\ os \o e \in Seq(S) /\ Len(os \o e) = Len(os) + 1
      /\ \A i \in 1..Len(os) : (os \o e)[i] = os[i]
      /\ (os \o e)[Len(os) + 1] = e[1] /\ Len(os) \in Nat
  <2>1. /\ Len(os \o e) = Len(os) + Len(e)
        /\ \A i \in 1..Len(os) : (os \o e)[i] = os[i]
        /\ \A i \in Len(os) + 1..Len(os) + Len(e) : (os \o e)[i] = e[i - Len(os)]
    BY TwoParts
  <2>2. os \o e \in Seq(S) /\ Len(os) \in Nat
    OBVIOUS
  <2>3. Len(os) + 1 \in Len(os) + 1..Len(os) + Len(e) /\ (Len(os) + 1) - Len(os) = 1
    BY <2>2
  <2>. QED BY <2>1, <2>2, <2>3
<1>. DEFINE n == os \o e
<1>. HIDE DEF n
<1>2. n \in Seq(S) /\ Len(n) - 1 = Len(os) /\ Len(n) = Len(os) + 1
  BY <1>1 DEF n
<1>3. SubSeq(n, 1, Len(os)) \in Seq(S) /\ Len(SubSeq(n, 1, Len(os))) = Len(os)
      /\ \A i \in 1..Len(os) : SubSeq(n, 1, Len(os))[i] = n[i]
  BY <1>1, <1>2
<1>4. SubSeq(n, 1, Len(os)) = os
  BY <1>1, <1>3 DEF n
<1>5. Front(n) = os
  BY <1>2, <1>4 DEF Front
<1>6. Last(n) = e[1]
  BY <1>1, <1>2 DEF Last, n
<1>. QED BY <1>5, <1>6 DEF n

LEMMA ArtifactKeyIs ==
    ASSUME pipeline \in Pipelines, ReadsMatrix, NEW j \in Matrix(pipeline)
    PROVE  ArtifactKey(ArtifactOf(j)) = j
<1>1. j[1] \in pipeline.oses /\ j[2] \in pipeline.examples /\ j = <<j[1], j[2]>>
  BY DEF Matrix
<1>2. IsAList(j[1]) /\ IsAList(j[2]) /\ j[2] # <<>>
  BY <1>1, CiAssumption
<1>3. Len(j[2]) = 1
  <2>1. Len(j[2]) \in Nat /\ ~(Len(j[2]) > 1)
    BY <1>1, <1>2, ListSet DEF ReadsMatrix, Hyphenated
  <2>2. Len(j[2]) # 0
    BY <1>2 DEF IsAList
  <2>. DEFINE n == Len(j[2])
  <2>3. n \in Nat /\ ~(n > 1) /\ n # 0
    BY <2>1, <2>2
  <2>. HIDE DEF n
  <2>4. n = 1
    BY <2>3
  <2>. QED BY <2>4 DEF n
<1>. DEFINE S == ToSet(j[1]) \cup ToSet(j[2])
            os == j[1]
            e == j[2]
<1>4. os \in Seq(S) /\ e \in Seq(S)
  BY <1>2 DEF IsAList
<1>5. e = <<e[1]>>
  BY <1>3, <1>4
<1>. HIDE DEF S, os, e
<1>6. Len(e) = 1
  BY <1>3 DEF e
<1>7. Front(os \o e) = os /\ Last(os \o e) = e[1]
  BY <1>4, <1>6, KeyIsJob
<1>8. ArtifactKey(os \o e) = <<os, e>>
  BY <1>5, <1>7 DEF ArtifactKey
<1>. QED BY <1>1, <1>8 DEF ArtifactOf, os, e

-----------------------------------------------------------------------------
LEMMA CiStarts == CiInit => CiInv
<1> SUFFICES ASSUME NEW c \in Pipelines, CiStart(c) PROVE CiInv
  BY DEF CiInit
<1>1. pipeline = c /\ jobs = [j \in Matrix(c) |-> "queued"] /\ DOMAIN artifacts = {}
      /\ gate = [step |-> "waits", failed |-> FALSE]
  BY DEF CiStart
<1>2. CiTypeOK
  BY <1>1 DEF CiTypeOK
<1>3. UploadsOK /\ SuccessOK /\ GateOK
  BY <1>1 DEF UploadsOK, SuccessOK, GateOK
<1> QED BY <1>1, <1>2, <1>3 DEF CiInv

LEMMA SameMatrix ==
    ASSUME UNCHANGED pipeline
    PROVE  /\ ReadsMatrix' = ReadsMatrix /\ RowsClaimed' = RowsClaimed
           /\ \A j : RowsMatch(j)' = RowsMatch(j)
           /\ Matrix(pipeline)' = Matrix(pipeline)
BY DEF ReadsMatrix, RowsClaimed, RowsMatch, Matrix

(* While jobs are queued the gate waits. *)
LEMMA JobStep ==
    ASSUME CiInv, NEW j \in Matrix(pipeline), jobs[j] = "queued", UNCHANGED <<pipeline, gate>>,
           NEW how \in {"success", "failure", "cancelled"},
           jobs' = [jobs EXCEPT ![j] = how],
           how = "success" => RowsMatch(j) /\ pipeline.kernels[j] # NoDigests,
           UNCHANGED artifacts \/ Uploaded(ArtifactOf(j), pipeline.kernels[j])
    PROVE  CiInv'
<1>. USE DEF CiInv
<1>0. Matrix(pipeline)' = Matrix(pipeline) /\ DOMAIN jobs = Matrix(pipeline)
  BY SameMatrix DEF CiTypeOK
<1>1. gate.step = "waits" /\ gate' = gate
  BY <1>0 DEF CiTypeOK
<1>2. jobs'[j] = how /\ \A k \in Matrix(pipeline) : k # j => jobs'[k] = jobs[k]
  BY <1>0 DEF CiTypeOK
<1>3. jobs' \in [Matrix(pipeline) -> {"queued", "success", "failure", "cancelled"}]
  BY <1>0 DEF CiTypeOK
<1>4. /\ DOMAIN artifacts' \subseteq DOMAIN artifacts \cup {ArtifactOf(j)}
      /\ \A a \in DOMAIN artifacts' :
            \/ artifacts'[a] = artifacts[a] /\ a \in DOMAIN artifacts
            \/ a = ArtifactOf(j) /\ artifacts'[a] = pipeline.kernels[j]
  BY DEF Uploaded
<1>5. CiTypeOK'
  <2>1. ASSUME NEW a \in DOMAIN artifacts'
        PROVE  \E k \in Matrix(pipeline) : a = ArtifactOf(k) /\ jobs'[k] # "queued"
    <3>1. CASE a = ArtifactOf(j)
      BY <1>2, <3>1
    <3>2. CASE a \in DOMAIN artifacts
      <4>1. PICK k \in Matrix(pipeline) : a = ArtifactOf(k) /\ jobs[k] # "queued"
        BY <1>0, <3>2 DEF CiTypeOK
      <4>. QED BY <1>2, <4>1
    <3>. QED BY <1>4, <3>1, <3>2
  <2>2. DOMAIN jobs' = Matrix(pipeline)
    BY <1>3
  <2>3. DOMAIN artifacts' \subseteq {ArtifactOf(k) : k \in {l \in DOMAIN jobs' : jobs'[l] # "queued"}}
    BY <2>1, <2>2
  <2>. QED BY <1>0, <1>1, <1>3, <2>3 DEF CiTypeOK
<1>6. UploadsOK'
  <2>1. ASSUME NEW a \in DOMAIN artifacts'
        PROVE  \E k \in Matrix(pipeline) : a = ArtifactOf(k) /\ artifacts'[a] = pipeline.kernels[k]
    BY <1>4 DEF UploadsOK
  <2>. QED BY <1>0, <2>1 DEF UploadsOK
<1>7. SuccessOK'
  BY <1>0, <1>2, SameMatrix DEF SuccessOK
<1>8. GateOK'
  BY <1>1 DEF GateOK
<1>. QED BY <1>5, <1>6, <1>7, <1>8

LEMMA JobEndsOK == ASSUME CiInv, NEW j \in DOMAIN jobs, JobEnds(j) PROVE CiInv'
<1>1. PICK how \in {"success", "failure"} :
         /\ how = "success" => RowsMatch(j) /\ pipeline.kernels[j] # NoDigests
         /\ jobs' = [jobs EXCEPT ![j] = how]
  BY DEF JobEnds
<1>2. j \in Matrix(pipeline)
  BY DEF CiInv, CiTypeOK
<1>3. /\ UNCHANGED <<pipeline, gate>> /\ jobs[j] = "queued"
      /\ UNCHANGED artifacts \/ Uploaded(ArtifactOf(j), pipeline.kernels[j])
  BY DEF JobEnds, Upload
<1>. QED BY <1>1, <1>2, <1>3, JobStep

LEMMA JobIsCancelledOK == ASSUME CiInv, NEW j \in DOMAIN jobs, JobIsCancelled(j) PROVE CiInv'
<1>. DEFINE how == "cancelled"
<1>1. jobs' = [jobs EXCEPT ![j] = how] /\ how # "success"
  BY DEF JobIsCancelled
<1>2. j \in Matrix(pipeline)
  BY DEF CiInv, CiTypeOK
<1>3. /\ UNCHANGED <<pipeline, gate>> /\ jobs[j] = "queued"
      /\ UNCHANGED artifacts \/ Uploaded(ArtifactOf(j), pipeline.kernels[j])
  BY DEF JobIsCancelled, Upload
<1>4. how \in {"success", "failure", "cancelled"}
  OBVIOUS
<1>. HIDE DEF how
<1>. QED BY <1>1, <1>2, <1>3, <1>4, JobStep

LEMMA GateStepOK ==
    ASSUME CiInv, NEW from, NEW to \in {"rows", "kernels", "done"}, NEW ok, GateStep(from, to, ok),
           \A j \in DOMAIN jobs : jobs[j] # "queued",
           ok => /\ ReadsMatrix /\ RowsClaimed
                 /\ to \in {"kernels", "done"} => KernelsAgree
                 /\ to = "done" => MatrixSucceeded
    PROVE  CiInv'
<1>1. UNCHANGED <<pipeline, jobs, artifacts>> /\ gate'.step = to /\ (~gate'.failed => ok)
  BY DEF GateStep
<1>2. CiTypeOK'
  BY <1>1 DEF CiInv, CiTypeOK, Matrix
<1>3. UploadsOK' /\ SuccessOK'
  BY <1>1, SameMatrix DEF CiInv, UploadsOK, SuccessOK
<1>4. KernelsAgree' = KernelsAgree /\ MatrixSucceeded' = MatrixSucceeded
  BY <1>1 DEF KernelsAgree, Found, MatrixSucceeded, Matrix
<1>5. GateOK'
  BY <1>1, <1>4, SameMatrix DEF GateOK
<1>. QED BY <1>1, <1>2, <1>3, <1>5 DEF CiInv

LEMMA CiStep == CiInv /\ [CiNext]_ciVars => CiInv'
<1> SUFFICES ASSUME CiInv, [CiNext]_ciVars PROVE CiInv'
  OBVIOUS
<1>1. CASE \E j \in DOMAIN jobs : JobEnds(j) \/ JobIsCancelled(j)
  BY <1>1, JobEndsOK, JobIsCancelledOK
<1>2. CASE GateRows
  <2>. DEFINE ok == ReadsMatrix /\ RowsClaimed
  <2>1. GateStep("waits", "rows", ok) /\ \A j \in DOMAIN jobs : jobs[j] # "queued"
    BY <1>2 DEF GateRows
  <2>. QED BY <2>1, GateStepOK
<1>3. CASE GateKernels
  <2>. DEFINE ok == ReadsMatrix /\ KernelsAgree
  <2>1. GateStep("rows", "kernels", ok)
    BY <1>3 DEF GateKernels
  <2>2. gate.step = "rows" /\ ~gate.failed
    BY <2>1 DEF GateStep
  <2>3. (\A j \in DOMAIN jobs : jobs[j] # "queued") /\ RowsClaimed
    BY <2>2 DEF CiInv, CiTypeOK, GateOK
  <2>. QED BY <2>1, <2>3, GateStepOK
<1>4. CASE GateResult
  <2>1. GateStep("kernels", "done", MatrixSucceeded)
    BY <1>4 DEF GateResult
  <2>2. gate.step = "kernels" /\ ~gate.failed
    BY <2>1 DEF GateStep
  <2>3. /\ \A j \in DOMAIN jobs : jobs[j] # "queued"
        /\ ReadsMatrix /\ RowsClaimed /\ KernelsAgree
    BY <2>2 DEF CiInv, CiTypeOK, GateOK
  <2>. QED BY <2>1, <2>3, GateStepOK
<1>5. CASE UNCHANGED ciVars
  <2>1. UNCHANGED <<pipeline, jobs, artifacts, gate>>
    BY <1>5 DEF ciVars
  <2>2. CiTypeOK'
    BY <2>1 DEF CiInv, CiTypeOK, Matrix
  <2>3. UploadsOK' /\ SuccessOK'
    BY <2>1, SameMatrix DEF CiInv, UploadsOK, SuccessOK
  <2>4. KernelsAgree' = KernelsAgree /\ MatrixSucceeded' = MatrixSucceeded
    BY <2>1 DEF KernelsAgree, Found, MatrixSucceeded, Matrix
  <2>5. GateOK'
    BY <2>1, <2>4, SameMatrix DEF CiInv, GateOK
  <2>. QED BY <2>1, <2>2, <2>3, <2>5 DEF CiInv
<1>. QED BY <1>1, <1>2, <1>3, <1>4, <1>5 DEF CiNext

-----------------------------------------------------------------------------
(* The rows of one example, or all rows, of a table of rows: in the order of the table,
   each that is asked for, and no other. *)
OfExample(row, only) == only = Nothing \/ row.example = only

Chosen(full, rows, only) ==
    /\ IsAList(full) /\ DOMAIN full = 1..Len(full) /\ Len(full) \in Nat
    /\ \A k \in DOMAIN full : OfExample(full[k], only) /\ \E i \in DOMAIN rows : full[k] = rows[i]
    /\ \A i \in DOMAIN rows : OfExample(rows[i], only) => \E k \in DOMAIN full : full[k] = rows[i]

LEMMA FilterChooses ==
    ASSUME NEW rows, IsAList(rows), NEW only
    PROVE  Chosen(Filtered(rows, {row \in ToSet(rows) : OfExample(row, only)}), rows, only)
<1>. DEFINE wanted == {row \in ToSet(rows) : OfExample(row, only)}
            r == Filtered(rows, wanted)
            S == ToSet(rows)
<1>1. rows \in Seq(S) /\ DOMAIN rows = 1..Len(rows) /\ \A i \in 1..Len(rows) : rows[i] \in S
  BY ListSet DEF IsAList
<1>2. \A x \in S : x \in wanted <=> OfExample(x, only)
  OBVIOUS
<1>3. \A x : x \in wanted => x \in S
  OBVIOUS
<1>. HIDE DEF wanted, S
<1>4. /\ r \in Seq(S)
      /\ \A i \in 1..Len(rows) : rows[i] \in wanted => \E k \in 1..Len(r) : r[k] = rows[i]
      /\ \A k \in 1..Len(r) : r[k] \in wanted /\ \E i \in 1..Len(rows) : r[k] = rows[i]
  BY <1>1, FilteredHolds
<1>5. DOMAIN r = 1..Len(r) /\ Len(r) \in Nat
  BY <1>4
<1>. HIDE DEF r
<1>6. IsAList(r)
  <2>1. r = [k \in 1..Len(r) |-> r[k]]
    BY <1>4
  <2>. QED BY <1>5, <2>1, FunctionIsAList
<1>7. \A k \in DOMAIN r : OfExample(r[k], only) /\ \E i \in DOMAIN rows : r[k] = rows[i]
  BY <1>1, <1>2, <1>3, <1>4, <1>5
<1>8. \A i \in DOMAIN rows : OfExample(rows[i], only) => \E k \in DOMAIN r : r[k] = rows[i]
  BY <1>1, <1>2, <1>4, <1>5
<1>9. Chosen(r, rows, only)
  BY <1>5, <1>6, <1>7, <1>8 DEF Chosen
<1>. QED BY <1>9 DEF r, wanted

LEMMA SelectedAre ==
    ASSUME NEW rows, IsAList(rows), NEW only
    PROVE  Chosen(Selected(rows, only), rows, only) /\ Chosen(RowsExpected(rows, only), rows, only)
<1>1. {row \in ToSet(rows) : OfExample(row, only)}
          = {row \in ToSet(rows) : only = Nothing \/ row.example = only}
  BY DEF OfExample
<1>2. Selected(rows, only) = Filtered(rows, {row \in ToSet(rows) : OfExample(row, only)})
  BY <1>1 DEF Selected
<1>3. RowsExpected(rows, only) = Filtered(rows, {row \in ToSet(rows) : OfExample(row, only)})
  BY <1>1 DEF RowsExpected
<1>. QED BY <1>2, <1>3, FilterChooses

(* The rows of one example, of a table of rows. *)
LEMMA RowsOfExample ==
    ASSUME NEW rows, IsAList(rows), NEW e, e # Nothing
    PROVE  LET r == RowsExpected(rows, e)
           IN  /\ DOMAIN r = 1..Len(r)
               /\ \A k \in DOMAIN r : \E i \in DOMAIN rows : r[k] = rows[i] /\ rows[i].example = e
               /\ \A i \in DOMAIN rows : rows[i].example = e => \E k \in DOMAIN r : r[k] = rows[i]
<1>1. Chosen(RowsExpected(rows, e), rows, e)
  BY SelectedAre
<1>. QED BY <1>1 DEF Chosen, OfExample

(* A job that succeeded has built the rows that its table expects, and their keys are
   those that EXAMPLES selects: the same on every OS. *)
KeysOf(rows) == {rows[k].key : k \in DOMAIN rows}
KeysSelected(e) == {RowKeys(Selected(pipeline.table, e))[k] :
                        k \in DOMAIN RowKeys(Selected(pipeline.table, e))}

LEMMA BuiltIsExpected ==
    ASSUME CiInv, NEW os, NEW e, <<os, e>> \in Matrix(pipeline), jobs[<<os, e>>] = "success"
    PROVE  /\ pipeline.built[<<os, e>>] = RowsExpected(pipeline.tables[os], e)
           /\ KeysOf(RowsExpected(pipeline.tables[os], e)) = KeysSelected(e)
<1>. DEFINE j == <<os, e>>
<1>1. RowsMatch(j) /\ j[1] = os /\ j[2] = e
  BY DEF CiInv, SuccessOK
<1>. HIDE DEF j
<1>2. TableMatches(pipeline.table, pipeline.tables[os], e, pipeline.built[j])
  BY <1>1 DEF RowsMatch
<1>3. RowsCovered(RowsExpected(pipeline.tables[os], e), RowKeys(Selected(pipeline.table, e)))
  BY <1>2 DEF TableMatches
<1>4. KeysOf(RowsExpected(pipeline.tables[os], e)) = KeysSelected(e)
  BY <1>3, Zenon DEF RowsCovered, KeysOf, KeysSelected
<1>. QED BY <1>2, <1>4 DEF TableMatches, j

LEMMA GreenRows == ASSUME CiInv, Green PROVE GreenBuiltEveryRow
<1>1. ReadsMatrix /\ RowsClaimed /\ MatrixSucceeded
  BY DEF CiInv, GateOK, Green
<1>2. DOMAIN jobs = Matrix(pipeline)
  BY DEF CiInv, CiTypeOK
<1>3. pipeline \in Pipelines
  BY DEF CiInv
<1>. SUFFICES ASSUME NEW os \in DOMAIN pipeline.tables, NEW t \in DOMAIN pipeline.tables,
                     NEW i \in DOMAIN pipeline.tables[t]
              PROVE  LET row == pipeline.tables[t][i]
                         job == <<os, row.example>>
                     IN  /\ job \in DOMAIN jobs
                         /\ \E k \in DOMAIN pipeline.built[job] :
                               /\ pipeline.built[job][k].key = row.key
                               /\ t = os => pipeline.built[job][k] = row
  BY DEF GreenBuiltEveryRow
<1>. DEFINE row == pipeline.tables[t][i]
            e == row.example
            job == <<os, e>>
            own == <<t, e>>
            r(o) == RowsExpected(pipeline.tables[o], e)
            built == pipeline.built[job]
<1>4. e \in pipeline.examples /\ os \in pipeline.oses /\ t \in pipeline.oses
  BY <1>1, <1>3, CiAssumption DEF RowsClaimed, RecordedExamples
<1>5. job \in Matrix(pipeline) /\ own \in Matrix(pipeline)
  BY <1>4 DEF Matrix
<1>6. jobs[job] = "success" /\ jobs[own] = "success"
  BY <1>1, <1>2, <1>5 DEF MatrixSucceeded
<1>7. e # Nothing /\ IsAList(pipeline.tables[t])
  BY <1>3, <1>4, CiAssumption
<1>8. \E k \in DOMAIN r(t) : r(t)[k] = row
  <2>. DEFINE rows == pipeline.tables[t]
  <2>1. i \in DOMAIN rows /\ rows[i].example = e
    OBVIOUS
  <2>. HIDE DEF rows, e
  <2>2. \E k \in DOMAIN RowsExpected(rows, e) : RowsExpected(rows, e)[k] = rows[i]
    BY <1>7, <2>1, RowsOfExample DEF rows
  <2>. QED BY <2>2 DEF rows, e
<1>9. built = r(os) /\ KeysOf(r(os)) = KeysOf(r(t))
  <2>. HIDE DEF e
  <2>1. pipeline.built[<<os, e>>] = r(os) /\ KeysOf(r(os)) = KeysSelected(e)
    BY <1>5, <1>6, BuiltIsExpected
  <2>2. KeysOf(r(t)) = KeysSelected(e)
    BY <1>5, <1>6, BuiltIsExpected
  <2>. QED BY <2>1, <2>2
<1>. HIDE DEF r, e, built, row, own
<1>10. \E k \in DOMAIN built : built[k].key = row.key /\ (t = os => built[k] = row)
  <2>1. CASE t = os
    BY <1>8, <1>9, <2>1
  <2>2. CASE t # os
    <3>1. row.key \in KeysOf(r(t))
      BY <1>8, Zenon DEF KeysOf
    <3>2. row.key \in KeysOf(r(os))
      BY <1>9, <3>1
    <3>3. PICK k \in DOMAIN r(os) : r(os)[k].key = row.key
      BY <3>2, Zenon DEF KeysOf
    <3>. QED BY <1>9, <2>2, <3>3
  <2>. QED BY <2>1, <2>2
<1>. QED BY <1>2, <1>5, <1>10 DEF built, row, e

LEMMA GreenKernels == ASSUME CiInv, Green PROVE GreenKernelsAgree
<1>1. ReadsMatrix /\ KernelsAgree /\ MatrixSucceeded
  BY DEF CiInv, GateOK, Green
<1>2. DOMAIN jobs = Matrix(pipeline) /\ pipeline \in Pipelines
  BY DEF CiInv, CiTypeOK
<1>3. ASSUME NEW j \in Matrix(pipeline)
      PROVE  pipeline.kernels[j] # NoDigests /\ Found(j) = {pipeline.kernels[j]}
  <2>1. pipeline.kernels[j] # NoDigests
    BY <1>1, <1>2 DEF CiInv, SuccessOK, MatrixSucceeded
  <2>2. ASSUME NEW a \in DOMAIN artifacts, ArtifactKey(a) = j
        PROVE  artifacts[a] = pipeline.kernels[j]
    <3>1. PICK k \in Matrix(pipeline) : a = ArtifactOf(k) /\ artifacts[a] = pipeline.kernels[k]
      BY DEF CiInv, UploadsOK
    <3>2. k = j
      BY <1>1, <1>2, <2>2, <3>1, ArtifactKeyIs
    <3>. QED BY <3>1, <3>2
  <2>3. Found(j) # {}
    BY <1>1 DEF KernelsAgree
  <2>. QED BY <2>1, <2>2, <2>3 DEF Found
<1>4. \A j, k \in Matrix(pipeline) : j[2] = k[2] => Found(j) = Found(k)
  BY <1>1 DEF KernelsAgree
<1>5. ASSUME NEW j \in Matrix(pipeline), NEW k \in Matrix(pipeline), j[2] = k[2]
      PROVE  pipeline.kernels[j] = pipeline.kernels[k]
  BY <1>3, <1>4, <1>5
<1>. QED BY <1>2, <1>3, <1>5 DEF GreenKernelsAgree

(* ci.yml and matrix_gate.py: for every matrix, tables and outcome of the jobs, a green
   pipeline has built every recorded row on every OS and agrees on every kernel. *)
THEOREM GreenMeansItCorrect == CiSpec => []GreenMeansIt
<1>1. CiInv => GreenMeansIt
  <2>. SUFFICES ASSUME CiInv PROVE GreenMeansIt
    OBVIOUS
  <2>1. GreenBuiltEveryRow /\ GreenKernelsAgree
    BY GreenRows, GreenKernels DEF GreenBuiltEveryRow, GreenKernelsAgree
  <2>. QED BY <2>1 DEF GreenMeansIt, CiInv
<1>. QED BY <1>1, CiStarts, CiStep, PTL DEF CiSpec

-----------------------------------------------------------------------------
(* The native assets.  Each stage of the merge and of the check knows what it has seen,
   and what is written is what the bundles with a manifest say.                      *)
FreshCheck == packaged = {} /\ checked = {}

Compared(n) ==
    /\ differing = {} => \A k \in DOMAIN bundles : k <= n => bundles[k].tree = bundles[1].tree
    /\ differing # {} => \E k \in DOMAIN bundles : bundles[k].tree # bundles[1].tree

Comparing ==
    /\ seen >= 1 /\ Compared(seen) /\ FreshCheck
    /\ format = Absent /\ assets = NoAssets
    /\ bundles # <<>> => manifest = bundles[1].manifest

MergedUpTo(n) ==
    /\ \A k \in 1..n :
          /\ Present[k].manifest.format # Absent => format = Present[k].manifest.format
          /\ \A a \in DOMAIN Present[k].manifest.assets :
                a \in DOMAIN assets /\ assets[a] = Present[k].manifest.assets[a]
    /\ \A a \in DOMAIN assets : \E k \in 1..n :
          /\ a \in DOMAIN Present[k].manifest.assets
          /\ assets[a] = Present[k].manifest.assets[a]
    /\ format # Absent => \E k \in 1..n : Present[k].manifest.format = format
    /\ IsAMap(assets)

SameTrees == \A i, j \in DOMAIN bundles : bundles[i].tree = bundles[j].tree

Merging ==
    /\ bundles # <<>> /\ manifest = bundles[1].manifest
    /\ SameTrees /\ seen \in 0..Len(Present) /\ MergedUpTo(seen) /\ FreshCheck

SaysWhatBundlesSay ==
    /\ \A i \in DOMAIN bundles : HasManifest(bundles[i]) =>
          /\ manifest # Missing
          /\ bundles[i].manifest.format # Absent => manifest.format = bundles[i].manifest.format
          /\ \A a \in DOMAIN bundles[i].manifest.assets :
                a \in DOMAIN manifest.assets /\ manifest.assets[a] = bundles[i].manifest.assets[a]
    /\ manifest # Missing =>
          /\ \A a \in DOMAIN manifest.assets : \E i \in DOMAIN bundles :
                /\ HasManifest(bundles[i]) /\ a \in DOMAIN bundles[i].manifest.assets
                /\ manifest.assets[a] = bundles[i].manifest.assets[a]
          /\ manifest.format # Absent =>
                \E i \in DOMAIN bundles :
                    HasManifest(bundles[i]) /\ bundles[i].manifest.format = manifest.format
          /\ IsAMap(manifest.assets)

JarAt(i) == shipping.jars[i]
PackagedUpTo(n) ==
    /\ \A i \in 1..n :
          /\ OfItsAbi(JarAt(i))
          /\ \A lib \in JarAt(i).libs : <<JarAt(i).abi, JarAt(i).kind, lib[2]>> \in packaged
    /\ \A p \in packaged : \E i \in 1..n : \E lib \in JarAt(i).libs :
          p = <<JarAt(i).abi, JarAt(i).kind, lib[2]>>

SlotOK(abi) == HasSlot(abi) /\ FilesOf(abi) \subseteq Supplied(abi)

Packaging ==
    /\ SameTrees /\ SaysWhatBundlesSay
    /\ seen \in 0..Len(shipping.jars) /\ PackagedUpTo(seen) /\ checked = {}

AllPackaged ==
    SameTrees /\ SaysWhatBundlesSay /\ PackagedUpTo(Len(shipping.jars)) /\ AllRequired

LookingUp == AllPackaged /\ manifest # Missing /\ \A abi \in checked : SlotOK(abi)
Passing == AllPackaged /\ (manifest = Missing \/ \A abi \in shipping.abis : SlotOK(abi))

AssetsInv ==
    /\ AssetsTypeOK
    /\ stage = "compare" => Comparing
    /\ stage = "merge" => Merging
    /\ stage = "package" => Packaging
    /\ stage = "lookup" => LookingUp
    /\ stage = "passed" => Passing
    /\ RefusedForCause

-----------------------------------------------------------------------------
LEMMA BundlesAre ==
    ASSUME AssetsTypeOK
    PROVE  /\ DOMAIN bundles = 1..Len(bundles) /\ Len(bundles) \in Nat
           /\ bundles # <<>> => 1 \in DOMAIN bundles
           /\ bundles = <<>> <=> Len(bundles) = 0
           /\ DOMAIN shipping.jars = 1..Len(shipping.jars) /\ Len(shipping.jars) \in Nat
           /\ \A i \in DOMAIN bundles : IsAMap(bundles[i].tree)
           /\ \A i \in DOMAIN bundles : HasManifest(bundles[i]) => IsAMap(bundles[i].manifest.assets)
           /\ \A i \in DOMAIN shipping.jars : \A lib \in shipping.jars[i].libs : lib = <<lib[1], lib[2]>>
<1>1. IsAList(bundles) /\ IsAList(shipping.jars)
  BY AssetsAssumption DEF AssetsTypeOK
<1>2. bundles = <<>> <=> Len(bundles) = 0
  BY <1>1 DEF IsAList
<1>. QED BY <1>1, <1>2, ListSet, AssetsAssumption DEF AssetsTypeOK, HasManifest

LEMMA PresentAre ==
    ASSUME AssetsTypeOK
    PROVE  /\ Len(Present) \in Nat /\ Len(Present) <= Len(bundles)
           /\ \A n \in 1..Len(Present) : \E i \in DOMAIN bundles :
                 HasManifest(bundles[i]) /\ Present[n] = bundles[i]
           /\ \A i \in DOMAIN bundles : HasManifest(bundles[i]) =>
                 \E n \in 1..Len(Present) : Present[n] = bundles[i]
           /\ Present = <<>> <=> Len(Present) = 0
<1>. DEFINE S == ToSet(bundles)
            wanted == {b \in S : HasManifest(b)}
<1>1. bundles \in Seq(S) /\ DOMAIN bundles = 1..Len(bundles)
      /\ \A i \in 1..Len(bundles) : bundles[i] \in S
  BY AssetsAssumption, ListSet DEF AssetsTypeOK, IsAList
<1>2. \A b \in S : b \in wanted <=> HasManifest(b)
  OBVIOUS
<1>3. Present = Filtered(bundles, wanted)
  BY DEF Present
<1>4. \A b : b \in wanted => b \in S
  OBVIOUS
<1>. HIDE DEF S, wanted
<1>5. /\ Present \in Seq(S) /\ Len(Present) <= Len(bundles)
      /\ \A i \in 1..Len(bundles) : bundles[i] \in wanted =>
            \E k \in 1..Len(Present) : Present[k] = bundles[i]
      /\ \A k \in 1..Len(Present) :
            Present[k] \in wanted /\ \E i \in 1..Len(bundles) : Present[k] = bundles[i]
  BY <1>1, <1>3, FilteredHolds
<1>6. ASSUME NEW n \in 1..Len(Present)
      PROVE  \E i \in DOMAIN bundles : HasManifest(bundles[i]) /\ Present[n] = bundles[i]
  <2>1. PICK i \in 1..Len(bundles) : Present[n] = bundles[i]
    BY <1>5
  <2>2. HasManifest(bundles[i])
    BY <1>2, <1>4, <1>5, <2>1
  <2>. QED BY <1>1, <2>1, <2>2
<1>7. \A i \in DOMAIN bundles : HasManifest(bundles[i]) =>
         \E n \in 1..Len(Present) : Present[n] = bundles[i]
  BY <1>1, <1>2, <1>5
<1>8. Len(Present) \in Nat /\ (Present = <<>> <=> Len(Present) = 0)
  BY <1>5
<1>. QED BY <1>5, <1>6, <1>7, <1>8

(* What follows from what does not change. *)
LEMMA SameInputs ==
    ASSUME UNCHANGED <<bundles, shipping>>
    PROVE  /\ Present' = Present /\ SameTrees' = SameTrees
           /\ (UnfitBundles \/ UnfitJars \/ UnmetManifest)' =
                 (UnfitBundles \/ UnfitJars \/ UnmetManifest)
BY DEF Present, SameTrees, UnfitBundles, UnfitJars, UnmetManifest, InLib, HasManifest, DisagreeOn

(* The type invariant, of which only what a step assigns matters. *)
LEMMA AssetsTypes ==
    ASSUME AssetsTypeOK, UNCHANGED <<bundles, shipping>>,
           stage' \in {"compare", "merge", "package", "lookup", "passed", "refused"},
           seen' \in 0..(Len(bundles) + Len(shipping.jars) + 1),
           packaged' = packaged \/ \E i \in DOMAIN shipping.jars :
              /\ OfItsAbi(JarAt(i))
              /\ packaged' = packaged \cup {<<JarAt(i).abi, JarAt(i).kind, lib[2]>> : lib \in JarAt(i).libs},
           checked' \subseteq shipping.abis
    PROVE  AssetsTypeOK'
<1>1. ASSUME NEW p \in packaged'
      PROVE  /\ p[1] \in shipping.abis
             /\ \E i \in DOMAIN shipping.jars :
                  /\ p[1] = shipping.jars[i].abi /\ p[2] = shipping.jars[i].kind
                  /\ \E lib \in shipping.jars[i].libs : lib[2] = p[3]
  <2>1. CASE p \in packaged
    BY <2>1 DEF AssetsTypeOK
  <2>2. CASE p \notin packaged
    <3>1. PICK i \in DOMAIN shipping.jars : OfItsAbi(JarAt(i)) /\
             \E lib \in JarAt(i).libs : p = <<JarAt(i).abi, JarAt(i).kind, lib[2]>>
      BY <2>2
    <3>2. PICK lib \in JarAt(i).libs : p = <<JarAt(i).abi, JarAt(i).kind, lib[2]>>
      BY <3>1
    <3>3. p[1] = JarAt(i).abi /\ p[2] = JarAt(i).kind /\ p[3] = lib[2]
      BY <3>2
    <3>4. JarAt(i).abi \in shipping.abis
      BY <3>1 DEF OfItsAbi
    <3>. QED BY <3>3, <3>4 DEF JarAt
  <2>. QED BY <2>1, <2>2
<1>. QED BY <1>1 DEF AssetsTypeOK

(* A step that refuses has a cause. *)
LEMMA RefusalOK ==
    ASSUME AssetsInv, Becomes("refused"), UNCHANGED <<bundles, shipping, packaged, checked>>,
           UnfitBundles \/ UnfitJars \/ UnmetManifest
    PROVE  AssetsInv'
<1>1. stage' = "refused" /\ seen' = 0
  BY DEF Becomes
<1>2. AssetsTypeOK'
  BY <1>1, AssetsTypes, BundlesAre DEF AssetsInv, AssetsTypeOK
<1>. QED BY <1>1, <1>2, SameInputs DEF AssetsInv, RefusedForCause

LEMMA AssetsStarts == AssetsInit => AssetsInv
<1> SUFFICES ASSUME NEW list \in BundleLists, NEW ship \in JarLists, AssetsStart(list, ship)
             PROVE  AssetsInv
  BY DEF AssetsInit
<1>1. /\ bundles = list /\ shipping = ship /\ stage = "compare" /\ seen = 1 /\ differing = {}
      /\ format = Absent /\ assets = NoAssets /\ packaged = {} /\ checked = {}
      /\ list # <<>> => manifest = list[1].manifest
  BY DEF AssetsStart
<1>2. Len(list) \in Nat /\ Len(ship.jars) \in Nat /\ DOMAIN list = 1..Len(list)
  BY AssetsAssumption, ListSet
<1>3. AssetsTypeOK
  BY <1>1, <1>2 DEF AssetsTypeOK
<1>4. Compared(1)
  BY <1>1, <1>2 DEF Compared
<1>5. Comparing
  BY <1>1, <1>4 DEF Comparing, FreshCheck
<1>. QED BY <1>1, <1>3, <1>5 DEF AssetsInv, RefusedForCause

-----------------------------------------------------------------------------
(* merge_native_assets.py. *)
LEMMA CompareBundleOK == ASSUME AssetsInv, CompareBundle PROVE AssetsInv'
<1>1. /\ stage = "compare" /\ stage' = "compare" /\ seen < Len(bundles) /\ seen' = seen + 1
      /\ differing' = differing \cup Differences(bundles[1].tree, bundles[seen'].tree)
      /\ UNCHANGED <<bundles, shipping, format, assets, manifest, packaged, checked>>
  BY DEF CompareBundle
<1>2. Comparing /\ AssetsTypeOK
  BY <1>1 DEF AssetsInv
<1>3. seen >= 1 /\ seen \in Nat /\ seen' >= 1 /\ seen' \in DOMAIN bundles
  BY <1>1, <1>2, BundlesAre DEF Comparing, AssetsTypeOK
<1>4. AssetsTypeOK'
  BY <1>1, <1>2, <1>3, AssetsTypes, BundlesAre DEF AssetsTypeOK
<1>5. Differences(bundles[1].tree, bundles[seen'].tree) = {} <=> bundles[seen'].tree = bundles[1].tree
  <2>. DEFINE s == bundles[1].tree
              t == bundles[seen'].tree
  <2>1. IsAMap(s) /\ IsAMap(t)
    BY <1>2, <1>3, BundlesAre
  <2>. HIDE DEF s, t
  <2>2. Differences(s, t) = {} => s = t
    BY <2>1 DEF Differences, OnlyIn, Changed, IsAMap
  <2>3. s = t => Differences(s, t) = {}
    BY DEF Differences, OnlyIn, Changed
  <2>. QED BY <2>2, <2>3 DEF s, t
<1>6. Compared(seen)'
  <2>1. ASSUME differing' = {}, NEW k \in DOMAIN bundles, k <= seen'
        PROVE  bundles[k].tree = bundles[1].tree
    <3>1. k <= seen \/ k = seen'
      BY <1>1, <1>2, <1>3, <2>1, BundlesAre
    <3>. QED BY <1>1, <1>2, <1>5, <2>1, <3>1 DEF Comparing, Compared
  <2>2. ASSUME differing' # {}
        PROVE  \E k \in DOMAIN bundles : bundles[k].tree # bundles[1].tree
    BY <1>1, <1>2, <1>3, <1>5, <2>2 DEF Comparing, Compared
  <2>. QED BY <1>1, <2>1, <2>2 DEF Compared
<1>7. Comparing'
  BY <1>1, <1>2, <1>3, <1>6 DEF Comparing, FreshCheck
<1>. QED BY <1>1, <1>4, <1>7 DEF AssetsInv, RefusedForCause

LEMMA BundlesDifferOK == ASSUME AssetsInv, BundlesDiffer PROVE AssetsInv'
<1>1. /\ stage = "compare" /\ Becomes("refused") /\ (bundles = <<>> \/ differing # {})
      /\ UNCHANGED <<bundles, shipping, packaged, checked>>
  BY DEF BundlesDiffer
<1>2. UnfitBundles
  <2>1. CASE bundles = <<>>
    BY <2>1 DEF UnfitBundles
  <2>2. CASE bundles # <<>>
    <3>1. PICK k \in DOMAIN bundles : bundles[k].tree # bundles[1].tree
      BY <1>1, <2>2 DEF AssetsInv, Comparing, Compared
    <3>2. 1 \in DOMAIN bundles
      BY <2>2, BundlesAre DEF AssetsInv
    <3>. QED BY <3>1, <3>2 DEF UnfitBundles
  <2>. QED BY <2>1, <2>2
<1>. QED BY <1>1, <1>2, RefusalOK

LEMMA BundlesAgreeOK == ASSUME AssetsInv, BundlesAgree PROVE AssetsInv'
<1>1. /\ stage = "compare" /\ stage' = "merge" /\ seen' = 0 /\ bundles # <<>>
      /\ seen >= Len(bundles) /\ differing = {}
      /\ UNCHANGED <<bundles, shipping, differing, format, assets, manifest, packaged, checked>>
  BY DEF BundlesAgree, Becomes
<1>2. Comparing /\ AssetsTypeOK
  BY <1>1 DEF AssetsInv
<1>3. AssetsTypeOK'
  BY <1>1, <1>2, AssetsTypes, BundlesAre DEF AssetsTypeOK
<1>4. SameTrees
  <2>1. \A k \in DOMAIN bundles : k <= seen
    BY <1>1, <1>2, BundlesAre DEF AssetsTypeOK
  <2>2. \A k \in DOMAIN bundles : bundles[k].tree = bundles[1].tree
    BY <1>1, <1>2, <2>1 DEF Comparing, Compared
  <2>. QED BY <2>2 DEF SameTrees
<1>5. MergedUpTo(0)'
  <2>1. format' = Absent /\ assets' = NoAssets /\ 1..0 = {}
    BY <1>1, <1>2 DEF Comparing
  <2>2. DOMAIN NoAssets = {} /\ IsAMap(NoAssets)
    BY DEF NoAssets, IsAMap
  <2>. QED BY <2>1, <2>2 DEF MergedUpTo
<1>6. Merging'
  BY <1>1, <1>2, <1>4, <1>5, SameInputs, PresentAre DEF Comparing, Merging, FreshCheck
<1>. QED BY <1>1, <1>3, <1>6 DEF AssetsInv, RefusedForCause

LEMMA MergeManifestOK == ASSUME AssetsInv, MergeManifest PROVE AssetsInv'
<1>1. /\ stage = "merge" /\ stage' = "merge" /\ seen < Len(Present) /\ Fits(NextManifest)
      /\ format' = NextManifest.format /\ assets' = With(assets, NextManifest.assets)
      /\ seen' = seen + 1
      /\ UNCHANGED <<bundles, shipping, manifest, packaged, checked>>
  BY DEF MergeManifest
<1>2. Merging /\ AssetsTypeOK
  BY <1>1 DEF AssetsInv
<1>3. seen \in Nat /\ seen' \in 1..Len(Present) /\ Len(Present) \in Nat
  BY <1>1, <1>2, PresentAre DEF Merging
<1>4. AssetsTypeOK'
  BY <1>1, <1>2, <1>3, AssetsTypes, PresentAre, BundlesAre, SMTT(30) DEF AssetsTypeOK
<1>. DEFINE m == NextManifest
<1>5. m = Present[seen'].manifest /\ Present' = Present
  BY <1>1, SameInputs DEF NextManifest
<1>6. /\ format = Absent \/ m.format = format
      /\ \A a \in DOMAIN m.assets \cap DOMAIN assets : m.assets[a] = assets[a]
      /\ format' = m.format /\ DOMAIN assets' = DOMAIN assets \cup DOMAIN m.assets
      /\ \A a \in DOMAIN assets : assets'[a] = assets[a]
      /\ \A a \in DOMAIN m.assets : assets'[a] = m.assets[a]
      /\ IsAMap(assets')
  BY <1>1 DEF Fits, With, IsAMap
<1>. HIDE DEF m
<1>7. \A k \in 1..seen' : k \in 1..seen \/ k = seen'
  BY <1>1, <1>3
<1>8. \A k \in 1..seen : k \in 1..seen'
  BY <1>1, <1>3
<1>9. MergedUpTo(seen)
  BY <1>2 DEF Merging
<1>10. MergedUpTo(seen)'
  <2>1. ASSUME NEW k \in 1..seen'
        PROVE  /\ Present[k].manifest.format # Absent => format' = Present[k].manifest.format
               /\ \A a \in DOMAIN Present[k].manifest.assets :
                     a \in DOMAIN assets' /\ assets'[a] = Present[k].manifest.assets[a]
    <3>1. CASE k = seen'
      BY <1>5, <1>6, <3>1
    <3>2. CASE k \in 1..seen
      BY <1>6, <1>9, <3>2 DEF MergedUpTo
    <3>. QED BY <1>7, <3>1, <3>2
  <2>2. ASSUME NEW a \in DOMAIN assets'
        PROVE  \E k \in 1..seen' : /\ a \in DOMAIN Present[k].manifest.assets
                                   /\ assets'[a] = Present[k].manifest.assets[a]
    <3>1. CASE a \in DOMAIN m.assets
      BY <1>3, <1>5, <1>6, <3>1
    <3>2. CASE a \in DOMAIN assets
      BY <1>6, <1>8, <1>9, <3>2 DEF MergedUpTo
    <3>. QED BY <1>6, <3>1, <3>2
  <2>3. format' # Absent => \E k \in 1..seen' : Present[k].manifest.format = format'
    BY <1>3, <1>5, <1>6
  <2>. QED BY <1>5, <1>6, <2>1, <2>2, <2>3 DEF MergedUpTo
<1>11. Merging'
  BY <1>1, <1>2, <1>3, <1>5, <1>10, SameInputs DEF Merging, FreshCheck
<1>. QED BY <1>1, <1>4, <1>11 DEF AssetsInv, RefusedForCause

LEMMA ManifestsDisagreeOK == ASSUME AssetsInv, ManifestsDisagree PROVE AssetsInv'
<1>1. /\ stage = "merge" /\ Becomes("refused") /\ seen < Len(Present) /\ ~Fits(NextManifest)
      /\ UNCHANGED <<bundles, shipping, packaged, checked>>
  BY DEF ManifestsDisagree
<1>2. Merging /\ AssetsTypeOK
  BY <1>1 DEF AssetsInv
<1>3. seen + 1 \in 1..Len(Present) /\ \A k \in 1..seen : k \in 1..Len(Present)
  BY <1>1, <1>2, PresentAre DEF Merging
<1>4. PICK i \in DOMAIN bundles : HasManifest(bundles[i]) /\ Present[seen + 1] = bundles[i]
  BY <1>2, <1>3, PresentAre
<1>. DEFINE m == bundles[i].manifest
<1>5. NextManifest = m
  BY <1>4 DEF NextManifest
<1>6. \E k \in 1..seen : DisagreeOn(Present[k].manifest, m)
  <2>1. CASE format # Absent /\ m.format # format
    BY <1>2, <2>1 DEF Merging, MergedUpTo, DisagreeOn
  <2>2. CASE \E a \in DOMAIN m.assets \cap DOMAIN assets : m.assets[a] # assets[a]
    <3>1. PICK a \in DOMAIN m.assets \cap DOMAIN assets : m.assets[a] # assets[a]
      BY <2>2
    <3>2. PICK k \in 1..seen : /\ a \in DOMAIN Present[k].manifest.assets
                               /\ assets[a] = Present[k].manifest.assets[a]
      BY <1>2 DEF Merging, MergedUpTo
    <3>. QED BY <3>1, <3>2 DEF DisagreeOn
  <2>. QED BY <1>1, <1>5, <2>1, <2>2 DEF Fits
<1>7. UnfitBundles
  <2>1. PICK k \in 1..seen : DisagreeOn(Present[k].manifest, m)
    BY <1>6
  <2>2. PICK j \in DOMAIN bundles : HasManifest(bundles[j]) /\ Present[k] = bundles[j]
    BY <1>2, <1>3, PresentAre
  <2>. QED BY <1>4, <2>1, <2>2 DEF UnfitBundles
<1>. QED BY <1>1, <1>7, RefusalOK

LEMMA WriteManifestOK == ASSUME AssetsInv, WriteManifest PROVE AssetsInv'
<1>1. /\ stage = "merge" /\ stage' = "package" /\ seen' = 0 /\ seen = Len(Present)
      /\ Present = <<>> => manifest' = manifest
      /\ Present # <<>> => manifest' = [format |-> format, assets |-> assets]
      /\ UNCHANGED <<bundles, shipping, packaged, checked>>
  BY DEF WriteManifest, Becomes
<1>2. Merging /\ AssetsTypeOK
  BY <1>1 DEF AssetsInv
<1>3. AssetsTypeOK'
  BY <1>1, <1>2, AssetsTypes, BundlesAre DEF AssetsTypeOK
<1>4. SaysWhatBundlesSay'
  <2>1. CASE Present = <<>>
    <3>1. \A i \in DOMAIN bundles : ~HasManifest(bundles[i])
      BY <1>2, <2>1, PresentAre
    <3>2. manifest' = Missing
      BY <1>1, <1>2, <2>1, <3>1, BundlesAre DEF Merging, HasManifest
    <3>. QED BY <1>1, <3>1, <3>2 DEF SaysWhatBundlesSay, HasManifest
  <2>2. CASE Present # <<>>
    <3>1. manifest'.format = format /\ manifest'.assets = assets /\ manifest' # Missing
      <4>1. "assets" \in DOMAIN manifest' /\ "assets" \notin DOMAIN Missing
        BY <1>1, <2>2 DEF Missing
      <4>. QED BY <1>1, <2>2, <4>1
    <3>2. MergedUpTo(Len(Present))
      BY <1>1, <1>2 DEF Merging
    <3>3. ASSUME NEW i \in DOMAIN bundles, HasManifest(bundles[i])
          PROVE  /\ bundles[i].manifest.format # Absent => format = bundles[i].manifest.format
                 /\ \A a \in DOMAIN bundles[i].manifest.assets :
                       a \in DOMAIN assets /\ assets[a] = bundles[i].manifest.assets[a]
      <4>1. PICK n \in 1..Len(Present) : Present[n] = bundles[i]
        BY <1>2, <3>3, PresentAre
      <4>. QED BY <3>2, <4>1 DEF MergedUpTo
    <3>4. ASSUME NEW a \in DOMAIN assets
          PROVE  \E i \in DOMAIN bundles :
                    /\ HasManifest(bundles[i]) /\ a \in DOMAIN bundles[i].manifest.assets
                    /\ assets[a] = bundles[i].manifest.assets[a]
      <4>1. PICK n \in 1..Len(Present) : /\ a \in DOMAIN Present[n].manifest.assets
                                         /\ assets[a] = Present[n].manifest.assets[a]
        BY <3>2 DEF MergedUpTo
      <4>2. PICK i \in DOMAIN bundles : HasManifest(bundles[i]) /\ Present[n] = bundles[i]
        BY <1>2, PresentAre
      <4>. QED BY <4>1, <4>2
    <3>5. ASSUME format # Absent
          PROVE  \E i \in DOMAIN bundles :
                    HasManifest(bundles[i]) /\ bundles[i].manifest.format = format
      <4>1. PICK n \in 1..Len(Present) : Present[n].manifest.format = format
        BY <3>2, <3>5 DEF MergedUpTo
      <4>2. PICK i \in DOMAIN bundles : HasManifest(bundles[i]) /\ Present[n] = bundles[i]
        BY <1>2, PresentAre
      <4>. QED BY <4>1, <4>2
    <3>6. IsAMap(assets)
      BY <3>2 DEF MergedUpTo
    <3>. QED BY <1>1, <3>1, <3>3, <3>4, <3>5, <3>6 DEF SaysWhatBundlesSay, HasManifest
  <2>. QED BY <2>1, <2>2
<1>5. PackagedUpTo(0)'
  <2>1. packaged' = {} /\ 1..0 = {}
    BY <1>1, <1>2 DEF Merging, FreshCheck
  <2>. QED BY <2>1 DEF PackagedUpTo
<1>6. Packaging'
  BY <1>1, <1>2, <1>4, <1>5, SameInputs, BundlesAre DEF Merging, Packaging, FreshCheck
<1>. QED BY <1>1, <1>3, <1>6 DEF AssetsInv, RefusedForCause

-----------------------------------------------------------------------------
(* check_native_assets.py. *)
LEMMA SameSaid ==
    ASSUME UNCHANGED <<bundles, manifest>>
    PROVE  SaysWhatBundlesSay' = SaysWhatBundlesSay
BY DEF SaysWhatBundlesSay, HasManifest

LEMMA SamePackaged ==
    ASSUME UNCHANGED <<shipping, packaged>>
    PROVE  /\ \A n : PackagedUpTo(n)' <=> PackagedUpTo(n)
           /\ AllRequired' = AllRequired
BY DEF PackagedUpTo, JarAt, OfItsAbi, AllRequired, Supplies

LEMMA SameSlots ==
    ASSUME UNCHANGED <<manifest, packaged>>
    PROVE  \A abi : SlotOK(abi)' <=> SlotOK(abi)
BY DEF SlotOK, HasSlot, FilesOf, Files, Supplied

LEMMA PackageJarOK == ASSUME AssetsInv, PackageJar PROVE AssetsInv'
<1>1. /\ stage = "package" /\ stage' = "package" /\ seen < Len(shipping.jars) /\ seen' = seen + 1
      /\ OfItsAbi(NextJar)
      /\ packaged' = packaged \cup {<<NextJar.abi, NextJar.kind, lib[2]>> : lib \in NextJar.libs}
      /\ UNCHANGED <<bundles, shipping, manifest, checked>>
  BY DEF PackageJar
<1>2. Packaging /\ AssetsTypeOK
  BY <1>1 DEF AssetsInv
<1>0. seen \in Nat /\ seen + 1 \in 1..Len(shipping.jars)
  BY <1>1, <1>2, BundlesAre DEF Packaging
<1>. PICK n \in 1..Len(shipping.jars) : n = seen + 1
  BY <1>0
<1>3. /\ seen \in Nat /\ n \in 1..Len(shipping.jars) /\ NextJar = JarAt(n)
      /\ n \in DOMAIN shipping.jars
  BY <1>0, <1>2, BundlesAre DEF NextJar, JarAt
<1>4. AssetsTypeOK'
  <2>1. seen' \in 0..(Len(bundles) + Len(shipping.jars) + 1)
    BY <1>1, <1>2, <1>3, BundlesAre
  <2>2. stage' \in {"compare", "merge", "package", "lookup", "passed", "refused"}
    BY <1>1
  <2>3. checked' \subseteq shipping.abis
    BY <1>1, <1>2 DEF AssetsTypeOK
  <2>4. \E i \in DOMAIN shipping.jars :
           /\ OfItsAbi(JarAt(i))
           /\ packaged' = packaged \cup {<<JarAt(i).abi, JarAt(i).kind, lib[2]>> : lib \in JarAt(i).libs}
    BY <1>1, <1>3
  <2>. QED BY <1>1, <1>2, <2>1, <2>2, <2>3, <2>4, AssetsTypes
<1>5. \A i \in 1..n : i \in 1..seen \/ i = n
  BY <1>3
<1>6. \A i \in 1..seen : i \in 1..n
  BY <1>3
<1>7. n \in 1..n
  BY <1>3
<1>. DEFINE JarSet(i) == {<<JarAt(i).abi, JarAt(i).kind, lib[2]>> : lib \in JarAt(i).libs}
<1>8. packaged' = packaged \cup JarSet(n) /\ OfItsAbi(JarAt(n))
  BY <1>1, <1>3
<1>9. PackagedUpTo(n)'
  <2>0. PackagedUpTo(seen)
    BY <1>2 DEF Packaging
  <2>1. ASSUME NEW i \in 1..n
        PROVE  /\ OfItsAbi(JarAt(i))
               /\ \A lib \in JarAt(i).libs : <<JarAt(i).abi, JarAt(i).kind, lib[2]>> \in packaged'
    <3>1. CASE i = n
      BY <1>8, <3>1
    <3>2. CASE i \in 1..seen
      BY <1>8, <2>0, <3>2 DEF PackagedUpTo
    <3>. QED BY <1>5, <3>1, <3>2
  <2>2. ASSUME NEW p \in packaged'
        PROVE  \E i \in 1..n : \E lib \in JarAt(i).libs : p = <<JarAt(i).abi, JarAt(i).kind, lib[2]>>
    <3>1. CASE p \in packaged
      BY <1>6, <2>0, <3>1, Zenon DEF PackagedUpTo
    <3>2. CASE p \in JarSet(n)
      BY <1>7, <3>2, Zenon
    <3>. QED BY <1>8, <3>1, <3>2
  <2>3. \A i : JarAt(i)' = JarAt(i) /\ OfItsAbi(JarAt(i))' = OfItsAbi(JarAt(i))
    BY <1>1 DEF JarAt, OfItsAbi
  <2>. QED BY <2>1, <2>2, <2>3 DEF PackagedUpTo
<1>10. n = seen' /\ seen' \in 0..Len(shipping.jars)
  BY <1>1, <1>3
<1>11. Packaging'
  BY <1>1, <1>2, <1>9, <1>10, SameInputs, SameSaid DEF Packaging
<1>. QED BY <1>1, <1>4, <1>11 DEF AssetsInv, RefusedForCause

LEMMA JarMisplacedOK == ASSUME AssetsInv, JarMisplaced PROVE AssetsInv'
<1>1. /\ stage = "package" /\ seen < Len(shipping.jars) /\ ~OfItsAbi(NextJar) /\ Becomes("refused")
      /\ UNCHANGED <<bundles, shipping, packaged, checked>>
  BY DEF JarMisplaced
<1>2. Packaging /\ AssetsTypeOK
  BY <1>1 DEF AssetsInv
<1>3. seen + 1 \in DOMAIN shipping.jars
  BY <1>1, <1>2, BundlesAre DEF Packaging
<1>4. UnfitJars
  BY <1>1, <1>3 DEF UnfitJars, OfItsAbi, NextJar
<1>. QED BY <1>1, <1>4, RefusalOK

LEMMA KindMissingOK == ASSUME AssetsInv, KindMissing PROVE AssetsInv'
<1>1. /\ stage = "package" /\ seen = Len(shipping.jars) /\ ~AllRequired /\ Becomes("refused")
      /\ UNCHANGED <<bundles, shipping, packaged, checked>>
  BY DEF KindMissing
<1>2. Packaging /\ AssetsTypeOK
  BY <1>1 DEF AssetsInv
<1>3. PICK abi \in shipping.abis, kind \in shipping.required : ~Supplies(abi, kind)
  BY <1>1 DEF AllRequired
<1>4. ASSUME NEW i \in DOMAIN shipping.jars, shipping.jars[i].abi = abi, shipping.jars[i].kind = kind
      PROVE  shipping.jars[i].libs = {}
  <2>. SUFFICES ASSUME NEW lib \in shipping.jars[i].libs PROVE FALSE
    OBVIOUS
  <2>1. i \in 1..seen /\ PackagedUpTo(seen)
    BY <1>1, <1>2, BundlesAre DEF Packaging
  <2>2. <<abi, kind, lib[2]>> \in packaged
    BY <1>4, <2>1 DEF PackagedUpTo, JarAt
  <2>. QED BY <1>3, <2>2 DEF Supplies
<1>5. UnfitJars
  BY <1>4 DEF UnfitJars
<1>. QED BY <1>1, <1>5, RefusalOK

(* What is packaged when all jars have been seen. *)
LEMMA JarsSeen ==
    ASSUME AssetsInv, stage = "package", seen = Len(shipping.jars), AllRequired
    PROVE  AllPackaged /\ AssetsTypeOK /\ checked = {}
BY DEF AssetsInv, Packaging, AllPackaged

LEMMA NoManifestOK == ASSUME AssetsInv, NoManifest PROVE AssetsInv'
<1>1. /\ stage = "package" /\ seen = Len(shipping.jars) /\ AllRequired /\ manifest = Missing
      /\ stage' = "passed" /\ seen' = 0
      /\ UNCHANGED <<bundles, shipping, manifest, packaged, checked>>
  BY DEF NoManifest, Becomes
<1>2. AllPackaged /\ AssetsTypeOK
  BY <1>1, JarsSeen
<1>3. AssetsTypeOK'
  BY <1>1, <1>2, AssetsTypes, BundlesAre DEF AssetsTypeOK
<1>4. AllPackaged'
  BY <1>1, <1>2, SameInputs, SameSaid, SamePackaged DEF AllPackaged
<1>. QED BY <1>1, <1>3, <1>4 DEF AssetsInv, Passing, RefusedForCause, Missing

LEMMA ReadManifestOK == ASSUME AssetsInv, ReadManifest PROVE AssetsInv'
<1>1. /\ stage = "package" /\ seen = Len(shipping.jars) /\ AllRequired /\ manifest # Missing
      /\ Becomes(IF Understood THEN "lookup" ELSE "refused")
      /\ UNCHANGED <<bundles, shipping, manifest, packaged, checked>>
  BY DEF ReadManifest
<1>2. AllPackaged /\ AssetsTypeOK /\ checked = {}
  BY <1>1, JarsSeen
<1>3. CASE Understood
  <2>1. stage' = "lookup" /\ seen' = 0
    BY <1>1, <1>3 DEF Becomes
  <2>2. AssetsTypeOK'
    BY <1>1, <1>2, <2>1, AssetsTypes, BundlesAre DEF AssetsTypeOK
  <2>3. AllPackaged'
    BY <1>1, <1>2, SameInputs, SameSaid, SamePackaged DEF AllPackaged
  <2>4. LookingUp'
    BY <1>1, <1>2, <2>3 DEF LookingUp, Missing
  <2>. QED BY <2>1, <2>2, <2>4 DEF AssetsInv, RefusedForCause
<1>4. CASE ~Understood
  <2>1. Becomes("refused")
    BY <1>1, <1>4
  <2>2. manifest.format \notin {Absent, 1} /\ SaysWhatBundlesSay
    BY <1>2, <1>4 DEF Understood, AllPackaged
  <2>3. PICK i \in DOMAIN bundles :
           HasManifest(bundles[i]) /\ bundles[i].manifest.format = manifest.format
    BY <1>1, <2>2 DEF SaysWhatBundlesSay
  <2>4. UnmetManifest
    BY <2>2, <2>3 DEF UnmetManifest
  <2>. QED BY <1>1, <2>1, <2>4, RefusalOK
<1>. QED BY <1>3, <1>4

(* A file that lies in the directory of an ABI is among what the jars supply it. *)
LEMMA SuppliedIsInLib ==
    ASSUME AssetsTypeOK, PackagedUpTo(Len(shipping.jars)), NEW abi, NEW file
    PROVE  file \in Supplied(abi) <=> InLib(abi, file)
<1>1. ASSUME file \in Supplied(abi) PROVE InLib(abi, file)
  <2>1. PICK p \in packaged : p[1] = abi /\ p[3] = file
    BY <1>1, Zenon DEF Supplied
  <2>2. PICK i \in 1..Len(shipping.jars) : \E lib \in JarAt(i).libs :
           p = <<JarAt(i).abi, JarAt(i).kind, lib[2]>>
    BY DEF PackagedUpTo
  <2>3. PICK lib \in JarAt(i).libs : p = <<JarAt(i).abi, JarAt(i).kind, lib[2]>>
    BY <2>2
  <2>4. abi = JarAt(i).abi /\ file = lib[2]
    BY <2>1, <2>3
  <2>5. lib[1] = JarAt(i).abi
    BY <2>3 DEF PackagedUpTo, OfItsAbi
  <2>6. lib = <<lib[1], lib[2]>> /\ i \in DOMAIN shipping.jars
    BY <2>3, BundlesAre DEF JarAt
  <2>7. <<abi, file>> \in shipping.jars[i].libs
    BY <2>3, <2>4, <2>5, <2>6 DEF JarAt
  <2>. QED BY <2>6, <2>7 DEF InLib
<1>2. ASSUME InLib(abi, file) PROVE file \in Supplied(abi)
  <2>1. PICK i \in DOMAIN shipping.jars : <<abi, file>> \in shipping.jars[i].libs
    BY <1>2 DEF InLib
  <2>. DEFINE lib == <<abi, file>>
  <2>2. lib[1] = abi /\ lib[2] = file
    OBVIOUS
  <2>3. i \in 1..Len(shipping.jars) /\ lib \in JarAt(i).libs
    BY <2>1, BundlesAre DEF JarAt
  <2>. HIDE DEF lib
  <2>. DEFINE p == <<JarAt(i).abi, JarAt(i).kind, lib[2]>>
  <2>4. p \in packaged /\ lib[1] = JarAt(i).abi
    BY <2>3 DEF PackagedUpTo, OfItsAbi
  <2>5. p[1] = abi /\ p[3] = file
    BY <2>2, <2>4
  <2>. HIDE DEF p
  <2>. QED BY <2>4, <2>5, Zenon DEF Supplied
<1>. QED BY <1>1, <1>2

LEMMA FilesAre ==
    ASSUME NEW abi, NEW file
    PROVE  file \in FilesOf(abi) <=>
              /\ abi \in DOMAIN manifest.assets
              /\ \E e \in manifest.assets[abi] : e[1] = "absolute" /\ e[2] = file
BY DEF FilesOf, Files

LEMMA LookUpOK == ASSUME AssetsInv, NEW abi \in shipping.abis, LookUp(abi) PROVE AssetsInv'
<1>1. /\ stage = "lookup" /\ stage' = "lookup" /\ seen' = seen /\ SlotOK(abi)
      /\ checked' = checked \cup {abi}
      /\ UNCHANGED <<bundles, shipping, manifest, packaged>>
  BY DEF LookUp, SlotOK
<1>2. LookingUp /\ AssetsTypeOK
  BY <1>1 DEF AssetsInv
<1>3. AssetsTypeOK'
  BY <1>1, <1>2, AssetsTypes DEF AssetsTypeOK
<1>4. AllPackaged'
  BY <1>1, <1>2, SameInputs, SameSaid, SamePackaged DEF AllPackaged, LookingUp
<1>5. LookingUp'
  BY <1>1, <1>2, <1>4, SameSlots DEF LookingUp, Missing
<1>. QED BY <1>1, <1>3, <1>5 DEF AssetsInv, RefusedForCause

LEMMA LookUpFailsOK == ASSUME AssetsInv, NEW abi \in shipping.abis, LookUpFails(abi) PROVE AssetsInv'
<1>1. /\ stage = "lookup" /\ ~SlotOK(abi) /\ Becomes("refused")
      /\ UNCHANGED <<bundles, shipping, packaged, checked>>
  BY DEF LookUpFails, SlotOK
<1>2. /\ SaysWhatBundlesSay /\ PackagedUpTo(Len(shipping.jars)) /\ manifest # Missing
      /\ AssetsTypeOK
  BY <1>1 DEF AssetsInv, LookingUp, AllPackaged
<1>3. UnmetManifest
  <2>1. CASE ~HasSlot(abi)
    <3>1. manifest.assets # NoAssets /\ abi \notin DOMAIN manifest.assets
      BY <2>1 DEF HasSlot
    <3>2. PICK a \in DOMAIN manifest.assets : TRUE
      <4>1. IsAMap(manifest.assets)
        BY <1>2 DEF SaysWhatBundlesSay
      <4>. QED BY <3>1, <4>1 DEF IsAMap, NoAssets
    <3>3. PICK i \in DOMAIN bundles : HasManifest(bundles[i]) /\ a \in DOMAIN bundles[i].manifest.assets
      BY <1>2 DEF SaysWhatBundlesSay
    <3>4. \A j \in DOMAIN bundles :
             HasManifest(bundles[j]) => abi \notin DOMAIN bundles[j].manifest.assets
      BY <1>2, <3>1 DEF SaysWhatBundlesSay
    <3>. QED BY <3>3, <3>4 DEF UnmetManifest
  <2>2. CASE HasSlot(abi)
    <3>1. PICK file \in FilesOf(abi) : file \notin Supplied(abi)
      BY <1>1, <2>2 DEF SlotOK
    <3>2. PICK e \in manifest.assets[abi] : e[1] = "absolute" /\ e[2] = file
      BY <3>1, FilesAre
    <3>3. ~InLib(abi, file) /\ abi \in DOMAIN manifest.assets
      BY <1>2, <3>1, FilesAre, SuppliedIsInLib
    <3>4. PICK i \in DOMAIN bundles :
             /\ HasManifest(bundles[i]) /\ abi \in DOMAIN bundles[i].manifest.assets
             /\ manifest.assets[abi] = bundles[i].manifest.assets[abi]
      BY <1>2, <3>3 DEF SaysWhatBundlesSay
    <3>5. \E x \in bundles[i].manifest.assets[abi] : x[1] = "absolute" /\ ~InLib(abi, x[2])
      BY <3>2, <3>3, <3>4
    <3>. QED BY <3>4, <3>5 DEF UnmetManifest
  <2>. QED BY <2>1, <2>2
<1>. QED BY <1>1, <1>3, RefusalOK

LEMMA AllLookedUpOK == ASSUME AssetsInv, AllLookedUp PROVE AssetsInv'
<1>1. /\ stage = "lookup" /\ checked = shipping.abis /\ stage' = "passed" /\ seen' = 0
      /\ UNCHANGED <<bundles, shipping, manifest, packaged, checked>>
  BY DEF AllLookedUp, Becomes
<1>2. LookingUp /\ AssetsTypeOK
  BY <1>1 DEF AssetsInv
<1>3. AssetsTypeOK'
  BY <1>1, <1>2, AssetsTypes, BundlesAre DEF AssetsTypeOK
<1>4. AllPackaged'
  BY <1>1, <1>2, SameInputs, SameSaid, SamePackaged DEF AllPackaged, LookingUp
<1>5. Passing'
  BY <1>1, <1>2, <1>4, SameSlots DEF LookingUp, Passing
<1>. QED BY <1>1, <1>3, <1>5 DEF AssetsInv, RefusedForCause

LEMMA AssetsStutter == ASSUME AssetsInv, UNCHANGED assetsVars PROVE AssetsInv'
<1>1. UNCHANGED <<bundles, shipping, stage, seen, differing, format, assets, manifest, packaged, checked>>
  BY DEF assetsVars
<1>2. AssetsTypeOK'
  BY <1>1 DEF AssetsInv, AssetsTypeOK
<1>3. /\ Comparing' = Comparing /\ Merging' = Merging
      /\ SaysWhatBundlesSay' = SaysWhatBundlesSay
  BY <1>1, SameInputs, SameSaid DEF Comparing, Compared, FreshCheck, Merging, MergedUpTo
<1>4. Packaging' = Packaging /\ LookingUp' = LookingUp /\ Passing' = Passing
  BY <1>1, <1>3, SameInputs, SamePackaged, SameSlots DEF Packaging, LookingUp, Passing, AllPackaged, Missing
<1>. QED BY <1>1, <1>2, <1>3, <1>4, SameInputs DEF AssetsInv, RefusedForCause

LEMMA AssetsStep == AssetsInv /\ [AssetsNext]_assetsVars => AssetsInv'
<1> SUFFICES ASSUME AssetsInv, [AssetsNext]_assetsVars PROVE AssetsInv'
  OBVIOUS
<1>1. CASE CompareBundle \/ BundlesDiffer \/ BundlesAgree
  BY <1>1, CompareBundleOK, BundlesDifferOK, BundlesAgreeOK
<1>2. CASE MergeManifest \/ ManifestsDisagree \/ WriteManifest
  BY <1>2, MergeManifestOK, ManifestsDisagreeOK, WriteManifestOK
<1>3. CASE PackageJar \/ JarMisplaced \/ KindMissing \/ NoManifest \/ ReadManifest
  BY <1>3, PackageJarOK, JarMisplacedOK, KindMissingOK, NoManifestOK, ReadManifestOK
<1>4. CASE \E abi \in shipping.abis : LookUp(abi) \/ LookUpFails(abi)
  BY <1>4, LookUpOK, LookUpFailsOK
<1>5. CASE AllLookedUp
  BY <1>5, AllLookedUpOK
<1>6. CASE UNCHANGED assetsVars
  BY <1>6, AssetsStutter
<1>. QED BY <1>1, <1>2, <1>3, <1>4, <1>5, <1>6 DEF AssetsNext

LEMMA PassedIsWhole == ASSUME AssetsInv PROVE NothingToOpenIsMissing
<1>. SUFFICES ASSUME stage = "passed", NEW abi \in shipping.abis
              PROVE  /\ \A i \in DOMAIN bundles :
                          HasManifest(bundles[i]) /\ bundles[i].manifest.assets # NoAssets =>
                              \E j \in DOMAIN bundles :
                                  /\ HasManifest(bundles[j])
                                  /\ abi \in DOMAIN bundles[j].manifest.assets
                                  /\ \A e \in bundles[j].manifest.assets[abi] :
                                       e[1] = "absolute" => InLib(abi, e[2])
                     /\ \A kind \in shipping.required :
                          \E i \in DOMAIN shipping.jars, lib \in UNION {shipping.jars[k].libs :
                                                           k \in DOMAIN shipping.jars} :
                              /\ shipping.jars[i].abi = abi /\ shipping.jars[i].kind = kind
                              /\ lib \in shipping.jars[i].libs /\ lib[1] = abi
  BY DEF NothingToOpenIsMissing
<1>1. /\ SaysWhatBundlesSay /\ PackagedUpTo(Len(shipping.jars)) /\ AllRequired /\ AssetsTypeOK
      /\ manifest # Missing => SlotOK(abi)
  BY DEF AssetsInv, Passing, AllPackaged
<1>2. ASSUME NEW i \in DOMAIN bundles, HasManifest(bundles[i]), bundles[i].manifest.assets # NoAssets
      PROVE  \E j \in DOMAIN bundles :
                /\ HasManifest(bundles[j]) /\ abi \in DOMAIN bundles[j].manifest.assets
                /\ \A e \in bundles[j].manifest.assets[abi] : e[1] = "absolute" => InLib(abi, e[2])
  <2>1. manifest # Missing /\ SlotOK(abi)
    BY <1>1, <1>2 DEF SaysWhatBundlesSay
  <2>2. PICK a \in DOMAIN bundles[i].manifest.assets : TRUE
    <3>1. IsAMap(bundles[i].manifest.assets)
      BY <1>1, <1>2, BundlesAre
    <3>. QED BY <1>2, <3>1 DEF IsAMap, NoAssets
  <2>3. manifest.assets # NoAssets
    <3>1. a \in DOMAIN manifest.assets
      BY <1>1, <1>2, <2>2 DEF SaysWhatBundlesSay
    <3>. QED BY <3>1 DEF NoAssets
  <2>4. abi \in DOMAIN manifest.assets /\ FilesOf(abi) \subseteq Supplied(abi)
    BY <2>1, <2>3 DEF SlotOK, HasSlot
  <2>5. PICK j \in DOMAIN bundles :
           /\ HasManifest(bundles[j]) /\ abi \in DOMAIN bundles[j].manifest.assets
           /\ manifest.assets[abi] = bundles[j].manifest.assets[abi]
    BY <1>1, <2>1, <2>4 DEF SaysWhatBundlesSay
  <2>6. ASSUME NEW e \in bundles[j].manifest.assets[abi], e[1] = "absolute"
        PROVE  InLib(abi, e[2])
    <3>1. e[2] \in FilesOf(abi)
      BY <2>4, <2>5, <2>6, FilesAre
    <3>. QED BY <1>1, <2>4, <3>1, SuppliedIsInLib
  <2>. QED BY <2>5, <2>6
<1>3. ASSUME NEW kind \in shipping.required
      PROVE  \E i \in DOMAIN shipping.jars, lib \in UNION {shipping.jars[k].libs :
                                                   k \in DOMAIN shipping.jars} :
                /\ shipping.jars[i].abi = abi /\ shipping.jars[i].kind = kind
                /\ lib \in shipping.jars[i].libs /\ lib[1] = abi
  <2>1. PICK p \in packaged : p[1] = abi /\ p[2] = kind
    BY <1>1 DEF AllRequired, Supplies
  <2>2. PICK i \in 1..Len(shipping.jars) : \E lib \in JarAt(i).libs :
           p = <<JarAt(i).abi, JarAt(i).kind, lib[2]>>
    BY <1>1 DEF PackagedUpTo
  <2>3. PICK lib \in JarAt(i).libs : p = <<JarAt(i).abi, JarAt(i).kind, lib[2]>>
    BY <2>2
  <2>4. lib[1] = abi /\ JarAt(i).abi = abi /\ JarAt(i).kind = kind
    BY <1>1, <2>1, <2>3 DEF PackagedUpTo, OfItsAbi
  <2>5. i \in DOMAIN shipping.jars /\ lib \in shipping.jars[i].libs
    BY <1>1, <2>3, BundlesAre DEF JarAt
  <2>6. lib \in UNION {shipping.jars[k].libs : k \in DOMAIN shipping.jars}
    BY <2>5
  <2>. QED BY <2>4, <2>5, <2>6 DEF JarAt
<1>. QED BY <1>2, <1>3

(* merge_native_assets.py and check_native_assets.py: for every list of bundles and jars,
   what is merged is every bundle's, nothing that an APK opens on an ABI is missing from
   that ABI's libraries, and what is refused has a cause. *)
THEOREM AssetsSafeCorrect == AssetsSpec => []AssetsSafe
<1>1. AssetsInv => AssetsSafe
  <2>. SUFFICES ASSUME AssetsInv PROVE AssetsSafe
    OBVIOUS
  <2>1. Merged => SameTrees /\ SaysWhatBundlesSay
    BY DEF AssetsInv, Merged, Packaging, LookingUp, Passing, AllPackaged
  <2>2. OneTree /\ EachKeepsItsOwn /\ OneFormat
    BY <2>1 DEF OneTree, EachKeepsItsOwn, OneFormat, SameTrees, SaysWhatBundlesSay
  <2>. QED BY <2>2, PassedIsWhole DEF AssetsSafe, AssetsInv
<1>. QED BY <1>1, AssetsStarts, AssetsStep, PTL DEF AssetsSpec

-----------------------------------------------------------------------------
(* PubspecFacts                                                               *)

\* A text whose version line is the one that the facts are of.
Says(text, f) ==
    \E i \in DOMAIN text :
        /\ text[i].indent = 0 /\ text[i].key = "version"
        /\ f.versionName = text[i].value[1].name
        /\ f.versionCode = VersionCode(text[i].value[1])

ValuesOf(m, name) == {a[3] : a \in {b \in m.attributes : b[1] = m.prefix /\ b[2] = name}}
Others(m) == {a \in m.attributes : ~(a[1] = m.prefix /\ a[2] \in VersionNames)}

Writes(m, vname, vcode, from) ==
    /\ m.prefix = from.prefix
    /\ ValuesOf(m, "versionName") = {vname} /\ ValuesOf(m, "versionCode") = {vcode}
    /\ Others(m) = from.attributes

\* InFlutterBlock, of any text.
HeadsAbove(text, i) == {j \in 1..(i - 1) : text[j].key # "" /\ text[j].indent = 0}
InBlockOf(text, i) ==
    /\ text[i].key # "" /\ text[i].indent > 0
    /\ \E j \in HeadsAbove(text, i) :
          /\ \A k \in HeadsAbove(text, i) : k <= j
          /\ text[j].key = "flutter" /\ text[j].value = <<>>
Bundles(text) == \A i \in DOMAIN text : InBlockOf(text, i) => text[i].key \notin Unsupported

FactsInv ==
    /\ lines \in Pubspecs /\ androidManifest \in Manifests
    /\ facts # NoFacts => Says(readFrom, facts)
    /\ bundleable => Bundles(checkedFrom)
    /\ injected # NotInjected =>
          \E vname, vcode, from :
              injectedFrom = <<vname, vcode, from>> /\ Writes(injected, vname, vcode, from)

LEMMA TopLevelIs ==
    ASSUME lines \in Pubspecs, NEW key, Scalars(key) # {}
    PROVE  \E i \in DOMAIN lines : /\ lines[i].indent = 0 /\ lines[i].key = key
                                   /\ TopLevel(key) = lines[i].value[1]
<1>1. Scalars(key) \subseteq DOMAIN lines /\ DOMAIN lines \subseteq Nat
  BY FactsAssumption DEF Scalars
<1>2. \E i \in Scalars(key) : \A j \in Scalars(key) : i <= j
  <2>. DEFINE T == Scalars(key)
  <2>1. T \subseteq Nat /\ T # {}
    BY <1>1
  <2>. HIDE DEF T
  <2>2. \E i \in T : \A j \in T : i <= j
    BY <2>1, LeastNumber
  <2>. QED BY <2>2 DEF T
<1>. DEFINE n == CHOOSE i \in Scalars(key) : \A j \in Scalars(key) : i <= j
<1>3. n \in Scalars(key)
  BY <1>2, Zenon
<1>4. TopLevel(key) = lines[n].value[1]
  BY DEF TopLevel
<1>. HIDE DEF n
<1>. QED BY <1>1, <1>3, <1>4 DEF Scalars

LEMMA ReadPubspecOK == ASSUME FactsInv, ReadPubspec PROVE FactsInv'
<1>1. ASSUME facts' # NoFacts PROVE Says(lines, facts')
  <2>1. Readable /\ facts' = [name        |-> TopLevel("name"),
                              versionName |-> TopLevel("version").name,
                              versionCode |-> VersionCode(TopLevel("version"))]
    BY <1>1 DEF ReadPubspec
  <2>2. PICK i \in DOMAIN lines : /\ lines[i].indent = 0 /\ lines[i].key = "version"
                                  /\ TopLevel("version") = lines[i].value[1]
    BY <2>1, TopLevelIs DEF Readable, FactsInv
  <2>3. /\ facts'.versionName = lines[i].value[1].name
        /\ facts'.versionCode = VersionCode(lines[i].value[1])
    BY <2>1, <2>2
  <2>. QED BY <2>2, <2>3 DEF Says
<1>2. readFrom' = lines /\ UNCHANGED <<lines, androidManifest, checkedFrom, bundleable,
                                       injectedFrom, injected>>
  BY DEF ReadPubspec, sources
<1>. QED BY <1>1, <1>2 DEF FactsInv

LEMMA CheckBundlePubspecOK == ASSUME FactsInv, CheckBundlePubspec PROVE FactsInv'
<1>1. ASSUME bundleable' PROVE Bundles(lines)
  <2>. SUFFICES ASSUME NEW i \in DOMAIN lines, InBlockOf(lines, i)
                PROVE  lines[i].key \notin Unsupported
    BY DEF Bundles
  <2>1. ColumnZeroAbove(i) = HeadsAbove(lines, i)
    BY DEF ColumnZeroAbove, HeadsAbove, HasKey
  <2>2. InFlutterBlock(i)
    BY <2>1 DEF InFlutterBlock, InBlockOf, HasKey
  <2>. QED BY <1>1, <2>2 DEF CheckBundlePubspec
<1>2. checkedFrom' = lines /\ UNCHANGED <<lines, androidManifest, readFrom, facts,
                                          injectedFrom, injected>>
  BY DEF CheckBundlePubspec, sources
<1>. QED BY <1>1, <1>2 DEF FactsInv

LEMMA InjectedWrites ==
    ASSUME NEW vname, NEW vcode, NEW from, Injectable(from),
           from = [tag |-> from.tag, prefix |-> from.prefix, attributes |-> from.attributes]
    PROVE  Writes([from EXCEPT !.attributes = @ \cup
                       {<<from.prefix, "versionCode", vcode>>,
                        <<from.prefix, "versionName", vname>>}], vname, vcode, from)
<1>. DEFINE c == <<from.prefix, "versionCode", vcode>>
            n == <<from.prefix, "versionName", vname>>
            m == [from EXCEPT !.attributes = @ \cup {c, n}]
<1>1. m.prefix = from.prefix /\ m.attributes = from.attributes \cup {c, n}
  OBVIOUS
<1>2. \A name \in VersionNames, b \in from.attributes : ~(b[1] = from.prefix /\ b[2] = name)
  BY DEF Injectable, Declares
<1>3. /\ c[1] = from.prefix /\ c[2] = "versionCode" /\ c[3] = vcode
      /\ n[1] = from.prefix /\ n[2] = "versionName" /\ n[3] = vname
  OBVIOUS
<1>. HIDE DEF c, n, m
<1>4. {b \in m.attributes : b[1] = m.prefix /\ b[2] = "versionName"} = {n}
  BY <1>1, <1>2, <1>3 DEF VersionNames
<1>5. {b \in m.attributes : b[1] = m.prefix /\ b[2] = "versionCode"} = {c}
  BY <1>1, <1>2, <1>3 DEF VersionNames
<1>6. ValuesOf(m, "versionName") = {vname} /\ ValuesOf(m, "versionCode") = {vcode}
  BY <1>3, <1>4, <1>5 DEF ValuesOf
<1>7. Others(m) = from.attributes
  BY <1>1, <1>2, <1>3 DEF Others, VersionNames
<1>8. Writes(m, vname, vcode, from)
  BY <1>1, <1>6, <1>7 DEF Writes
<1>. QED BY <1>8 DEF m, c, n

LEMMA InjectVersionOK == ASSUME FactsInv, InjectVersion PROVE FactsInv'
<1>1. /\ injectedFrom' = <<facts.versionName, facts.versionCode, androidManifest>>
      /\ UNCHANGED <<lines, androidManifest, readFrom, facts, checkedFrom, bundleable>>
  BY DEF InjectVersion, sources
<1>2. ASSUME injected' # NotInjected
      PROVE  Writes(injected', facts.versionName, facts.versionCode, androidManifest)
  <2>1. /\ Injectable(androidManifest)
        /\ injected' = [androidManifest EXCEPT !.attributes = @ \cup
                            {<<androidManifest.prefix, "versionCode", facts.versionCode>>,
                             <<androidManifest.prefix, "versionName", facts.versionName>>}]
    BY <1>2 DEF InjectVersion
  <2>2. androidManifest = [tag |-> androidManifest.tag, prefix |-> androidManifest.prefix,
                           attributes |-> androidManifest.attributes]
    BY FactsAssumption DEF FactsInv
  <2>. QED BY <2>1, <2>2, InjectedWrites
<1>. QED BY <1>1, <1>2 DEF FactsInv

LEMMA FactsStep == FactsInv /\ [FactsNext]_factsVars => FactsInv'
<1>. SUFFICES ASSUME FactsInv, [FactsNext]_factsVars PROVE FactsInv'
  OBVIOUS
<1>1. CASE EditSources
  BY <1>1 DEF EditSources, FactsInv
<1>2. CASE UNCHANGED factsVars
  BY <1>2 DEF factsVars, sources, FactsInv
<1>. QED BY <1>1, <1>2, ReadPubspecOK, CheckBundlePubspecOK, InjectVersionOK DEF FactsNext

LEMMA BuiltSays == ASSUME FactsInv PROVE ManifestSaysTheVersion
<1>. SUFFICES ASSUME Built
              PROVE  /\ \E i \in DOMAIN lines :
                            /\ lines[i].indent = 0 /\ lines[i].key = "version"
                            /\ \A name \in VersionNames :
                                  ValuesOf(injected, name)
                                  = {IF name = "versionName" THEN lines[i].value[1].name
                                     ELSE VersionCode(lines[i].value[1])}
                     /\ Others(injected) = androidManifest.attributes
  BY DEF ManifestSaysTheVersion, ValuesOf, Others
<1>1. Writes(injected, facts.versionName, facts.versionCode, androidManifest)
  <2>1. PICK vname, vcode, from :
           injectedFrom = <<vname, vcode, from>> /\ Writes(injected, vname, vcode, from)
    BY DEF FactsInv, Built
  <2>2. vname = facts.versionName /\ vcode = facts.versionCode /\ from = androidManifest
    BY <2>1 DEF Built
  <2>. QED BY <2>1, <2>2
<1>2. Says(lines, facts)
  BY DEF FactsInv, Built
<1>3. PICK i \in DOMAIN lines :
        /\ lines[i].indent = 0 /\ lines[i].key = "version"
        /\ facts.versionName = lines[i].value[1].name
        /\ facts.versionCode = VersionCode(lines[i].value[1])
  BY <1>2 DEF Says
<1>4. \A name \in VersionNames : ValuesOf(injected, name)
        = {IF name = "versionName" THEN lines[i].value[1].name
           ELSE VersionCode(lines[i].value[1])}
  BY <1>1, <1>3 DEF Writes, VersionNames
<1>. QED BY <1>1, <1>3, <1>4 DEF Writes

(* What a line of a text lies under, at column zero, is the last line there above it: a
   line that stands between them has to be indented more. *)
LEMMA UnderIsInBlock ==
    ASSUME lines \in Pubspecs, NEW i \in DOMAIN lines, HasKey(i), Under(i, "flutter")
    PROVE  InBlockOf(lines, i)
<1>. DEFINE S == {k \in 1..(i - 1) : /\ HasKey(k) /\ lines[i].indent > 0
                                     /\ \A m \in HeadsAbove(lines, i) : m <= k}
<1>1. /\ Len(lines) \in Nat /\ DOMAIN lines = 1..Len(lines) /\ i \in 1..Len(lines)
      /\ \A k \in DOMAIN lines : lines[k].indent \in Nat
  BY FactsAssumption
<1>2. ASSUME NEW j \in DOMAIN lines, Above(i, j) PROVE j \in S
  <2>1. j \in 1..(i - 1) /\ HasKey(j) /\ lines[i].indent > 0
    BY <1>1, <1>2 DEF Above
  <2>2. ASSUME NEW m \in HeadsAbove(lines, i), ~(m <= j) PROVE FALSE
    <3>1. m \in 1..(i - 1) /\ HasKey(m) /\ lines[m].indent = 0
      BY DEF HeadsAbove, HasKey
    <3>2. m \in (j + 1)..(i - 1)
      BY <1>1, <2>1, <2>2, <3>1
    <3>. QED BY <1>1, <1>2, <2>1, <3>1, <3>2 DEF Above
  <2>. QED BY <2>1, <2>2
<1>3. ASSUME NEW j \in DOMAIN lines, NEW k \in S, Above(k, j) PROVE j \in S
  <2>1. k \in 1..(i - 1) /\ k \in DOMAIN lines /\ lines[i].indent > 0
    BY <1>1
  <2>2. j \in 1..(i - 1) /\ HasKey(j) /\ lines[k].indent > 0 /\ j < k
    BY <1>1, <1>3, <2>1 DEF Above
  <2>3. ASSUME NEW m \in HeadsAbove(lines, i), ~(m <= j) PROVE FALSE
    <3>1. m \in 1..(i - 1) /\ HasKey(m) /\ lines[m].indent = 0 /\ m <= k
      BY <2>3 DEF HeadsAbove, HasKey
    <3>2. m # k
      BY <2>2, <3>1
    <3>3. m \in (j + 1)..(k - 1)
      BY <1>1, <2>1, <2>2, <2>3, <3>1, <3>2
    <3>. QED BY <1>1, <1>3, <2>2, <3>1, <3>3 DEF Above
  <2>. QED BY <2>1, <2>2, <2>3
<1>4. S \in SUBSET DOMAIN lines
  BY <1>1
<1>5. \A k \in S : /\ HasKey(k) /\ lines[i].indent > 0 /\ k \in 1..(i - 1)
                   /\ \A m \in HeadsAbove(lines, i) : m <= k
  OBVIOUS
<1>. HIDE DEF S
<1>6. Holds(S, i)
  BY <1>2, <1>3 DEF Holds
<1>7. PICK j \in S : lines[j].indent = 0 /\ lines[j].key = "flutter" /\ lines[j].value = <<>>
  BY <1>4, <1>6 DEF Under
<1>8. j \in HeadsAbove(lines, i)
  BY <1>5, <1>7 DEF HeadsAbove
<1>. QED BY <1>5, <1>7, <1>8 DEF InBlockOf, HasKey

(* read_pubspec.py, check_bundle_pubspec.py, inject_version.py: for every pubspec and
   manifest and in whatever order they are edited and the three scripts run, a manifest
   that is up to date says the version of the pubspec once, and a bundle is made of no
   pubspec with a refused key below `flutter:`. *)
THEOREM FactsHoldCorrect == FactsSpec => []FactsHold
<1>1. FactsInit => FactsInv
  BY DEF FactsInit, FactsStart, FactsInv
<1>2. FactsInv => FactsHold
  <2>. SUFFICES ASSUME FactsInv PROVE FactsHold
    OBVIOUS
  <2>1. RefusesWhatItCannotBundle
    BY UnderIsInBlock DEF RefusesWhatItCannotBundle, FactsInv, Bundles
  <2>. QED BY <2>1, BuiltSays DEF FactsHold
<1>. QED BY <1>1, <1>2, FactsStep, PTL DEF FactsSpec

-----------------------------------------------------------------------------
(* The invariant of the table of APK digests: what a recorded table holds, and what an
   invocation has of its selection at each stage.                                     *)
RowsOK(rows) == IsAList(rows) /\ \A i \in DOMAIN rows : RowOK(rows[i])

Records(rows, full) ==
    /\ RowsOK(rows)
    /\ \A i \in DOMAIN rows : rows[i].key = KeyOf(full[i]) /\ rows[i].example = full[i].example

IsRun(r) ==
    r = [at |-> r.at, record |-> r.record, only |-> r.only, build |-> r.build,
         baseline |-> r.baseline, inventory |-> r.inventory, left |-> r.left,
         rows |-> r.rows, calls |-> r.calls, named |-> r.named, found |-> r.found]

Accepted(r) ==
    /\ ValidTable(table) /\ r.only \in Names(table) \cup {Nothing}
    /\ r.record /\ r.only # Nothing => ValidBaseline(table, r.baseline) /\ RowsOK(r.baseline)

\* What a package has to declare for an example, and what an invocation has been told.
LabelsFor(e) == LabelsIn(Selected(table, e.example))

Clean(r) ==
    /\ IsAList(r.inventory)
    /\ r.at # "failed" =>
          \A i \in DOMAIN r.inventory :
              r.inventory[i] = LabelsFor(ExamplesOf(Selected(table, r.only))[i])

AllAsked(r) == Len(r.inventory) = Len(ExamplesOf(Selected(table, r.only)))

Asking(r) ==
    /\ r.left # <<>> /\ r.rows = <<>>
    /\ StillToCome(r.left, ExamplesOf(Selected(table, r.only)), Len(r.inventory))

Building(r) ==
    /\ StillToCome(r.left, Selected(table, r.only), Len(r.rows))
    /\ Records(r.rows, Selected(table, r.only))
    /\ AllAsked(r)

RunOK(r) ==
    /\ IsRun(r) /\ Clean(r)
    /\ r.at \in {"query", "build", "hash", "open"} => Accepted(r)
    /\ r.at = "query" => Asking(r)
    /\ r.at \in {"build", "hash", "open"} => Building(r)
    /\ r.at = "hash" => r.left # <<>>
    /\ r.at = "open" => r.left = <<>> /\ r.record
    /\ r.at \in {"passed", "recorded"} => AllAsked(r)

OutputsOK ==
    /\ DOMAIN outputs = {OutputOf(table[i]) : i \in DOMAIN table}
    /\ \A o \in DOMAIN outputs :
          outputs[o] # Nothing => outputs[o].mode = Last(o[3].flutter)

GoldenOK == RecordsAreWhole /\ (golden # Nothing => RowsOK(golden))

(* The check that a probe has started sees the app as long as it asks, since nobody but
   the probe takes it away, after the check or when another plant is left there.     *)
IsChild(r) ==
    /\ r.only = Demo /\ r.at \in {"query", "failed", "killed"}
    /\ IsAList(r.calls) /\ \A i \in DOMAIN r.calls : r.calls[i] = "query"
    /\ r.at = "query" => Planted \in declared[ProbedModule]

ProbeOK ==
    /\ probe = [at |-> probe.at, child |-> probe.child, original |-> probe.original]
    /\ probe.at = "idle" => probe.child = Nothing
    /\ probe.at \in {"planted", "waiting", "killed"} =>
          ProbedModule \in Modules /\ Planted \in declared[ProbedModule]
    /\ probe.at = "planted" /\ probe.child # Nothing => Planted \in probe.original
    /\ probe.at = "waiting" => probe.child # Nothing /\ Planted \notin probe.original
    /\ probe.at = "passed" => Planted \notin declared[ProbedModule]
    /\ probe.child # Nothing => probe.child \in Invocations /\ IsChild(run[probe.child])

ApkInv ==
    /\ \E c \in Checkouts : table = c.table
    /\ source \in [Modules -> Sources] /\ upsets \in Nat /\ DOMAIN declared = Modules
    /\ DOMAIN run = Invocations /\ \A p \in Invocations : RunOK(run[p])
    /\ OutputsOK /\ GoldenOK /\ ProbeOK

(* One row of each example and module is taken. *)
LEMMA ExamplesAreRows ==
    ASSUME NEW rows, IsAList(rows)
    PROVE  LET ex == ExamplesOf(rows)
           IN  /\ IsAList(ex)
               /\ \A k \in 1..Len(ex) : \E i \in DOMAIN rows : ex[k] = rows[i]
<1>. DEFINE n == Len(rows)
            D == 1..n
            places == [i \in D |-> i]
            firsts == {i \in D : IsFirst(rows, i)}
            f == Filtered(places, firsts)
            ex == [i \in DOMAIN f |-> rows[f[i]]]
<1>1. DOMAIN rows = D /\ n \in Nat
  BY ListSet
<1>2. ExamplesOf(rows) = ex
  BY <1>1 DEF ExamplesOf
<1>3. places \in Seq(D)
  BY <1>1
<1>. HIDE DEF places, firsts, D
<1>4. f \in Seq(D)
  BY <1>3, FilteredHolds
<1>. HIDE DEF f
<1>5. DOMAIN f = 1..Len(f) /\ Len(f) \in Nat /\ \A k \in 1..Len(f) : f[k] \in D
  BY <1>4
<1>6. ex = [i \in 1..Len(f) |-> ex[i]] /\ \A k \in 1..Len(f) : ex[k] = rows[f[k]]
  BY <1>5
<1>. HIDE DEF ex
<1>7. IsAList(ex) /\ Len(ex) = Len(f)
  BY <1>5, <1>6, FunctionIsAList
<1>8. \A k \in 1..Len(ex) : \E i \in DOMAIN rows : ex[k] = rows[i]
  BY <1>1, <1>5, <1>6, <1>7
<1>. QED BY <1>2, <1>7, <1>8

(* There is an inventory to ask for, where there is a row to build. *)
LEMMA ExamplesAre ==
    ASSUME NEW rows, IsAList(rows), rows # <<>>
    PROVE  IsAList(ExamplesOf(rows)) /\ ExamplesOf(rows) # <<>>
<1>. DEFINE n == Len(rows)
            D == 1..n
            places == [i \in D |-> i]
            firsts == {i \in D : IsFirst(rows, i)}
            f == Filtered(places, firsts)
            ex == [i \in DOMAIN f |-> rows[f[i]]]
<1>1. DOMAIN rows = D /\ n \in Nat
  BY ListSet
<1>2. ExamplesOf(rows) = ex
  BY <1>1 DEF ExamplesOf
<1>3. n # 0
  <2>1. rows \in Seq(ToSet(rows))
    BY DEF IsAList
  <2>. QED BY <2>1
<1>4. 1 \in D
  BY <1>1, <1>3
<1>5. 1 \in firsts
  <2>1. 1..(1 - 1) = {}
    OBVIOUS
  <2>2. IsFirst(rows, 1)
    BY <2>1 DEF IsFirst
  <2>. QED BY <1>4, <2>2
<1>6. places \in Seq(D) /\ Len(places) = n /\ places[1] = 1
  BY <1>1, <1>4
<1>. HIDE DEF places, firsts, D
<1>7. f \in Seq(D) /\ \E k \in 1..Len(f) : f[k] = 1
  <2>1. /\ f \in Seq(D)
        /\ \A i \in 1..Len(places) : places[i] \in firsts => \E k \in 1..Len(f) : f[k] = places[i]
    BY <1>6, FilteredHolds
  <2>2. 1 \in 1..Len(places)
    BY <1>4, <1>6 DEF D
  <2>. QED BY <1>5, <1>6, <2>1, <2>2
<1>. HIDE DEF f
<1>8. DOMAIN f = 1..Len(f) /\ Len(f) \in Nat /\ 1 \in 1..Len(f)
  BY <1>7
<1>9. ex = [i \in 1..Len(f) |-> ex[i]]
  BY <1>8
<1>. HIDE DEF ex
<1>10. IsAList(ex) /\ Len(ex) = Len(f)
  BY <1>8, <1>9, FunctionIsAList
<1>11. ex # <<>>
  <2>1. Len(<<>>) = 0
    OBVIOUS
  <2>. QED BY <1>8, <1>10, <2>1
<1>. QED BY <1>2, <1>10, <1>11

-----------------------------------------------------------------------------
(* An invocation keeps what it knows when it goes on. *)
LEMMA GoesOn ==
    ASSUME ApkInv, NEW p \in Invocations, NEW r, Goes(p, r), RunOK(r), UNCHANGED table
    PROVE  /\ DOMAIN run' = Invocations /\ (\A q \in Invocations : RunOK(run[q])')
           /\ run'[p] = r /\ \A q \in Invocations : q # p => run'[q] = run[q]
<1>1. DOMAIN run = Invocations /\ \A q \in Invocations : RunOK(run[q])
  BY DEF ApkInv
<1>2. DOMAIN run' = Invocations /\ run'[p] = r /\ \A q \in Invocations : q # p => run'[q] = run[q]
  BY <1>1 DEF Goes
<1>3. \A s : RunOK(s)' <=> RunOK(s)
  BY DEF RunOK, Accepted, Asking, Building, AllAsked, Clean, LabelsFor
<1>. QED BY <1>1, <1>2, <1>3

RunFields ==
    {"at", "record", "only", "build", "baseline", "inventory", "left", "rows", "calls",
     "named", "found"}

LEMMA RunHas ==
    ASSUME NEW r, IsRun(r)
    PROVE  DOMAIN r = RunFields
BY DEF IsRun, RunFields

LEMMA IsStillRun ==
    ASSUME NEW r, IsRun(r), NEW m, m = [f \in DOMAIN r |-> m[f]]
    PROVE  IsRun(m)
<1>1. DOMAIN r = RunFields
  BY RunHas
<1>2. m = [f \in RunFields |-> m[f]]
  BY <1>1
<1>. QED BY <1>2 DEF IsRun, RunFields

(* What has ended holds nothing any more. *)
Ended(r, how) ==
    [r EXCEPT !.at = how, !.baseline = Nothing, !.left = <<>>, !.rows = <<>>,
              !.found = Nothing]

LEMMA EndsOK ==
    ASSUME NEW r, RunOK(r), r.at # "failed",
           NEW how, how \in {"failed", "passed", "killed", "recorded", "torn"},
           how \in {"passed", "recorded"} => AllAsked(r)
    PROVE  LET e == Ended(r, how)
           IN  RunOK(e) /\ e.at = how /\ e.only = r.only /\ e.calls = r.calls
<1>. DEFINE e == Ended(r, how)
<1>1. IsRun(r) /\ Clean(r)
  BY DEF RunOK
<1>2. DOMAIN r = RunFields /\ e = [f \in DOMAIN r |-> e[f]]
  BY <1>1, RunHas DEF Ended
<1>3. e.at = how /\ e.inventory = r.inventory /\ e.only = r.only /\ e.calls = r.calls
  BY <1>2 DEF RunFields, Ended
<1>. HIDE DEF e
<1>4. IsRun(e)
  BY <1>1, <1>2, IsStillRun
<1>5. Clean(e)
  BY <1>1, <1>3 DEF Clean
<1>6. e.at \in {"passed", "recorded"} => AllAsked(e)
  BY <1>3 DEF AllAsked
<1>7. RunOK(e) /\ e.at = how
  BY <1>3, <1>4, <1>5, <1>6 DEF RunOK
<1>. QED BY <1>3, <1>7 DEF e

(* An invocation begins. *)
Begun(c) ==
    [NotRun EXCEPT !.record = c.record, !.only = c.only, !.build = c.build,
                   !.baseline = IF c.record /\ c.only # Nothing THEN golden ELSE Nothing]

CommandAccepted(c) ==
    /\ c.only \in Names(table) \cup {Nothing}
    /\ c.record /\ c.only # Nothing => ValidBaseline(table, golden)
    /\ ValidTable(table)

LEMMA TableIs ==
    ASSUME ApkInv
    PROVE  /\ IsAList(table) /\ DOMAIN table = 1..Len(table) /\ Len(table) \in Nat
           /\ \A i \in DOMAIN table :
                 /\ table[i].example # Nothing /\ table[i].target # Planted
                 /\ table[i].example = Demo => table[i].module = ProbedModule
<1>1. PICK c \in Checkouts : table = c.table
  BY DEF ApkInv
<1>2. /\ IsAList(table)
      /\ \A i \in DOMAIN table :
            /\ table[i].example # Nothing /\ table[i].target # Planted
            /\ table[i].example = Demo => table[i].module = ProbedModule
  BY <1>1, ApkAssumption
<1>. QED BY <1>2, ListSet

(* There is a row to build for every command that is accepted. *)
LEMMA SomethingIsSelected ==
    ASSUME ApkInv, NEW only, only \in Names(table) \cup {Nothing}, Len(table) = RowCount
    PROVE  LET full == Selected(table, only)
           IN  IsAList(full) /\ full # <<>>
<1>. DEFINE full == Selected(table, only)
<1>1. IsAList(table) /\ DOMAIN table = 1..Len(table)
  BY TableIs
<1>2. Chosen(full, table, only)
  BY <1>1, SelectedAre
<1>3. \E i \in DOMAIN table : OfExample(table[i], only)
  <2>1. CASE only = Nothing
    <3>1. 1 \in DOMAIN table
      BY <1>1, ApkAssumption
    <3>. QED BY <2>1, <3>1 DEF OfExample
  <2>2. CASE only \in Names(table)
    BY <2>2 DEF Names, OfExample
  <2>. QED BY <2>1, <2>2
<1>. HIDE DEF full
<1>4. DOMAIN full # {} /\ IsAList(full)
  BY <1>2, <1>3, Zenon DEF Chosen
<1>5. full # <<>>
  <2>1. DOMAIN <<>> = {}
    OBVIOUS
  <2>. QED BY <1>4, <2>1
<1>. QED BY <1>4, <1>5 DEF full

LEMMA BegunOK ==
    ASSUME ApkInv, NEW c
    PROVE  LET b == Begun(c)
               q == [b EXCEPT !.at = "query", !.left = ExamplesOf(Selected(table, c.only))]
               f == [b EXCEPT !.at = "failed", !.baseline = Nothing]
           IN  /\ CommandAccepted(c) => RunOK(q) /\ q.at = "query"
               /\ RunOK(f) /\ f.at = "failed"
               /\ q.only = c.only /\ f.only = c.only /\ q.calls = <<>> /\ f.calls = <<>>
<1>. DEFINE b == Begun(c)
            q == [b EXCEPT !.at = "query", !.left = ExamplesOf(Selected(table, c.only))]
            f == [b EXCEPT !.at = "failed", !.baseline = Nothing]
<1>1. IsRun(NotRun) /\ NotRun.inventory = <<>> /\ NotRun.rows = <<>> /\ NotRun.calls = <<>>
  BY DEF IsRun, NotRun
<1>2. DOMAIN NotRun = RunFields
  BY <1>1, RunHas
<1>3. b = [x \in DOMAIN NotRun |-> b[x]]
  BY DEF Begun
<1>4. /\ b.inventory = <<>> /\ b.rows = <<>> /\ b.record = c.record /\ b.only = c.only
      /\ b.calls = <<>>
      /\ b.baseline = IF c.record /\ c.only # Nothing THEN golden ELSE Nothing
  BY <1>1, <1>2 DEF RunFields, Begun
<1>. HIDE DEF b
<1>5. IsRun(b)
  BY <1>1, <1>3, IsStillRun
<1>6. DOMAIN b = RunFields
  BY <1>5, RunHas
<1>7. q = [x \in DOMAIN b |-> q[x]] /\ f = [x \in DOMAIN b |-> f[x]]
  OBVIOUS
<1>8. /\ q.at = "query" /\ q.left = ExamplesOf(Selected(table, c.only))
      /\ q.inventory = <<>> /\ q.rows = <<>> /\ q.record = c.record /\ q.only = c.only
      /\ q.calls = <<>>
      /\ q.baseline = IF c.record /\ c.only # Nothing THEN golden ELSE Nothing
  BY <1>4, <1>6 DEF RunFields
<1>9. f.at = "failed" /\ f.inventory = <<>> /\ f.only = c.only /\ f.calls = <<>>
  BY <1>4, <1>6 DEF RunFields
<1>. HIDE DEF q, f
<1>10. IsRun(q) /\ IsRun(f)
  BY <1>5, <1>7, IsStillRun
<1>11. IsAList(<<>>) /\ DOMAIN <<>> = {} /\ Len(<<>>) = 0
  BY DEF IsAList
<1>12. Clean(q) /\ Clean(f)
  BY <1>8, <1>9, <1>11 DEF Clean
<1>13. RunOK(f)
  BY <1>9, <1>10, <1>12 DEF RunOK
<1>14. ASSUME CommandAccepted(c)
       PROVE  RunOK(q)
  <2>1. Accepted(q)
    <3>1. golden # Nothing => RowsOK(golden)
      BY DEF ApkInv, GoldenOK
    <3>2. q.record /\ q.only # Nothing => ValidBaseline(table, q.baseline) /\ RowsOK(q.baseline)
      BY <1>8, <1>14, <3>1 DEF CommandAccepted, ValidBaseline
    <3>. QED BY <1>8, <1>14, <3>2 DEF CommandAccepted, Accepted
  <2>2. LET full == Selected(table, c.only) IN IsAList(full) /\ full # <<>>
    <3>1. c.only \in Names(table) \cup {Nothing} /\ Len(table) = RowCount
      BY <1>14 DEF CommandAccepted, ValidTable
    <3>. QED BY <3>1, SomethingIsSelected
  <2>3. IsAList(ExamplesOf(Selected(table, c.only))) /\ ExamplesOf(Selected(table, c.only)) # <<>>
    BY <2>2, ExamplesAre
  <2>4. Asking(q)
    <3>1. StillToCome(q.left, q.left, 0)
      BY <1>8, <2>3, RestStarts
    <3>. QED BY <1>8, <1>11, <2>3, <3>1 DEF Asking
  <2>. QED BY <1>8, <1>10, <1>12, <2>1, <2>4 DEF RunOK
<1>. QED BY <1>8, <1>9, <1>13, <1>14 DEF q, f, b

-----------------------------------------------------------------------------
(* What the steps of an invocation leave as it is. *)
LEMMA ProbeKept ==
    ASSUME ApkInv, NEW p \in Invocations, NEW r, Goes(p, r), RunOK(r),
           probe.child = p => IsChild(r),
           UNCHANGED <<table, declared, probe>>
    PROVE  ProbeOK'
<1>1. /\ run'[p] = r /\ \A q \in Invocations : q # p => run'[q] = run[q]
      /\ Modules' = Modules
  BY GoesOn DEF Modules
<1>2. ProbeOK
  BY DEF ApkInv
<1>3. probe'.child # Nothing => probe'.child \in Invocations /\ IsChild(run[probe.child])'
  <2>1. \A s : IsChild(s)' <=> IsChild(s)
    BY DEF IsChild
  <2>2. probe.child # Nothing => probe.child \in Invocations /\ IsChild(run'[probe.child])
    BY <1>1, <1>2 DEF ProbeOK
  <2>. QED BY <2>1, <2>2
<1>. QED BY <1>1, <1>2, <1>3 DEF ProbeOK

(* The check that the probe has started is not among those that build. *)
LEMMA NotTheChild ==
    ASSUME ApkInv, NEW p \in Invocations, run[p].at \notin {"query", "failed", "killed"}
    PROVE  probe.child # p
BY ApkAssumption DEF ApkInv, ProbeOK, IsChild

LEMMA SameOutputs == ASSUME ApkInv, UNCHANGED <<table, outputs>> PROVE OutputsOK'
BY DEF ApkInv, OutputsOK

Writing == {"open", "torn"}

LEMMA SameGolden ==
    ASSUME ApkInv, UNCHANGED <<table, golden>>,
           \A q \in Invocations : run[q].at \in Writing => run'[q].at \in Writing
    PROVE  GoldenOK'
BY DEF ApkInv, GoldenOK, RecordsAreWhole, Writing

LEMMA GoldenKept ==
    ASSUME ApkInv, NEW p \in Invocations, NEW r, Goes(p, r), RunOK(r),
           run[p].at \in Writing => r.at \in Writing,
           UNCHANGED <<table, golden>>
    PROVE  GoldenOK'
<1>1. run'[p] = r /\ \A q \in Invocations : q # p => run'[q] = run[q]
  BY GoesOn
<1>. QED BY <1>1, SameGolden

LEMMA RunStep ==
    ASSUME ApkInv, NEW p \in Invocations, NEW r, Goes(p, r), RunOK(r),
           UNCHANGED <<table, source, declared>>, upsets' \in Nat,
           OutputsOK', GoldenOK', ProbeOK'
    PROVE  ApkInv'
<1>1. DOMAIN run' = Invocations /\ \A q \in Invocations : RunOK(run[q])'
  BY GoesOn
<1>2. Modules' = Modules
  BY DEF Modules
<1>. QED BY <1>1, <1>2 DEF ApkInv

LEMMA OnlyRunStep ==
    ASSUME ApkInv, NEW p \in Invocations, NEW r, Goes(p, r), RunOK(r),
           probe.child = p => IsChild(r), run[p].at \in Writing => r.at \in Writing,
           UNCHANGED <<table, golden, source, declared, outputs, probe>>, upsets' \in Nat
    PROVE  ApkInv'
BY SameOutputs, GoldenKept, ProbeKept, RunStep

LEMMA StartGoes ==
    ASSUME ApkInv, NEW p \in Invocations, NEW c, StartRun(p, c)
    PROVE  \E r : /\ Goes(p, r) /\ RunOK(r) /\ r.at \in {"query", "failed"}
                  /\ r.only = c.only /\ r.calls = <<>>
<1>. DEFINE q == [Begun(c) EXCEPT !.at = "query", !.left = ExamplesOf(Selected(table, c.only))]
            f == [Begun(c) EXCEPT !.at = "failed", !.baseline = Nothing]
<1>1. Goes(p, IF CommandAccepted(c) THEN q ELSE f)
  BY DEF StartRun, CommandAccepted, Begun
<1>2. /\ CommandAccepted(c) => RunOK(q) /\ q.at = "query"
      /\ RunOK(f) /\ f.at = "failed"
      /\ q.only = c.only /\ f.only = c.only /\ q.calls = <<>> /\ f.calls = <<>>
  BY BegunOK
<1>. HIDE DEF q, f
<1>3. CASE CommandAccepted(c)
  BY <1>1, <1>2, <1>3
<1>4. CASE ~CommandAccepted(c)
  BY <1>1, <1>2, <1>4
<1>. QED BY <1>3, <1>4

LEMMA StartRunOK ==
    ASSUME ApkInv, NEW p \in Invocations, NEW c, StartRun(p, c), UNCHANGED probe
    PROVE  ApkInv'
<1>1. PICK r : Goes(p, r) /\ RunOK(r)
  BY StartGoes
<1>2. run[p].at = "idle" /\ UNCHANGED <<table, golden, source, declared, outputs, upsets>>
  BY DEF StartRun
<1>3. upsets' \in Nat /\ probe.child # p /\ run[p].at \notin Writing
  BY <1>2, NotTheChild DEF ApkInv, Writing
<1>. QED BY <1>1, <1>2, <1>3, OnlyRunStep

LEMMA CheckPlantedOK == ASSUME ApkInv, NEW p \in Invocations, CheckPlanted(p) PROVE ApkInv'
<1>. DEFINE c == [record |-> FALSE, only |-> Demo, build |-> TRUE]
<1>1. PICK r : /\ Goes(p, r) /\ RunOK(r) /\ r.at \in {"query", "failed"}
               /\ r.only = c.only /\ r.calls = <<>>
  <2>1. StartRun(p, c)
    BY DEF CheckPlanted
  <2>. HIDE DEF c
  <2>. QED BY <2>1, StartGoes
<1>2. UNCHANGED <<table, golden, source, declared, outputs, upsets>> /\ run[p].at = "idle"
  BY DEF CheckPlanted, StartRun
<1>3. upsets' \in Nat /\ Modules' = Modules /\ ProbeOK
  BY <1>2 DEF ApkInv, Modules
<1>4. /\ probe.at = "planted" /\ Planted \notin probe.original
      /\ probe' = [probe EXCEPT !.at = "waiting", !.child = p]
  BY DEF CheckPlanted
<1>5. /\ probe' = [at |-> "waiting", child |-> p, original |-> probe.original]
      /\ ProbedModule \in Modules /\ Planted \in declared[ProbedModule]
  BY <1>3, <1>4 DEF ProbeOK
<1>6. IsChild(r)
  <2>1. IsAList(<<>>) /\ DOMAIN <<>> = {}
    BY DEF IsAList
  <2>. QED BY <1>1, <1>5, <2>1 DEF IsChild
<1>7. IsChild(run[p])'
  <2>1. run'[p] = r
    BY <1>1, <1>2, GoesOn
  <2>. QED BY <1>2, <1>6, <2>1 DEF IsChild
<1>8. ProbeOK'
  BY <1>2, <1>3, <1>4, <1>5, <1>7, ApkAssumption DEF ProbeOK
<1>9. GoldenOK'
  BY <1>1, <1>2, GoldenKept DEF Writing
<1>. QED BY <1>1, <1>2, <1>3, <1>8, <1>9, SameOutputs, RunStep

(* No example that is listed lists the app that the probe plants. *)
LEMMA ListedIsClean ==
    ASSUME ApkInv, NEW e
    PROVE  Planted \notin LabelsIn(Selected(table, e))
<1>1. IsAList(table) /\ \A i \in DOMAIN table : table[i].target # Planted
  BY TableIs
<1>2. Chosen(Selected(table, e), table, e)
  BY <1>1, SelectedAre
<1>. QED BY <1>1, <1>2 DEF Chosen, LabelsIn

(* An example that is next to be asked for: where the probe's check asks, the app is. *)
LEMMA NextAsked ==
    ASSUME ApkInv, NEW p \in Invocations, run[p].at = "query"
    PROVE  LET r == run[p]
               n == Len(r.inventory)
               ex == ExamplesOf(Selected(table, r.only))
           IN  /\ Head(r.left) = ex[n + 1] /\ n \in Nat
               /\ StillToCome(Tail(r.left), ex, n + 1)
               /\ probe.child = p => Planted \in declared[Head(r.left).module]
<1>. DEFINE r == run[p]
            n == Len(r.inventory)
            full == Selected(table, r.only)
            ex == ExamplesOf(full)
            h == Head(r.left)
<1>1. Asking(r)
  BY DEF ApkInv, RunOK
<1>2. h = ex[n + 1] /\ n + 1 \in 1..Len(ex) /\ n \in Nat /\ StillToCome(Tail(r.left), ex, n + 1)
  <2>1. StillToCome(r.left, ex, n) /\ r.left # <<>>
    BY <1>1 DEF Asking
  <2>. HIDE DEF ex, n, r
  <2>. QED BY <2>1, RestGoesOn DEF h
<1>3. ASSUME probe.child = p
      PROVE  Planted \in declared[h.module]
  <2>1. r.only = Demo /\ Planted \in declared[ProbedModule]
    BY <1>3, ApkAssumption DEF ApkInv, ProbeOK, IsChild
  <2>2. IsAList(table) /\ Chosen(full, table, r.only)
    BY TableIs, SelectedAre
  <2>3. \E i \in DOMAIN full : h = full[i]
    <3>1. IsAList(full)
      BY <2>2 DEF Chosen
    <3>. HIDE DEF full
    <3>2. \A k \in 1..Len(ExamplesOf(full)) : \E i \in DOMAIN full : ExamplesOf(full)[k] = full[i]
      BY <3>1, ExamplesAreRows
    <3>. QED BY <1>2, <3>2 DEF ex
  <2>4. h.example = Demo /\ \E i \in DOMAIN table : h = table[i]
    BY <2>1, <2>2, <2>3, ApkAssumption DEF Chosen, OfExample
  <2>5. h.module = ProbedModule
    BY <2>4, TableIs
  <2>. QED BY <2>1, <2>5
<1>. QED BY <1>2, <1>3

LEMMA AppendQuery ==
    ASSUME NEW c, IsAList(c), \A i \in DOMAIN c : c[i] = "query"
    PROVE  IsAList(Append(c, "query")) /\ \A i \in DOMAIN Append(c, "query") : Append(c, "query")[i] = "query"
<1>. DEFINE d == Append(c, "query")
<1>1. /\ IsAList(d) /\ Len(d) = Len(c) + 1
      /\ \A i \in 1..Len(c) : d[i] = c[i]
      /\ d[Len(c) + 1] = "query"
      /\ DOMAIN d = 1..Len(c) + 1
      /\ DOMAIN c = 1..Len(c) /\ Len(c) \in Nat
  BY AppendIsAList
<1>. HIDE DEF d
<1>2. \A i \in DOMAIN d : i \in DOMAIN c \/ i = Len(c) + 1
  BY <1>1
<1>3. \A i \in DOMAIN d : d[i] = "query"
  BY <1>1, <1>2
<1>. QED BY <1>1, <1>3 DEF d

LEMMA AskInventoryOK ==
    ASSUME ApkInv, NEW p \in Invocations, AskInventory(p)
    PROVE  ApkInv'
<1>. DEFINE r == run[p]
            h == Head(r.left)
            d == declared[h.module]
            a == [r EXCEPT !.calls = Append(r.calls, "query"),
                           !.inventory = Append(r.inventory, d), !.left = Tail(r.left)]
            f == [a EXCEPT !.at = "failed", !.left = <<>>, !.named = Planted \in d]
            full == Selected(table, r.only)
            ex == ExamplesOf(full)
            n == Len(r.inventory)
            ok == Listed(Selected(table, h.example), d)
<1>1. /\ r.at = "query" /\ Goes(p, IF ok THEN Asked(a) ELSE f)
      /\ UNCHANGED <<table, golden, source, declared, outputs, probe, upsets>>
  BY DEF AskInventory
<1>2. RunOK(r)
  BY DEF ApkInv
<1>3. IsRun(r) /\ Clean(r) /\ Accepted(r) /\ Asking(r) /\ DOMAIN r = RunFields
  BY <1>1, <1>2, RunHas DEF RunOK
<1>4. a = [x \in DOMAIN r |-> a[x]]
  OBVIOUS
<1>5. /\ a.at = r.at /\ a.inventory = Append(r.inventory, d) /\ a.left = Tail(r.left)
      /\ a.only = r.only /\ a.record = r.record /\ a.rows = r.rows /\ a.baseline = r.baseline
      /\ a.calls = Append(r.calls, "query")
  BY <1>3 DEF RunFields
<1>. HIDE DEF a
<1>6. IsRun(a) /\ DOMAIN a = RunFields
  BY <1>3, <1>4, IsStillRun, RunHas
<1>7. /\ IsAList(a.inventory) /\ Len(a.inventory) = n + 1
      /\ \A i \in DOMAIN a.inventory : i \in DOMAIN r.inventory \/ i = n + 1
      /\ \A i \in DOMAIN r.inventory : a.inventory[i] = r.inventory[i]
      /\ a.inventory[n + 1] = d
  <2>1. /\ IsAList(a.inventory) /\ Len(a.inventory) = Len(r.inventory) + 1
        /\ \A i \in 1..Len(r.inventory) : a.inventory[i] = r.inventory[i]
        /\ a.inventory[Len(r.inventory) + 1] = d
        /\ DOMAIN a.inventory = 1..Len(r.inventory) + 1
        /\ DOMAIN r.inventory = 1..Len(r.inventory) /\ Len(r.inventory) \in Nat
    <3>. HIDE DEF d
    <3>1. IsAList(r.inventory)
      BY <1>3 DEF Clean
    <3>. QED BY <1>5, <3>1, AppendIsAList
  <2>. QED BY <2>1
<1>8. RunOK(f) /\ f.at = "failed" /\ f.only = r.only /\ f.calls = Append(r.calls, "query")
  <2>1. f = [x \in DOMAIN a |-> f[x]]
    OBVIOUS
  <2>2. f.at = "failed" /\ f.inventory = a.inventory /\ f.only = r.only /\ f.calls = a.calls
    BY <1>5, <1>6 DEF RunFields
  <2>. HIDE DEF f
  <2>3. IsRun(f)
    BY <1>6, <2>1, IsStillRun
  <2>. QED BY <1>5, <1>7, <2>2, <2>3 DEF RunOK, Clean
<1>9. /\ h = ex[n + 1] /\ n \in Nat /\ StillToCome(Tail(r.left), ex, n + 1)
      /\ probe.child = p => Planted \in d
  BY <1>1, NextAsked
<1>10. ASSUME ok
       PROVE  RunOK(Asked(a)) /\ Planted \notin d
  <2>1. Planted \notin d
    BY <1>10, ListedIsClean DEF Listed
  <2>2. \A i \in DOMAIN a.inventory : a.inventory[i] = LabelsFor(ex[i])
    <3>1. d = LabelsFor(ex[n + 1])
      BY <1>9, <1>10 DEF Listed, LabelsFor
    <3>2. \A i \in DOMAIN r.inventory : r.inventory[i] = LabelsFor(ex[i])
      BY <1>1, <1>3 DEF Clean
    <3>. HIDE DEF d, ex, n
    <3>. QED BY <1>7, <3>1, <3>2
  <2>3. r.rows = <<>>
    BY <1>3 DEF Asking
  <2>4. CASE a.left # <<>>
    <3>1. Asked(a) = a
      BY <2>4 DEF Asked
    <3>2. Asking(a)
      BY <1>5, <1>7, <1>9, <2>3, <2>4 DEF Asking
    <3>3. Accepted(a) /\ Clean(a)
      BY <1>3, <1>5, <1>7, <2>2 DEF Accepted, Clean
    <3>. QED BY <1>1, <1>5, <1>6, <2>1, <3>1, <3>2, <3>3 DEF RunOK
  <2>5. CASE a.left = <<>>
    <3>. DEFINE b == [a EXCEPT !.at = "build", !.left = Selected(table, a.only)]
    <3>1. Asked(a) = b
      BY <2>5 DEF Asked, ToBuild
    <3>2. b = [x \in DOMAIN a |-> b[x]]
      OBVIOUS
    <3>3. /\ b.at = "build" /\ b.left = full /\ b.inventory = a.inventory
          /\ b.only = r.only /\ b.record = r.record /\ b.rows = r.rows /\ b.baseline = r.baseline
      BY <1>5, <1>6 DEF RunFields
    <3>. HIDE DEF b
    <3>4. IsRun(b)
      BY <1>6, <3>2, IsStillRun
    <3>5. Accepted(b) /\ Clean(b)
      BY <1>3, <1>7, <2>2, <3>3 DEF Accepted, Clean
    <3>6. IsAList(full)
      BY TableIs, SelectedAre DEF Chosen
    <3>7. AllAsked(b)
      <4>. DEFINE t == Tail(r.left)
                  m == n + 1
      <4>1. t = <<>> /\ StillToCome(t, ex, m)
        BY <1>5, <1>9, <2>5
      <4>. HIDE DEF ex, t, m
      <4>2. Len(ex) = m
        BY <4>1, RestEnds
      <4>. QED BY <1>7, <3>3, <4>2 DEF AllAsked, ex, m
    <3>8. IsAList(<<>>) /\ DOMAIN <<>> = {} /\ Len(<<>>) = 0
      BY DEF IsAList
    <3>9. Building(b)
      <4>1. StillToCome(full, full, 0)
        BY <3>6, RestStarts
      <4>. QED BY <2>3, <3>3, <3>7, <3>8, <4>1 DEF Building, Records, RowsOK
    <3>. QED BY <2>1, <3>1, <3>3, <3>4, <3>5, <3>9 DEF RunOK
  <2>. QED BY <2>4, <2>5
<1>11. ASSUME probe.child = p
       PROVE  IsChild(f)
  <2>1. IsChild(r)
    BY <1>11, ApkAssumption DEF ApkInv, ProbeOK
  <2>. HIDE DEF f, r
  <2>. QED BY <1>8, <2>1, AppendQuery DEF IsChild
<1>. HIDE DEF f, ok, d, a
<1>12. RunOK(IF ok THEN Asked(a) ELSE f)
  BY <1>8, <1>10
<1>13. probe.child = p => IsChild(IF ok THEN Asked(a) ELSE f)
  BY <1>9, <1>10, <1>11
<1>14. upsets' \in Nat /\ run[p].at \notin Writing
  BY <1>1 DEF ApkInv, Writing
<1>. QED BY <1>1, <1>12, <1>13, <1>14, OnlyRunStep

LEMMA QueryFailsOK == ASSUME ApkInv, NEW p \in Invocations, QueryFails(p) PROVE ApkInv'
<1>. DEFINE r == run[p]
            f(says) == [r EXCEPT !.at = "failed", !.baseline = Nothing, !.left = <<>>,
                                 !.calls = Append(r.calls, "query"), !.named = says]
<1>1. PICK says \in BOOLEAN : Goes(p, f(says))
  BY DEF QueryFails
<1>2. /\ r.at = "query"
      /\ UNCHANGED <<table, golden, source, declared, outputs, probe, upsets>>
  BY DEF QueryFails
<1>. DEFINE g == f(says)
<1>3. IsRun(r) /\ Clean(r) /\ DOMAIN r = RunFields
  BY <1>2, RunHas DEF ApkInv, RunOK
<1>4. g = [x \in DOMAIN r |-> g[x]]
  OBVIOUS
<1>5. /\ g.at = "failed" /\ g.inventory = r.inventory /\ g.only = r.only
      /\ g.calls = Append(r.calls, "query")
  BY <1>3 DEF RunFields
<1>6. Goes(p, g)
  BY <1>1
<1>. HIDE DEF g, f
<1>7. IsRun(g)
  BY <1>3, <1>4, IsStillRun
<1>8. RunOK(g)
  BY <1>3, <1>5, <1>7 DEF RunOK, Clean
<1>9. ASSUME probe.child = p
      PROVE  IsChild(g)
  <2>1. IsChild(r)
    BY <1>9, ApkAssumption DEF ApkInv, ProbeOK
  <2>. HIDE DEF r
  <2>. QED BY <1>5, <2>1, AppendQuery DEF IsChild
<1>10. upsets' \in Nat /\ run[p].at \notin Writing
  BY <1>2 DEF ApkInv, Writing
<1>. QED BY <1>2, <1>6, <1>8, <1>9, <1>10, OnlyRunStep

(* A row that is next to be built is a row of EXAMPLES, the next of those selected. *)
LEMMA NextRow ==
    ASSUME ApkInv, NEW p \in Invocations, run[p].at \in {"build", "hash"}, run[p].left # <<>>
    PROVE  LET r == Head(run[p].left)
               n == Len(run[p].rows)
           IN  /\ \E i \in DOMAIN table : r = table[i]
               /\ OutputOf(r) \in DOMAIN outputs /\ SaysWhatItBuilds(r)
               /\ r = Selected(table, run[p].only)[n + 1]
               /\ StillToCome(Tail(run[p].left), Selected(table, run[p].only), n + 1)
<1>. DEFINE r == Head(run[p].left)
            n == Len(run[p].rows)
            full == Selected(table, run[p].only)
<1>1. Accepted(run[p]) /\ Building(run[p])
  BY DEF ApkInv, RunOK
<1>2. r = full[n + 1] /\ n + 1 \in 1..Len(full) /\ StillToCome(Tail(run[p].left), full, n + 1)
  <2>1. StillToCome(run[p].left, full, n)
    BY <1>1 DEF Building
  <2>. HIDE DEF full, n
  <2>. QED BY <2>1, RestGoesOn
<1>3. Chosen(full, table, run[p].only)
  BY TableIs, SelectedAre
<1>. HIDE DEF full, n, r
<1>4. \E i \in DOMAIN table : r = table[i]
  BY <1>2, <1>3 DEF Chosen
<1>5. OutputOf(r) \in DOMAIN outputs
  BY <1>4 DEF ApkInv, OutputsOK
<1>6. SaysWhatItBuilds(r)
  BY <1>1, <1>4 DEF Accepted, ValidTable
<1>. QED BY <1>2, <1>4, <1>5, <1>6 DEF r, n, full

LEMMA OnlyAtOK ==
    ASSUME ApkInv, NEW p \in Invocations, NEW r,
           \/ run[p].at = "build" /\ r = [run[p] EXCEPT !.at = "hash"]
           \/ run[p].at = "build" /\ r = [run[p] EXCEPT !.at = "hash", !.calls = Append(@, "build")],
           run[p].left # <<>>
    PROVE  RunOK(r)
<1>. DEFINE s == run[p]
<1>1. RunOK(s) /\ s.at = "build"
  BY DEF ApkInv
<1>2. DOMAIN s = RunFields /\ r = [x \in DOMAIN s |-> r[x]]
  BY <1>1, RunHas DEF RunOK
<1>3. /\ r.at = "hash" /\ r.left = s.left /\ r.rows = s.rows /\ r.inventory = s.inventory
      /\ r.only = s.only /\ r.record = s.record /\ r.baseline = s.baseline
  BY <1>2 DEF RunFields
<1>4. IsRun(r)
  BY <1>1, <1>2, IsStillRun DEF RunOK
<1>5. Accepted(r) /\ Clean(r) /\ Building(r)
  BY <1>1, <1>3 DEF RunOK, Accepted, Clean, Building, AllAsked
<1>. QED BY <1>3, <1>4, <1>5 DEF RunOK

LEMMA BuildRowOK == ASSUME ApkInv, NEW p \in Invocations, BuildRow(p) PROVE ApkInv'
<1>. DEFINE r == Head(run[p].left)
            apk == ApkOf(r, source[r.module])
<1>1. /\ run[p].at = "build" /\ run[p].left # <<>>
      /\ UNCHANGED <<table, golden, source, declared, probe, upsets>>
  BY DEF BuildRow
<1>2. PICK s : /\ Goes(p, s) /\ RunOK(s)
               /\ outputs' = [outputs EXCEPT ![OutputOf(r)] = apk] \/ UNCHANGED outputs
  <2>1. CASE run[p].build
    <3>. DEFINE s == [run[p] EXCEPT !.at = "hash", !.calls = Append(@, "build")]
    <3>1. Goes(p, s) /\ outputs' = [outputs EXCEPT ![OutputOf(r)] = apk]
      BY <2>1 DEF BuildRow
    <3>2. RunOK(s)
      BY <1>1, OnlyAtOK
    <3>. QED BY <3>1, <3>2
  <2>2. CASE ~run[p].build
    <3>. DEFINE s == [run[p] EXCEPT !.at = "hash"]
    <3>1. Goes(p, s) /\ UNCHANGED outputs
      BY <2>2 DEF BuildRow
    <3>2. RunOK(s)
      BY <1>1, OnlyAtOK
    <3>. QED BY <3>1, <3>2
  <2>. QED BY <2>1, <2>2
<1>3. OutputsOK'
  <2>1. CASE UNCHANGED outputs
    BY <1>1, <2>1, SameOutputs
  <2>2. CASE outputs' = [outputs EXCEPT ![OutputOf(r)] = apk]
    <3>1. OutputOf(r) \in DOMAIN outputs /\ OutputsOK
      BY <1>1, NextRow DEF ApkInv
    <3>2. apk.mode = Last(OutputOf(r)[3].flutter)
      BY DEF OutputOf, ApkOf
    <3>. HIDE DEF apk, r
    <3>3. DOMAIN outputs' = DOMAIN outputs
      BY <2>2
    <3>4. \A o \in DOMAIN outputs :
             outputs'[o] = outputs[o] \/ (o = OutputOf(r) /\ outputs'[o] = apk)
      BY <2>2
    <3>5. \A o \in DOMAIN outputs :
              outputs'[o] # Nothing => outputs'[o].mode = Last(o[3].flutter)
      BY <3>1, <3>2, <3>4 DEF OutputsOK
    <3>. QED BY <1>1, <3>1, <3>3, <3>5 DEF OutputsOK, OutputOf
  <2>. QED BY <1>2, <2>1, <2>2
<1>4. ProbeOK' /\ GoldenOK'
  <2>1. probe.child # p /\ run[p].at \notin Writing
    BY <1>1, NotTheChild DEF Writing
  <2>. QED BY <1>1, <1>2, <2>1, ProbeKept, GoldenKept
<1>5. upsets' \in Nat
  BY <1>1 DEF ApkInv
<1>. QED BY <1>1, <1>2, <1>3, <1>4, <1>5, RunStep

(* An invocation that builds or hashes ends, without a table to write. *)
LEMMA JustEnds ==
    ASSUME ApkInv, NEW p \in Invocations, NEW how, Ends(p, how),
           run[p].at \in {"build", "hash"}, how \in {"failed", "passed"},
           how = "passed" => AllAsked(run[p]),
           UNCHANGED <<table, golden, source, declared, outputs, probe, upsets>>
    PROVE  ApkInv'
<1>1. RunOK(run[p]) /\ upsets' \in Nat /\ Goes(p, Ended(run[p], how))
  BY DEF ApkInv, Ends, Ended
<1>2. RunOK(Ended(run[p], how))
  BY <1>1, EndsOK
<1>3. probe.child # p /\ run[p].at \notin Writing
  BY NotTheChild DEF Writing
<1>. QED BY <1>1, <1>2, <1>3, OnlyRunStep

LEMMA BuildFailsOK == ASSUME ApkInv, NEW p \in Invocations, BuildFails(p) PROVE ApkInv'
BY JustEnds DEF BuildFails

LEMMA HashFailsOK == ASSUME ApkInv, NEW p \in Invocations, HashFails(p) PROVE ApkInv'
BY JustEnds DEF HashFails

(* What is hashed is what the row says: its mode, which its flags give, and its ABIs. *)
LEMMA HashedRow ==
    ASSUME NEW r, SaysWhatItBuilds(r), NEW apk, apk.mode = Last(r.flags.flutter),
           apk.abis = SelectedAbis(r.abi)
    PROVE  LET row == RecordedRow(r, apk)
           IN  RowOK(row) /\ row.key = KeyOf(r) /\ row.example = r.example
<1>1. Last(<<r.mode>>) = r.mode
  BY DEF Last
<1>2. apk.mode = r.mode
  BY <1>1 DEF SaysWhatItBuilds
<1>. DEFINE k == KeyOf(r)
<1>3. Len(k) = 4 /\ k[1] = r.example /\ k[3] = r.mode /\ k[4] = r.abi
  BY DEF KeyOf
<1>. HIDE DEF k
<1>. QED BY <1>2, <1>3 DEF RecordedRow, RowOK, WhatItSays, k

LEMMA HashRowOK == ASSUME ApkInv, NEW p \in Invocations, HashRow(p) PROVE ApkInv'
<1>. DEFINE s == run[p]
            r == Head(s.left)
            out == outputs[OutputOf(r)]
            row == RecordedRow(r, out)
            t == [s EXCEPT !.at = "build", !.left = Tail(s.left), !.rows = Append(s.rows, row)]
            full == Selected(table, s.only)
<1>1. /\ s.at = "hash"
      /\ UNCHANGED <<table, golden, source, declared, outputs, probe, upsets>>
  BY DEF HashRow
<1>2. RunOK(s) /\ upsets' \in Nat
  BY <1>1 DEF ApkInv
<1>3. \/ Ends(p, "failed")
      \/ Goes(p, t) /\ out # Nothing /\ out.abis = SelectedAbis(r.abi)
  BY DEF HashRow
<1>4. CASE Ends(p, "failed")
  BY <1>1, <1>4, JustEnds
<1>5. CASE Goes(p, t) /\ out # Nothing /\ out.abis = SelectedAbis(r.abi)
  <2>1. s.left # <<>> /\ Accepted(s) /\ Clean(s) /\ Building(s) /\ IsRun(s)
    BY <1>1, <1>2 DEF RunOK
  <2>2. /\ OutputOf(r) \in DOMAIN outputs /\ SaysWhatItBuilds(r)
        /\ r = full[Len(s.rows) + 1] /\ StillToCome(Tail(s.left), full, Len(s.rows) + 1)
    BY <1>1, <2>1, NextRow
  <2>3. RowOK(row) /\ row.key = KeyOf(r) /\ row.example = r.example
    <3>1. out.mode = Last(OutputOf(r)[3].flutter)
      BY <1>5, <2>2 DEF ApkInv, OutputsOK
    <3>2. OutputOf(r)[3] = r.flags
      BY DEF OutputOf
    <3>. HIDE DEF out, r
    <3>. QED BY <1>5, <2>2, <3>1, <3>2, HashedRow, SMTT(30)
  <2>4. DOMAIN s = RunFields /\ t = [x \in DOMAIN s |-> t[x]]
    BY <2>1, RunHas
  <2>5. /\ t.at = "build" /\ t.left = Tail(s.left) /\ t.rows = Append(s.rows, row)
        /\ t.inventory = s.inventory /\ t.only = s.only /\ t.record = s.record
        /\ t.baseline = s.baseline
    BY <2>4 DEF RunFields
  <2>6. IsRun(t)
    BY <2>1, <2>4, IsStillRun
  <2>. HIDE DEF t
  <2>7. Accepted(t) /\ Clean(t)
    BY <2>1, <2>5, <1>1 DEF Accepted, Clean
  <2>8. /\ IsAList(t.rows) /\ Len(t.rows) = Len(s.rows) + 1
        /\ \A i \in 1..Len(s.rows) : t.rows[i] = s.rows[i]
        /\ t.rows[Len(s.rows) + 1] = row
        /\ DOMAIN t.rows = 1..Len(s.rows) + 1
        /\ DOMAIN s.rows = 1..Len(s.rows) /\ Len(s.rows) \in Nat
    <3>1. IsAList(s.rows)
      BY <2>1 DEF Building, Records, RowsOK
    <3>. HIDE DEF row
    <3>. QED BY <2>5, <3>1, AppendIsAList
  <2>9. \A i \in DOMAIN t.rows : i \in DOMAIN s.rows \/ i = Len(s.rows) + 1
    BY <2>8
  <2>. HIDE DEF row, r, full
  <2>10. Records(s.rows, full)
    BY <2>1 DEF Building, full
  <2>11. Records(t.rows, full)
    BY <2>2, <2>3, <2>8, <2>9, <2>10 DEF Records, RowsOK
  <2>12. Building(t)
    BY <2>1, <2>2, <2>5, <2>8, <2>11 DEF Building, AllAsked, full
  <2>13. RunOK(t)
    BY <2>5, <2>6, <2>7, <2>12 DEF RunOK
  <2>14. probe.child # p /\ run[p].at \notin Writing
    BY <1>1, NotTheChild DEF Writing
  <2>. QED BY <1>1, <1>2, <1>5, <2>13, <2>14, OnlyRunStep
<1>. QED BY <1>3, <1>4, <1>5

LEMMA CompareRowsOK == ASSUME ApkInv, NEW p \in Invocations, CompareRows(p) PROVE ApkInv'
<1>1. /\ run[p].at = "build"
      /\ UNCHANGED <<table, golden, source, declared, outputs, probe, upsets>>
  BY DEF CompareRows
<1>2. PICK how \in {"passed", "failed"} : Ends(p, how)
  BY DEF CompareRows
<1>3. AllAsked(run[p])
  BY <1>1 DEF ApkInv, RunOK, Building
<1>. QED BY <1>1, <1>2, <1>3, JustEnds

LEMMA KillRunOK == ASSUME ApkInv, NEW p \in Invocations, KillRun(p) PROVE ApkInv'
<1>. DEFINE how == IF run[p].at = "open" THEN "torn" ELSE "killed"
            e == Ended(run[p], how)
<1>1. /\ run[p].at \in {"query", "build", "hash", "open"} /\ Goes(p, e) /\ Upset
      /\ UNCHANGED <<table, golden, source, declared, outputs, probe>>
  BY DEF KillRun, Ends, Ended
<1>2. RunOK(run[p])
  BY DEF ApkInv
<1>3. RunOK(e) /\ e.at = how /\ e.only = run[p].only /\ e.calls = run[p].calls
  BY <1>1, <1>2, EndsOK
<1>4. upsets' \in Nat
  BY <1>1 DEF ApkInv, Upset
<1>. HIDE DEF e
<1>5. ASSUME probe.child = p
      PROVE  IsChild(e)
  <2>1. IsChild(run[p])
    BY <1>5, ApkAssumption DEF ApkInv, ProbeOK
  <2>. QED BY <1>3, <2>1 DEF IsChild
<1>6. run[p].at \in Writing => e.at \in Writing
  BY <1>1, <1>3 DEF Writing
<1>. QED BY <1>1, <1>3, <1>4, <1>5, <1>6, OnlyRunStep

LEMMA OpenTableOK == ASSUME ApkInv, NEW p \in Invocations, OpenTable(p) PROVE ApkInv'
<1>. DEFINE s == run[p]
            t == [s EXCEPT !.at = "open", !.found = golden]
<1>1. /\ s.at = "build" /\ s.left = <<>> /\ s.record /\ golden' = <<>> /\ Goes(p, t)
      /\ UNCHANGED <<table, source, declared, outputs, probe, upsets>>
  BY DEF OpenTable
<1>2. RunOK(s) /\ upsets' \in Nat
  BY <1>1 DEF ApkInv
<1>3. DOMAIN s = RunFields /\ t = [x \in DOMAIN s |-> t[x]]
  BY <1>2, RunHas DEF RunOK
<1>4. /\ t.at = "open" /\ t.left = s.left /\ t.rows = s.rows /\ t.inventory = s.inventory
      /\ t.only = s.only /\ t.record = s.record /\ t.baseline = s.baseline
  BY <1>3 DEF RunFields
<1>5. IsRun(t)
  BY <1>2, <1>3, IsStillRun DEF RunOK
<1>. HIDE DEF t
<1>6. Accepted(t) /\ Clean(t) /\ Building(t)
  BY <1>1, <1>2, <1>4 DEF RunOK, Accepted, Clean, Building, AllAsked
<1>7. RunOK(t)
  BY <1>1, <1>4, <1>5, <1>6 DEF RunOK
<1>8. GoldenOK'
  <2>1. IsAList(<<>>) /\ DOMAIN <<>> = {}
    BY DEF IsAList
  <2>2. RowsOK(<<>>)
    BY <2>1 DEF RowsOK
  <2>3. run'[p].at = "open"
    BY <1>1, <1>4, <1>7, GoesOn
  <2>. QED BY <1>1, <2>2, <2>3 DEF GoldenOK, RecordsAreWhole
<1>9. ProbeOK' /\ OutputsOK'
  BY <1>1, <1>7, NotTheChild, ProbeKept, SameOutputs
<1>. QED BY <1>1, <1>2, <1>7, <1>8, <1>9, RunStep

-----------------------------------------------------------------------------
(* What is written: the rows of one example among those the table had, row by row. *)
LEMMA MergeIs ==
    ASSUME NEW rows, IsAList(rows), NEW existing, NEW fresh,
           \A i \in DOMAIN rows : HasRow(KeyOf(rows[i]), existing)
    PROVE  MergeRows(rows, existing, fresh) =
               [i \in DOMAIN rows |->
                   IF HasRow(KeyOf(rows[i]), fresh) THEN RowFor(KeyOf(rows[i]), fresh)
                   ELSE RowFor(KeyOf(rows[i]), existing)]
<1>. DEFINE keys == RowKeys(rows)
            recorded == {k \in ToSet(keys) : HasRow(k, existing) \/ HasRow(k, fresh)}
            n == Len(rows)
<1>1. DOMAIN rows = 1..n /\ n \in Nat
  BY ListSet
<1>2. keys = [i \in 1..n |-> KeyOf(rows[i])]
  BY <1>1 DEF RowKeys
<1>3. keys = [i \in 1..n |-> keys[i]]
  BY <1>2
<1>. HIDE DEF keys, n
<1>4. IsAList(keys) /\ Len(keys) = n /\ DOMAIN keys = 1..n
  BY <1>1, <1>3, FunctionIsAList
<1>5. \A i \in 1..Len(keys) : keys[i] \in recorded
  <2>1. \A i \in 1..n : keys[i] = KeyOf(rows[i]) /\ keys[i] \in ToSet(keys)
    BY <1>2, <1>4, ListSet
  <2>. QED BY <1>1, <1>4, <2>1
<1>. HIDE DEF recorded
<1>6. Filtered(keys, recorded) = keys
  BY <1>4, <1>5, FilteredAll
<1>7. MergeRows(rows, existing, fresh) =
          [i \in DOMAIN keys |-> IF HasRow(keys[i], fresh) THEN RowFor(keys[i], fresh)
                                 ELSE RowFor(keys[i], existing)]
  BY <1>6, Zenon DEF MergeRows, keys, recorded
<1>8. \A i \in DOMAIN rows : keys[i] = KeyOf(rows[i])
  BY <1>1, <1>2
<1>. QED BY <1>1, <1>4, <1>7, <1>8

LEMMA RowForIs ==
    ASSUME NEW k, NEW rows, HasRow(k, rows)
    PROVE  \E i \in DOMAIN rows : RowFor(k, rows) = rows[i] /\ rows[i].key = k
BY Zenon DEF HasRow, RowFor

(* What an invocation has built when it writes: its rows are those selected. *)
LEMMA AllAreBuilt ==
    ASSUME ApkInv, NEW p \in Invocations, run[p].left = <<>>,
           run[p].at \in {"build", "open"}
    PROVE  LET r == run[p]
               full == Selected(table, r.only)
           IN  /\ DOMAIN r.rows = DOMAIN full /\ Len(r.rows) = Len(full)
               /\ Records(r.rows, full) /\ Chosen(full, table, r.only)
               /\ AllAsked(r) /\ Accepted(r)
<1>. DEFINE r == run[p]
            full == Selected(table, r.only)
<1>1. Building(r) /\ Accepted(r)
  BY DEF ApkInv, RunOK
<1>2. Chosen(full, table, r.only)
  BY TableIs, SelectedAre
<1>3. Len(full) = Len(r.rows)
  <2>1. StillToCome(r.left, full, Len(r.rows))
    BY <1>1 DEF Building
  <2>. HIDE DEF full
  <2>. QED BY <2>1, RestEnds
<1>4. DOMAIN r.rows = 1..Len(r.rows)
  BY <1>1, ListSet DEF Building, Records, RowsOK
<1>. QED BY <1>1, <1>2, <1>3, <1>4 DEF Building, Chosen

LEMMA WholeTableIsSelected ==
    ASSUME NEW rows, IsAList(rows)
    PROVE  Selected(rows, Nothing) = rows
<1>. DEFINE wanted == {r \in ToSet(rows) : Nothing = Nothing \/ r.example = Nothing}
<1>1. \A i \in 1..Len(rows) : rows[i] \in wanted
  BY ListSet
<1>. HIDE DEF wanted
<1>2. Filtered(rows, wanted) = rows
  BY <1>1, FilteredAll
<1>. QED BY <1>2 DEF Selected, wanted

LEMMA BaselineHasEveryRow ==
    ASSUME NEW rows, NEW existing, RowsCovered(existing, RowKeys(rows)), NEW i \in DOMAIN rows
    PROVE  HasRow(KeyOf(rows[i]), existing)
<1>1. {existing[j].key : j \in DOMAIN existing}
          = {RowKeys(rows)[j] : j \in DOMAIN RowKeys(rows)}
  BY DEF RowsCovered
<1>2. KeyOf(rows[i]) \in {RowKeys(rows)[j] : j \in DOMAIN RowKeys(rows)}
  BY DEF RowKeys
<1>. HIDE DEF KeyOf, RowKeys
<1>3. PICK j \in DOMAIN existing : existing[j].key = KeyOf(rows[i])
  BY <1>1, <1>2
<1>. QED BY <1>3 DEF HasRow

Written(w) == \A i \in DOMAIN table : w[i].key = KeyOf(table[i])

LEMMA WhatIsWritten ==
    ASSUME ApkInv, NEW p \in Invocations, run[p].at = "open"
    PROVE  LET r == run[p]
               w == RowsToWrite(r)
           IN  /\ RowsOK(w) /\ DOMAIN w = DOMAIN table /\ Written(w)
               /\ r.only = Nothing => w = r.rows
               /\ r.only # Nothing => \A i \in DOMAIN table :
                     LET k == KeyOf(table[i])
                     IN  w[i] = IF HasRow(k, r.rows) THEN RowFor(k, r.rows)
                                ELSE RowFor(k, r.baseline)
<1>. DEFINE r == run[p]
            w == RowsToWrite(r)
            full == Selected(table, r.only)
<1>1. r.left = <<>> /\ r.record
  BY DEF ApkInv, RunOK
<1>2. DOMAIN r.rows = DOMAIN full /\ Records(r.rows, full) /\ Accepted(r)
  BY <1>1, AllAreBuilt
<1>3. IsAList(table) /\ DOMAIN table = 1..Len(table) /\ Len(table) \in Nat
  BY TableIs
<1>4. CASE r.only = Nothing
  <2>1. full = table /\ w = r.rows
    BY <1>3, <1>4, WholeTableIsSelected DEF RowsToWrite
  <2>. QED BY <1>2, <1>4, <2>1 DEF Records, Written
<1>5. CASE r.only # Nothing
  <2>. DEFINE of(i) == IF HasRow(KeyOf(table[i]), r.rows) THEN RowFor(KeyOf(table[i]), r.rows)
                       ELSE RowFor(KeyOf(table[i]), r.baseline)
  <2>1. RowsCovered(r.baseline, RowKeys(table)) /\ RowsOK(r.baseline)
    BY <1>1, <1>2, <1>5 DEF Accepted, ValidBaseline
  <2>2. \A i \in DOMAIN table : HasRow(KeyOf(table[i]), r.baseline)
    BY <2>1, BaselineHasEveryRow
  <2>3. w = [i \in DOMAIN table |-> of(i)]
    <3>. DEFINE b == r.baseline
                f == r.rows
    <3>. HIDE DEF b, f
    <3>1. MergeRows(table, b, f) =
              [i \in DOMAIN table |->
                   IF HasRow(KeyOf(table[i]), f) THEN RowFor(KeyOf(table[i]), f)
                   ELSE RowFor(KeyOf(table[i]), b)]
      BY <1>3, <2>2, MergeIs DEF b
    <3>2. w = MergeRows(table, b, f)
      BY <1>5 DEF RowsToWrite, b, f
    <3>. QED BY <3>1, <3>2 DEF b, f
  <2>4. \A i \in DOMAIN table : of(i).key = KeyOf(table[i]) /\ RowOK(of(i))
    <3>. SUFFICES ASSUME NEW i \in DOMAIN table
                  PROVE  of(i).key = KeyOf(table[i]) /\ RowOK(of(i))
      OBVIOUS
    <3>. DEFINE k == KeyOf(table[i])
    <3>. HIDE DEF k
    <3>1. CASE HasRow(k, r.rows)
      <4>1. PICK j \in DOMAIN r.rows : RowFor(k, r.rows) = r.rows[j] /\ r.rows[j].key = k
        BY <3>1, RowForIs
      <4>2. RowOK(r.rows[j])
        BY <1>2 DEF Records, RowsOK
      <4>. QED BY <3>1, <4>1, <4>2 DEF k
    <3>2. CASE ~HasRow(k, r.rows)
      <4>0. HasRow(k, r.baseline)
        BY <2>2 DEF k
      <4>1. PICK j \in DOMAIN r.baseline :
                   RowFor(k, r.baseline) = r.baseline[j] /\ r.baseline[j].key = k
        BY <4>0, RowForIs
      <4>2. RowOK(r.baseline[j])
        BY <2>1 DEF RowsOK
      <4>. QED BY <3>2, <4>1, <4>2 DEF k
    <3>. QED BY <3>1, <3>2
  <2>. HIDE DEF of
  <2>5. DOMAIN w = DOMAIN table /\ \A i \in DOMAIN table : w[i] = of(i)
    BY <2>3
  <2>6. IsAList(w)
    <3>1. w = [i \in 1..Len(table) |-> w[i]]
      BY <1>3, <2>3, <2>5
    <3>. HIDE DEF w
    <3>. QED BY <1>3, <3>1, FunctionIsAList
  <2>7. RowsOK(w) /\ Written(w)
    <3>. HIDE DEF w
    <3>. QED BY <2>4, <2>5, <2>6 DEF RowsOK, Written
  <2>. QED BY <1>5, <2>5, <2>7 DEF of
<1>. QED BY <1>4, <1>5

LEMMA CloseTableOK == ASSUME ApkInv, NEW p \in Invocations, CloseTable(p) PROVE ApkInv'
<1>1. /\ run[p].at = "open" /\ golden' = RowsToWrite(run[p]) /\ Ends(p, "recorded")
      /\ UNCHANGED <<table, source, declared, outputs, probe, upsets>>
  BY DEF CloseTable
<1>2. RunOK(run[p]) /\ upsets' \in Nat
  BY <1>1 DEF ApkInv
<1>3. PICK t : Goes(p, t) /\ RunOK(t)
  <2>1. Goes(p, Ended(run[p], "recorded")) /\ AllAsked(run[p])
    BY <1>1, <1>2 DEF Ends, Ended, RunOK, Building
  <2>. QED BY <1>1, <1>2, <2>1, EndsOK
<1>4. GoldenOK'
  <2>1. RowsOK(golden') /\ DOMAIN golden' = DOMAIN table /\ Written(golden')
    BY <1>1, WhatIsWritten
  <2>2. [i \in DOMAIN golden' |-> golden'[i].key] = RowKeys(table)
    BY <2>1 DEF Written, RowKeys
  <2>. QED BY <1>1, <2>1, <2>2 DEF GoldenOK, RecordsAreWhole
<1>5. ProbeOK' /\ OutputsOK'
  BY <1>1, <1>3, NotTheChild, ProbeKept, SameOutputs
<1>. QED BY <1>1, <1>2, <1>3, <1>4, <1>5, RunStep

LEMMA EditModuleOK == ASSUME ApkInv, NEW m \in Modules, EditModule(m) PROVE ApkInv'
<1>1. /\ Upset /\ UNCHANGED <<table, golden, declared, outputs, run, probe>>
      /\ \E s \in Sources : source' = [source EXCEPT ![m] = s]
  BY DEF EditModule
<1>2. upsets' \in Nat /\ source' \in [Modules -> Sources] /\ Modules' = Modules
  BY <1>1 DEF ApkInv, Upset, Modules
<1>3. \A s : (RunOK(s)' <=> RunOK(s)) /\ (IsChild(s)' <=> IsChild(s))
  BY <1>1 DEF RunOK, Accepted, Asking, Building, AllAsked, Clean, LabelsFor, IsChild
<1>4. ProbeOK'
  BY <1>1, <1>2, <1>3 DEF ApkInv, ProbeOK
<1>. QED BY <1>1, <1>2, <1>3, <1>4, SameOutputs, SameGolden DEF ApkInv

(* The probe's steps leave the invocations as they are. *)
LEMMA ProbeStep ==
    ASSUME ApkInv, UNCHANGED <<table, golden, source, outputs, run>>,
           DOMAIN declared' = DOMAIN declared, upsets' \in Nat, ProbeOK'
    PROVE  ApkInv'
<1>1. Modules' = Modules
  BY DEF Modules
<1>2. \A s : RunOK(s)' <=> RunOK(s)
  BY DEF RunOK, Accepted, Asking, Building, AllAsked, Clean, LabelsFor
<1>. QED BY <1>1, <1>2, SameOutputs, SameGolden DEF ApkInv

(* The check that was started stays what it is, when the app is put where it looks or is
   taken away after it has asked. *)
LEMMA ChildKept ==
    ASSUME ApkInv, UNCHANGED run, probe'.child = probe.child,
           probe.child # Nothing /\ run[probe.child].at = "query" =>
               Planted \in declared'[ProbedModule]
    PROVE  probe'.child # Nothing => probe'.child \in Invocations /\ IsChild(run[probe.child])'
BY DEF ApkInv, ProbeOK, IsChild

LEMMA PlantAppOK == ASSUME ApkInv, PlantApp PROVE ApkInv'
<1>1. /\ probe.at \in {"idle", "killed"} /\ ProbedModule \in Modules /\ Upset
      /\ probe' = [probe EXCEPT !.at = "planted", !.original = declared[ProbedModule]]
      /\ declared' = [declared EXCEPT ![ProbedModule] = @ \cup {Planted}]
      /\ UNCHANGED <<table, golden, source, outputs, run>>
  BY DEF PlantApp
<1>2. ProbeOK /\ Modules' = Modules /\ upsets' \in Nat /\ DOMAIN declared = Modules
  BY <1>1 DEF ApkInv, Modules, Upset
<1>3. probe' = [at |-> "planted", child |-> probe.child, original |-> declared[ProbedModule]]
  BY <1>1, <1>2 DEF ProbeOK
<1>4. Planted \in declared'[ProbedModule] /\ DOMAIN declared' = DOMAIN declared
  BY <1>1, <1>2
<1>5. probe'.child # Nothing => probe'.child \in Invocations /\ IsChild(run[probe.child])'
  BY <1>1, <1>3, <1>4, ChildKept
<1>6. probe.child # Nothing => Planted \in declared[ProbedModule]
  BY <1>1, <1>2 DEF ProbeOK
<1>7. ProbeOK'
  BY <1>1, <1>2, <1>3, <1>4, <1>5, <1>6 DEF ProbeOK
<1>. QED BY <1>1, <1>2, <1>4, <1>7, ProbeStep

LEMMA ProbeGivesUpOK == ASSUME ApkInv, ProbeGivesUp PROVE ApkInv'
<1>1. /\ probe.at = "planted" /\ probe' = [probe EXCEPT !.at = "failed"]
      /\ declared' = [declared EXCEPT ![ProbedModule] = probe.original]
      /\ UNCHANGED <<table, golden, source, outputs, run, upsets>>
  BY DEF ProbeGivesUp
<1>2. ProbeOK /\ Modules' = Modules /\ upsets' \in Nat /\ DOMAIN declared = Modules
  BY <1>1 DEF ApkInv, Modules
<1>3. probe' = [at |-> "failed", child |-> probe.child, original |-> probe.original]
  BY <1>1, <1>2 DEF ProbeOK
<1>4. /\ declared'[ProbedModule] = probe.original /\ DOMAIN declared' = DOMAIN declared
      /\ probe.child # Nothing => Planted \in probe.original
  BY <1>1, <1>2 DEF ProbeOK
<1>5. probe'.child # Nothing => probe'.child \in Invocations /\ IsChild(run[probe.child])'
  BY <1>1, <1>3, <1>4, ChildKept
<1>6. ProbeOK'
  BY <1>1, <1>2, <1>3, <1>5 DEF ProbeOK
<1>. QED BY <1>1, <1>2, <1>4, <1>6, ProbeStep

LEMMA KillProbeOK == ASSUME ApkInv, KillProbe PROVE ApkInv'
<1>1. /\ probe.at \in {"planted", "waiting"} /\ probe' = [probe EXCEPT !.at = "killed"]
      /\ UNCHANGED <<table, golden, source, declared, outputs, run, upsets>>
  BY DEF KillProbe
<1>2. ProbeOK /\ Modules' = Modules /\ upsets' \in Nat
  BY <1>1 DEF ApkInv, Modules
<1>3. probe' = [at |-> "killed", child |-> probe.child, original |-> probe.original]
  BY <1>1, <1>2 DEF ProbeOK
<1>4. ProbedModule \in Modules /\ Planted \in declared[ProbedModule]
  BY <1>1, <1>2 DEF ProbeOK
<1>5. probe'.child # Nothing => probe'.child \in Invocations /\ IsChild(run[probe.child])'
  BY <1>1, <1>3, <1>4, ChildKept
<1>6. ProbeOK'
  BY <1>1, <1>2, <1>3, <1>4, <1>5 DEF ProbeOK
<1>. QED BY <1>1, <1>2, <1>6, ProbeStep

LEMMA RestoreAppOK == ASSUME ApkInv, RestoreApp PROVE ApkInv'
<1>. DEFINE at == IF Refused(run[probe.child]) THEN "passed" ELSE "failed"
<1>1. /\ probe.at = "waiting" /\ probe' = [probe EXCEPT !.at = at]
      /\ run[probe.child].at \in {"passed", "failed", "killed"}
      /\ declared' = [declared EXCEPT ![ProbedModule] = probe.original]
      /\ UNCHANGED <<table, golden, source, outputs, run, upsets>>
  BY DEF RestoreApp
<1>2. at \in {"passed", "failed"}
  OBVIOUS
<1>. HIDE DEF at
<1>3. ProbeOK /\ Modules' = Modules /\ upsets' \in Nat /\ DOMAIN declared = Modules
  BY <1>1 DEF ApkInv, Modules
<1>4. ProbedModule \in Modules /\ Planted \notin probe.original
  BY <1>1, <1>3 DEF ProbeOK
<1>5. declared'[ProbedModule] = probe.original /\ DOMAIN declared' = DOMAIN declared
  BY <1>1, <1>3, <1>4
<1>6. probe' = [at |-> at, child |-> probe.child, original |-> probe.original]
  BY <1>1, <1>3 DEF ProbeOK
<1>7. probe'.child # Nothing => probe'.child \in Invocations /\ IsChild(run[probe.child])'
  BY <1>1, <1>6, ChildKept
<1>8. ProbeOK'
  BY <1>1, <1>2, <1>4, <1>5, <1>6, <1>7 DEF ProbeOK
<1>. QED BY <1>1, <1>3, <1>5, <1>8, ProbeStep

-----------------------------------------------------------------------------
LEMMA ApkStarts == ApkInit => ApkInv
<1>. SUFFICES ASSUME NEW c \in Checkouts, ApkStart(c)
              PROVE  ApkInv
  BY DEF ApkInit
<1>1. /\ table = c.table /\ golden = c.golden
      /\ source = [m \in Modules |-> FirstSource]
      /\ DOMAIN declared = Modules
      /\ outputs = [o \in {OutputOf(table[i]) : i \in DOMAIN table} |-> Nothing]
      /\ run = [p \in Invocations |-> NotRun]
      /\ probe = [at |-> "idle", child |-> Nothing, original |-> {}]
      /\ upsets = c.upsets
  BY DEF ApkStart
<1>2. source \in [Modules -> Sources] /\ upsets \in Nat
  BY <1>1, ApkAssumption
<1>3. RunOK(NotRun)
  <2>1. IsRun(NotRun) /\ NotRun.inventory = <<>> /\ NotRun.at = "idle"
    BY DEF IsRun, NotRun
  <2>2. IsAList(<<>>) /\ DOMAIN <<>> = {}
    BY DEF IsAList
  <2>. QED BY <2>1, <2>2 DEF RunOK, Clean
<1>4. OutputsOK
  BY <1>1 DEF OutputsOK
<1>5. GoldenOK
  <2>1. golden # Nothing => RowsOK(golden)
    BY <1>1, ApkAssumption DEF RowsOK
  <2>. QED BY <1>1, <2>1 DEF GoldenOK, RecordsAreWhole
<1>6. ProbeOK
  BY <1>1 DEF ProbeOK
<1>. QED BY <1>1, <1>2, <1>3, <1>4, <1>5, <1>6 DEF ApkInv

LEMMA ApkStep == ApkInv /\ [ApkNext]_apkVars => ApkInv'
<1>. SUFFICES ASSUME ApkInv, [ApkNext]_apkVars
              PROVE  ApkInv'
  OBVIOUS
<1>1. CASE UNCHANGED apkVars
  <2>1. UNCHANGED <<table, golden, source, declared, outputs, run, probe, upsets>>
    BY <1>1 DEF apkVars
  <2>2. ProbeOK' /\ upsets' \in Nat
    BY <2>1 DEF ApkInv, ProbeOK, IsChild, Modules
  <2>. QED BY <2>1, <2>2, ProbeStep
<1>2. ASSUME NEW p \in Invocations, RunNext(p)
      PROVE  ApkInv'
  BY <1>2, StartRunOK, AskInventoryOK, QueryFailsOK, BuildRowOK, BuildFailsOK, HashRowOK,
     HashFailsOK, CompareRowsOK, OpenTableOK, CloseTableOK, KillRunOK, CheckPlantedOK DEF RunNext
<1>. QED BY <1>1, <1>2, EditModuleOK, PlantAppOK, ProbeGivesUpOK, RestoreAppOK, KillProbeOK
         DEF ApkNext

THEOREM ApkInvariant == ApkSpec => []ApkInv
<1>. QED BY ApkStarts, ApkStep, PTL DEF ApkSpec

(* example_hashes.py and apk_inventory_probe.py: for every EXAMPLES, table and commands,
   invocations that overlap, fail, are killed or see edits keep the table whole and true;
   none goes on over an inventory that differs from EXAMPLES, and the check that the
   probe starts never builds or passes. *)
THEOREM TableSafeCorrect == ApkSpec => []TableSafe
<1>1. ApkInv => TableSafe
  <2>. SUFFICES ASSUME ApkInv PROVE TableSafe
    OBVIOUS
  <2>1. ApkTypeOK
    <3>1. golden = Nothing \/ \A i \in DOMAIN golden :
             golden[i].key # Nothing => Len(golden[i].key) = 4
      BY DEF ApkInv, GoldenOK, RowsOK, RowOK
    <3>2. ASSUME NEW p \in Invocations, run[p].at = "open"
          PROVE  [i \in DOMAIN run[p].rows |-> run[p].rows[i].key]
                     = RowKeys(Selected(table, run[p].only))
      <4>1. run[p].left = <<>>
        BY <3>2 DEF ApkInv, RunOK
      <4>. QED BY <3>2, <4>1, AllAreBuilt DEF Records, RowKeys
    <3>. QED BY <3>1, <3>2 DEF ApkTypeOK, ApkInv
  <2>2. RecordsAreWhole /\ RecordsSayWhatTheyAre
    BY DEF ApkInv, GoldenOK, RowsOK, RowOK, RecordsSayWhatTheyAre, WhatItSays
  <2>3. InventoryIsExact
    <3>. SUFFICES ASSUME NEW p \in Invocations,
                         run[p].at \in {"build", "hash", "open", "passed", "recorded"}
                  PROVE  LET asked == ExamplesOf(Selected(table, run[p].only))
                         IN  run[p].inventory =
                                [i \in DOMAIN asked |-> LabelsIn(Selected(table, asked[i].example))]
      BY DEF InventoryIsExact
    <3>. DEFINE full == Selected(table, run[p].only)
                asked == ExamplesOf(full)
                told == run[p].inventory
    <3>1. IsAList(told) /\ \A i \in DOMAIN told : told[i] = LabelsFor(asked[i])
      BY DEF ApkInv, RunOK, Clean
    <3>2. Len(told) = Len(asked)
      BY DEF ApkInv, RunOK, Building, AllAsked
    <3>3. IsAList(asked)
      <4>1. IsAList(full)
        BY TableIs, SelectedAre DEF Chosen
      <4>. QED BY <4>1, ExamplesAreRows
    <3>. HIDE DEF told, asked
    <3>4. told = [i \in DOMAIN told |-> told[i]] /\ DOMAIN told = DOMAIN asked
      <4>1. DOMAIN told = 1..Len(told) /\ DOMAIN asked = 1..Len(asked)
        BY <3>1, <3>3, ListSet
      <4>2. told \in Seq(ToSet(told))
        BY <3>1 DEF IsAList
      <4>3. told = [i \in DOMAIN told |-> told[i]]
        BY <4>2
      <4>. QED BY <3>2, <4>1, <4>3
    <3>5. told = [i \in DOMAIN asked |-> LabelsIn(Selected(table, asked[i].example))]
      BY <3>1, <3>4 DEF LabelsFor
    <3>. QED BY <3>5 DEF told, asked
  <2>4. PlantStopsItsCheck
    BY DEF ApkInv, ProbeOK, IsChild, PlantStopsItsCheck
  <2>. QED BY <2>1, <2>2, <2>3, <2>4 DEF TableSafe
<1>. QED BY <1>1, ApkInvariant, PTL

-----------------------------------------------------------------------------

(* Where a check passes, the recorded table has one row for each that was selected. *)
LEMMA RecordedOnce ==
    ASSUME NEW rows, IsAList(rows), NEW only, NEW keys,
           \A j \in DOMAIN rows : rows[j].key # Nothing => rows[j].key[1] = rows[j].example,
           RowsCovered(RowsExpected(rows, only), keys),
           NEW k, NEW i \in DOMAIN keys, keys[i] = k, only = Nothing \/ k[1] = only
    PROVE  Cardinality({j \in DOMAIN rows : rows[j].key = k}) = 1
<1>. DEFINE r == RowsExpected(rows, only)
            wanted == {row \in ToSet(rows) : only = Nothing \/ row.example = only}
<1>1. DOMAIN rows = 1..Len(rows) /\ \A j \in 1..Len(rows) : rows[j] \in ToSet(rows)
  BY ListSet
<1>2. PICK at \in [1..Len(r) -> 1..Len(rows)] :
          /\ \A m \in 1..Len(r) : r[m] = rows[at[m]]
          /\ \A j \in 1..Len(rows) : rows[j] \in wanted => \E m \in 1..Len(r) : at[m] = j
  <2>1. r = Filtered(rows, wanted)
    BY DEF RowsExpected
  <2>. HIDE DEF wanted, r
  <2>. QED BY <2>1, FilteredPlaces
<1>3. DOMAIN r = 1..Len(r)
  BY SelectedAre DEF Chosen
<1>4. /\ \A m \in DOMAIN r : r[m].key # Nothing
      /\ \A m, n \in DOMAIN r : r[m].key = r[n].key => m = n
      /\ {r[m].key : m \in DOMAIN r} = {keys[m] : m \in DOMAIN keys}
  BY DEF RowsCovered
<1>. HIDE DEF r
<1>5. k \in {keys[m] : m \in DOMAIN keys}
  OBVIOUS
<1>6. PICK m \in DOMAIN r : r[m].key = k
  BY <1>4, <1>5
<1>7. at[m] \in 1..Len(rows) /\ rows[at[m]].key = k /\ k # Nothing
  BY <1>2, <1>3, <1>4, <1>6
<1>8. ASSUME NEW j \in DOMAIN rows, rows[j].key = k
      PROVE  j = at[m]
  <2>1. only = Nothing \/ rows[j].example = only
    BY <1>7, <1>8
  <2>2. rows[j] \in wanted
    BY <1>1, <2>1
  <2>. HIDE DEF wanted
  <2>3. PICK n \in 1..Len(r) : at[n] = j
    BY <1>1, <1>2, <2>2
  <2>4. r[n].key = k
    BY <1>2, <1>8, <2>3
  <2>5. n = m
    BY <1>3, <1>4, <1>6, <2>4
  <2>. QED BY <2>3, <2>5
<1>9. {j \in DOMAIN rows : rows[j].key = k} = {at[m]}
  BY <1>1, <1>7, <1>8
<1>. QED BY <1>9, FS_Singleton

PassesRight(p) ==
    /\ golden # Nothing
    /\ \A i \in DOMAIN golden :
          run[p].only \in {Nothing, golden[i].example} =>
              \E j \in DOMAIN run[p].rows : golden[i] = run[p].rows[j]
    /\ \A i \in DOMAIN table : run[p].only \in {Nothing, table[i].example} =>
          Cardinality({j \in DOMAIN golden : golden[j].key = KeyOf(table[i])}) = 1
    /\ \A j \in DOMAIN run[p].rows : WhatItSays(run[p].rows[j])

LEMMA PassedRight ==
    ASSUME ApkInv, NEW p \in Invocations, CompareRows(p),
           TableMatches(table, golden, run[p].only, run[p].rows)
    PROVE  PassesRight(p)
<1>. DEFINE only == run[p].only
            rows == run[p].rows
            full == Selected(table, only)
            r == RowsExpected(golden, only)
<1>1. golden # Nothing /\ r = rows /\ RowsCovered(r, RowKeys(full))
  BY DEF TableMatches
<1>2. RowsOK(golden)
  BY <1>1 DEF ApkInv, GoldenOK
<1>3. Records(rows, full) /\ Chosen(full, table, only)
  BY AllAreBuilt DEF CompareRows
<1>4. IsAList(golden) /\ Chosen(r, golden, only)
  BY <1>2, SelectedAre DEF RowsOK
<1>. HIDE DEF only, full, r, rows
<1>5. \A i \in DOMAIN golden :
          only \in {Nothing, golden[i].example} => \E j \in DOMAIN rows : golden[i] = rows[j]
  BY <1>1, <1>4 DEF Chosen, OfExample
<1>6. ASSUME NEW i \in DOMAIN table, only \in {Nothing, table[i].example}
      PROVE  Cardinality({j \in DOMAIN golden : golden[j].key = KeyOf(table[i])}) = 1
  <2>. DEFINE keys == RowKeys(full)
              k == KeyOf(table[i])
  <2>1. PICK m \in DOMAIN full : full[m] = table[i]
    BY <1>3, <1>6 DEF Chosen, OfExample
  <2>2. m \in DOMAIN keys /\ keys[m] = k
    BY <2>1 DEF RowKeys
  <2>3. only = Nothing \/ k[1] = only
    BY <1>6 DEF KeyOf
  <2>4. \A j \in DOMAIN golden : golden[j].key # Nothing => golden[j].key[1] = golden[j].example
    BY <1>2 DEF RowsOK, RowOK
  <2>5. RowsCovered(RowsExpected(golden, only), keys)
    BY <1>1 DEF r
  <2>. HIDE DEF keys, k
  <2>6. Cardinality({j \in DOMAIN golden : golden[j].key = k}) = 1
    BY <1>4, <2>2, <2>3, <2>4, <2>5, RecordedOnce
  <2>. QED BY <2>6 DEF k
<1>7. \A j \in DOMAIN rows : WhatItSays(rows[j])
  BY <1>3 DEF Records, RowsOK, RowOK, WhatItSays
<1>. QED BY <1>1, <1>5, <1>6, <1>7 DEF PassesRight, only, rows

LEMMA RowForOnly ==
    ASSUME NEW k, NEW rows, NEW i \in DOMAIN rows, rows[i].key = k,
           \A j \in DOMAIN rows : rows[j].key = k => j = i
    PROVE  RowFor(k, rows) = rows[i]
<1>1. PICK j \in DOMAIN rows : RowFor(k, rows) = rows[j] /\ rows[j].key = k
  BY RowForIs DEF HasRow
<1>. QED BY <1>1

ReplacesItsOwn(p, new) ==
    \A i \in DOMAIN table :
        LET k == KeyOf(table[i])
        IN  RowFor(k, new) =
                IF run[p].only \in {Nothing, table[i].example}
                THEN RowFor(k, run[p].rows) ELSE RowFor(k, run[p].baseline)

LEMMA RecordedRight ==
    ASSUME ApkInv, NEW p \in Invocations, run[p].at = "open"
    PROVE  ReplacesItsOwn(p, RowsToWrite(run[p]))
<1>. DEFINE r == run[p]
            w == RowsToWrite(r)
            full == Selected(table, r.only)
<1>1. r.left = <<>> /\ Accepted(r)
  BY DEF ApkInv, RunOK
<1>2. DOMAIN r.rows = DOMAIN full /\ Records(r.rows, full) /\ Chosen(full, table, r.only)
  BY <1>1, AllAreBuilt
<1>3. /\ DOMAIN w = DOMAIN table /\ Written(w)
      /\ r.only = Nothing => w = r.rows
      /\ r.only # Nothing => \A i \in DOMAIN table :
            LET k == KeyOf(table[i])
            IN  w[i] = IF HasRow(k, r.rows) THEN RowFor(k, r.rows) ELSE RowFor(k, r.baseline)
  BY WhatIsWritten
<1>4. \A i, j \in DOMAIN table : KeyOf(table[i]) = KeyOf(table[j]) => i = j
  BY <1>1 DEF Accepted, ValidTable
<1>. HIDE DEF w, full
<1>5. CASE r.only = Nothing
  BY <1>3, <1>5 DEF ReplacesItsOwn, w
<1>6. CASE r.only # Nothing
  <2>. SUFFICES ASSUME NEW i \in DOMAIN table
                PROVE  RowFor(KeyOf(table[i]), w) =
                           IF r.only \in {Nothing, table[i].example}
                           THEN RowFor(KeyOf(table[i]), r.rows)
                           ELSE RowFor(KeyOf(table[i]), r.baseline)
    BY DEF ReplacesItsOwn, w
  <2>. DEFINE k == KeyOf(table[i])
  <2>1. RowFor(k, w) = w[i]
    <3>1. w[i].key = k /\ \A j \in DOMAIN w : w[j].key = k => j = i
      BY <1>3, <1>4 DEF Written
    <3>. HIDE DEF k
    <3>. QED BY <1>3, <3>1, RowForOnly
  <2>2. HasRow(k, r.rows) <=> r.only = table[i].example
    <3>1. ASSUME r.only = table[i].example
          PROVE  HasRow(k, r.rows)
      <4>1. PICK m \in DOMAIN full : full[m] = table[i]
        BY <1>2, <3>1 DEF Chosen, OfExample
      <4>. QED BY <1>2, <4>1 DEF Records, HasRow
    <3>2. ASSUME HasRow(k, r.rows)
          PROVE  r.only = table[i].example
      <4>1. PICK m \in DOMAIN r.rows : r.rows[m].key = k
        BY <3>2 DEF HasRow
      <4>2. KeyOf(full[m]) = KeyOf(table[i]) /\ full[m].example = r.only
        BY <1>2, <1>6, <4>1 DEF Records, Chosen, OfExample
      <4>. QED BY <4>2 DEF KeyOf
    <3>. QED BY <3>1, <3>2
  <2>3. w[i] = IF HasRow(k, r.rows) THEN RowFor(k, r.rows) ELSE RowFor(k, r.baseline)
    BY <1>3, <1>6
  <2>. HIDE DEF k
  <2>. QED BY <1>6, <2>1, <2>2, <2>3 DEF k
<1>. QED BY <1>5, <1>6

(* An invocation passes by comparing, and has recorded by writing. *)
Final == {"passed", "recorded"}

LEMMA OthersStay ==
    ASSUME ApkInv, NEW p \in Invocations, NEW q \in Invocations, NEW r, Goes(q, r),
           run'[p].at \in Final, run[p].at # run'[p].at
    PROVE  p = q /\ r.at \in Final
<1>1. DOMAIN run = Invocations
  BY DEF ApkInv
<1>. QED BY <1>1 DEF Goes

LEMMA EndingIs ==
    ASSUME ApkInv, [ApkNext]_apkVars, NEW p \in Invocations,
           run'[p].at \in Final, run[p].at # run'[p].at
    PROVE  \/ run'[p].at = "passed" /\ CompareRows(p)
                 /\ TableMatches(table, golden, run[p].only, run[p].rows)
           \/ run'[p].at = "recorded" /\ CloseTable(p)
<1>1. \A q \in Invocations : RunOK(run[q]) /\ DOMAIN run[q] = RunFields
  BY RunHas DEF ApkInv, RunOK
<1>2. ASSUME NEW q \in Invocations, NEW how, Ends(q, how)
      PROVE  p = q /\ run'[p].at = how
  <2>. DEFINE e == Ended(run[q], how)
  <2>1. e.at = how
    BY <1>1 DEF RunFields, Ended
  <2>. HIDE DEF e
  <2>2. Goes(q, e)
    BY <1>2 DEF Ends, Ended, e
  <2>3. p = q
    BY <2>2, OthersStay
  <2>4. run'[p] = e
    BY <2>2, <2>3 DEF Goes, ApkInv
  <2>. QED BY <2>1, <2>3, <2>4
<1>3. ASSUME NEW q \in Invocations, NEW r, Goes(q, r), r.at \notin Final
      PROVE  FALSE
  BY <1>3, OthersStay
<1>4. ~UNCHANGED run
  OBVIOUS
<1>5. PICK q \in Invocations : RunNext(q)
  BY <1>4 DEF ApkNext, apkVars, EditModule, PlantApp, ProbeGivesUp, RestoreApp, KillProbe
<1>6. ASSUME NEW c, StartRun(q, c)
      PROVE  FALSE
  <2>1. PICK r : Goes(q, r) /\ r.at \in {"query", "failed"}
    BY <1>6, StartGoes, Zenon
  <2>. QED BY <1>3, <2>1 DEF Final
<1>7. ASSUME AskInventory(q)
      PROVE  FALSE
  <2>. DEFINE s == run[q]
              d == declared[Head(s.left).module]
              a == [s EXCEPT !.calls = Append(s.calls, "query"),
                             !.inventory = Append(s.inventory, d), !.left = Tail(s.left)]
              f == [a EXCEPT !.at = "failed", !.left = <<>>, !.named = Planted \in d]
              b == [a EXCEPT !.at = "build", !.left = Selected(table, a.only)]
  <2>1. s.at = "query" /\ (Goes(q, Asked(a)) \/ Goes(q, f))
    BY <1>7 DEF AskInventory
  <2>2. a.at = "query" /\ DOMAIN a = RunFields
    BY <1>1, <2>1 DEF RunFields
  <2>3. Asked(a) = a \/ Asked(a) = b
    BY Zenon DEF Asked, ToBuild
  <2>. HIDE DEF a
  <2>4. f.at = "failed" /\ b.at = "build"
    BY <2>2 DEF RunFields
  <2>. HIDE DEF f, b
  <2>. QED BY <1>3, <2>1, <2>2, <2>3, <2>4 DEF Final
<1>8. ASSUME BuildRow(q)
      PROVE  FALSE
  <2>. DEFINE s == run[q]
              b == [s EXCEPT !.at = "hash", !.calls = Append(@, "build")]
              h == [s EXCEPT !.at = "hash"]
  <2>1. Goes(q, b) \/ Goes(q, h)
    BY <1>8 DEF BuildRow
  <2>2. b.at = "hash" /\ h.at = "hash"
    BY <1>1 DEF RunFields
  <2>. HIDE DEF b, h
  <2>. QED BY <1>3, <2>1, <2>2 DEF Final
<1>9. ASSUME HashRow(q)
      PROVE  FALSE
  <2>. DEFINE s == run[q]
              row == RecordedRow(Head(s.left), outputs[OutputOf(Head(s.left))])
              t == [s EXCEPT !.at = "build", !.left = Tail(s.left), !.rows = Append(s.rows, row)]
  <2>1. Goes(q, t) \/ Ends(q, "failed")
    BY <1>9 DEF HashRow
  <2>2. t.at = "build"
    BY <1>1 DEF RunFields
  <2>. HIDE DEF t
  <2>. QED BY <1>2, <1>3, <2>1, <2>2 DEF Final
<1>10. ASSUME OpenTable(q)
       PROVE  FALSE
  <2>. DEFINE t == [run[q] EXCEPT !.at = "open", !.found = golden]
  <2>1. Goes(q, t)
    BY <1>10 DEF OpenTable
  <2>2. t.at = "open"
    BY <1>1 DEF RunFields
  <2>. HIDE DEF t
  <2>. QED BY <1>3, <2>1, <2>2 DEF Final
<1>11. ~BuildFails(q) /\ ~HashFails(q) /\ ~KillRun(q)
  BY <1>2 DEF BuildFails, HashFails, KillRun, Final
<1>12. CASE CloseTable(q)
  BY <1>2, <1>12 DEF CloseTable
<1>13. CASE CompareRows(q)
  <2>1. CASE TableMatches(table, golden, run[q].only, run[q].rows)
    BY <1>2, <1>13, <2>1 DEF CompareRows
  <2>2. CASE ~TableMatches(table, golden, run[q].only, run[q].rows)
    BY <1>2, <1>13, <2>2 DEF CompareRows, Final
  <2>. QED BY <2>1, <2>2
<1>14. ASSUME QueryFails(q)
       PROVE  FALSE
  <2>. DEFINE t(says) == [run[q] EXCEPT !.at = "failed", !.baseline = Nothing, !.left = <<>>,
                                        !.calls = Append(@, "query"), !.named = says]
  <2>1. PICK says \in BOOLEAN : Goes(q, t(says))
    BY <1>14 DEF QueryFails
  <2>. DEFINE u == t(says)
  <2>2. u.at = "failed" /\ Goes(q, u)
    BY <1>1, <2>1 DEF RunFields
  <2>. HIDE DEF u
  <2>. QED BY <1>3, <2>2 DEF Final
<1>. QED BY <1>5, <1>6, <1>7, <1>8, <1>9, <1>10, <1>11, <1>12, <1>13, <1>14
         DEF RunNext, CheckPlanted

(* example_hashes.py: what an invocation says when it ends is so, however others run
   and are killed beside it. *)
THEOREM RunsKeepTheirWordCorrect == ApkSpec => RunsKeepTheirWord
<1>1. ASSUME ApkInv, [ApkNext]_apkVars
      PROVE  PassesOnRecordedRows /\ RecordReplacesItsOwn
  <2>1. ASSUME NEW p \in Invocations, run[p].at # "passed", run'[p].at = "passed"
        PROVE  PassesRight(p)
    BY <1>1, <2>1, EndingIs, PassedRight DEF Final
  <2>2. ASSUME NEW p \in Invocations, run[p].at = "open", run'[p].at = "recorded"
        PROVE  ReplacesItsOwn(p, golden')
    <3>1. CloseTable(p)
      BY <1>1, <2>2, EndingIs DEF Final
    <3>. QED BY <1>1, <2>2, <3>1, RecordedRight DEF CloseTable
  <2>3. PassesOnRecordedRows
    BY <2>1 DEF PassesOnRecordedRows, PassesRight
  <2>4. RecordReplacesItsOwn
    BY <2>2 DEF RecordReplacesItsOwn, ReplacesItsOwn
  <2>. QED BY <2>3, <2>4
<1>2. ApkInv /\ [ApkNext]_apkVars => [PassesOnRecordedRows /\ RecordReplacesItsOwn]_apkVars
  BY <1>1
<1>. QED BY <1>2, ApkInvariant, PTL DEF ApkSpec, RunsKeepTheirWord

-----------------------------------------------------------------------------
(* android_toolchain_probe.py: the steps of a scenario. *)
ToBazel == {"bazel", "mod", "graph", "finally", "cleanup"}
ToLocks == {"resolve", "stop", "read", "remove", "compare"}
Unset == world.lock[WithoutNdk]
Set == world.lock[world.environment]

(* A scenario's bases and servers, at each of its steps. *)
BasesOK ==
    /\ base \in [dir : SUBSET Bases, server : SUBSET Bases, unstopped : SUBSET Bases]
    /\ base.server \subseteq base.dir \cup base.unstopped
    /\ step = "start" => base.dir \subseteq {"default", "given"} /\ base.server \subseteq {"given"}
    /\ world.scenario \in Isolated =>
          /\ base.server \subseteq {OutputBase} /\ base.dir \subseteq {"default", "given", "temporary"}
          /\ step \in {"cleanup", "done"} => base.server \subseteq base.unstopped
    /\ world.scenario \notin Isolated =>
          /\ "temporary" \notin base.dir
          /\ step \notin {"stop", "killed"} => base.server \cap {"unset", "set"} \subseteq base.unstopped
    /\ step = "stop" => base.server \cap {"unset", "set"} \subseteq base.unstopped \cup {LockBase}
    /\ step = "compare" => base.dir \cap {"unset", "set"} = {}
    /\ step = "done" /\ base.dir \cap {"temporary", "unset", "set"} # {} => why = "cleanup"

(* What has been decided, and why. *)
VerdictOK ==
    /\ verdict \in {"none", "passed", "failed"} /\ (verdict = "failed") = (why # "none")
    /\ step \in {"start", "bazel", "mod", "graph", "resolve", "read", "compare"} => verdict = "none"
    /\ step \in {"finally", "cleanup", "done"} => verdict # "none"
    /\ step = "start" => repos \in {{}, world.leftover} /\ (world.given # "used" => repos = {})
    /\ step = "bazel" => repos = {}
    /\ why = "repositories" => world.repos[{}] \cap Forbidden # {}

(* lock-portability: each lock is the one of its environment. *)
LocksOK ==
    /\ step \in ToLocks => world.scenario = "lock-portability" /\ "ANDROID_NDK_HOME" \in world.environment
    /\ locks \in {<<>>, <<Unset>>, <<Unset, Set>>}
    /\ step = "start" => locks = <<>>
    /\ step \in {"resolve", "stop", "read"} => locks \in {<<>>, <<Unset>>}
    /\ step = "remove" /\ verdict = "none" => locks = <<Unset, Set>>
    /\ step = "compare" => locks = <<Unset, Set>>
    /\ world.scenario = "lock-portability" /\ verdict = "passed" =>
          "ANDROID_NDK_HOME" \in world.environment /\ Unset = Set

ProbeInv ==
    /\ world \in Worlds /\ step \in {"start", "done", "killed"} \cup ToBazel \cup ToLocks
    /\ step \in ToBazel => world.scenario \in Isolated
    /\ BasesOK /\ VerdictOK /\ LocksOK
    /\ step \in {"mod", "graph"} => world.scenario = "core-isolation"

(* core-isolation: as long as the modules met are core's, what is left to visit stands no
   deeper in the tree than there are modules met; what core depends on is met or left to
   visit, and so is what a mention of each module met depends on. *)
Tree(n) == Mentions(world.graph)[n]
Pending == {d.name : d \in ToSet(unvisited)}
WalkOK ==
    names \subseteq CoreModules =>
        /\ unvisited \in Seq(Tree(Cardinality(names)))
        /\ \A m \in Tree(0) : m.name \in names \cup Pending
        /\ \A n \in names : \E m \in Tree(Cardinality(names)) :
              m.name = n /\ DepNames(m) \subseteq names \cup Pending
ListedOnly ==
    /\ {m.name : m \in ToSet(world.graph)} \subseteq CoreModules
    /\ \A n \in CoreModules : \E m \in Tree(Cardinality(CoreModules)) :
          m.name = n /\ DepNames(m) \subseteq CoreModules
    /\ MentionsAgree(world.graph) => TreeNames(world.graph) = CoreModules
WalkInv ==
    /\ step \in {"start", "bazel", "mod"} => names = {}
    /\ step \in {"mod", "graph"} => world.repos[{}] \cap Forbidden = {}
    /\ step = "graph" => WalkOK
    /\ world.scenario = "core-isolation" /\ verdict = "passed" =>
          world.repos[{}] \cap Forbidden = {} /\ ListedOnly

LEMMA BasesStays ==
    ASSUME ProbeInv, ProbeNext
    PROVE  BasesOK'
<1>. USE ProbeAssumption DEF ProbeInv, BasesOK, Bases, OutputBase, Isolated, ToBazel, ToLocks
<1>0. step \in ToLocks => world.scenario = "lock-portability"
  BY DEF LocksOK
<1>1. CASE CheckFresh
  BY <1>1 DEF CheckFresh, Judge, FreshBase
<1>2. CASE CoreBuild
  BY <1>2 DEF CoreBuild, Judge, ServerUp, CoreEnvironment
<1>3. CASE VisitModule
  BY <1>3 DEF VisitModule
<1>4. CASE JudgeSubtree
  BY <1>4 DEF JudgeSubtree, Judge
<1>5. CASE FetchNdk
  BY <1>5 DEF FetchNdk, Judge, ServerUp
<1>6. CASE BazelFails
  BY <1>6 DEF BazelFails, Judge, ServerUp
<1>7. CASE Shutdown
  BY <1>7 DEF Shutdown, AskToStop
<1>8. CASE RemoveTemporary
  BY <1>8 DEF RemoveTemporary, CleanUp, Judge
<1>9. CASE StartLocks
  BY <1>9 DEF StartLocks, Judge
<1>10. CASE ResolveLock
  BY <1>0, <1>10 DEF ResolveLock, Judge, ServerUp, LockBase
<1>11. CASE StopServer
  BY <1>0, <1>11 DEF StopServer, AskToStop, LockBase
<1>12. CASE RemoveScratch
  BY <1>0, <1>12 DEF RemoveScratch, CleanUp, Judge
<1>13. CASE CompareLocks
  BY <1>0, <1>13 DEF CompareLocks, Judge
<1>14. CASE RunPlain
  BY <1>14 DEF RunPlain, Judge, ServerUp
<1>15. CASE Kill
  BY <1>0, <1>15 DEF Kill
<1>16. CASE ReadGraph
  BY <1>16 DEF ReadGraph
<1>17. CASE ReadLock
  BY <1>0, <1>17 DEF ReadLock, Judge, LockBase
<1>. QED BY <1>1, <1>2, <1>3, <1>4, <1>5, <1>6, <1>7, <1>8, <1>9, <1>10, <1>11, <1>12, <1>13, <1>14, <1>15, <1>16, <1>17 DEF ProbeNext

LEMMA VerdictStays ==
    ASSUME ProbeInv, ProbeNext
    PROVE  VerdictOK'
<1>. USE ProbeAssumption DEF ProbeInv, VerdictOK, OutputBase, Isolated, ToBazel, ToLocks
<1>1. CASE CheckFresh
  BY <1>1 DEF CheckFresh, Judge, FreshBase
<1>2. CASE CoreBuild
  BY <1>2 DEF CoreBuild, Judge, ServerUp, CoreEnvironment
<1>3. CASE VisitModule
  BY <1>3 DEF VisitModule
<1>4. CASE JudgeSubtree
  BY <1>4 DEF JudgeSubtree, Judge
<1>5. CASE FetchNdk
  BY <1>5 DEF FetchNdk, Judge, ServerUp
<1>6. CASE BazelFails
  BY <1>6 DEF BazelFails, Judge, ServerUp
<1>7. CASE Shutdown
  BY <1>7 DEF Shutdown, AskToStop
<1>8. CASE RemoveTemporary
  BY <1>8 DEF RemoveTemporary, CleanUp, Judge
<1>9. CASE StartLocks
  BY <1>9 DEF StartLocks, Judge
<1>10. CASE ResolveLock
  BY <1>10 DEF ResolveLock, Judge, ServerUp, LockBase
<1>11. CASE StopServer
  BY <1>11 DEF StopServer, AskToStop, LockBase
<1>12. CASE RemoveScratch
  BY <1>12 DEF RemoveScratch, CleanUp, Judge
<1>13. CASE CompareLocks
  BY <1>13 DEF CompareLocks, Judge
<1>14. CASE RunPlain
  BY <1>14 DEF RunPlain, Judge, ServerUp
<1>15. CASE Kill
  BY <1>15 DEF Kill
<1>16. CASE ReadGraph
  BY <1>16 DEF ReadGraph
<1>17. CASE ReadLock
  BY <1>17 DEF ReadLock, Judge, LockBase
<1>. QED BY <1>1, <1>2, <1>3, <1>4, <1>5, <1>6, <1>7, <1>8, <1>9, <1>10, <1>11, <1>12, <1>13, <1>14, <1>15, <1>16, <1>17 DEF ProbeNext

LEMMA FewLocks ==
    ASSUME NEW u, NEW v
    PROVE  /\ Append(<<>>, u) = <<u>> /\ Append(<<u>>, v) = <<u, v>> /\ <<u>> # <<>>
           /\ Len(<<>>) = 0 /\ Len(<<u>>) = 1 /\ Len(<<u, v>>) = 2
<1>1. Len(<<>>) = 0 /\ Len(<<u>>) = 1 /\ Len(<<u, v>>) = 2
  OBVIOUS
<1>2. Append(<<>>, u) = <<u>>
  OBVIOUS
<1>3. Append(<<u>>, v) = <<u, v>>
  <2>. DEFINE s == <<u>>
              t == <<u, v>>
              S == {u, v}
  <2>1. s \in Seq(S) /\ Len(s) = 1 /\ s[1] = u /\ v \in S
    OBVIOUS
  <2>2. t \in Seq(S) /\ Len(t) = 2 /\ t[1] = u /\ t[2] = v
    OBVIOUS
  <2>. HIDE DEF s, t, S
  <2>3. Append(s, v) \in Seq(S) /\ Len(Append(s, v)) = 2 /\ Append(s, v)[1] = u /\ Append(s, v)[2] = v
    <3>1. /\ Append(s, v) \in Seq(S) /\ Len(Append(s, v)) = Len(s) + 1
          /\ \A i \in 1..Len(s) : Append(s, v)[i] = s[i]
          /\ Append(s, v)[Len(s) + 1] = v
      <4>1. s \in Seq(S) /\ v \in S
        BY <2>1
      <4>. QED BY <4>1
    <3>2. Len(s) + 1 = 2 /\ 1 \in 1..Len(s)
      BY <2>1
    <3>. QED BY <2>1, <3>1, <3>2
  <2>4. \A i \in 1..2 : i = 1 \/ i = 2
    OBVIOUS
  <2>5. Append(s, v) = t
    BY <2>2, <2>3, <2>4, SameList
  <2>. QED BY <2>5 DEF s, t
<1>4. <<u>> # <<>>
  OBVIOUS
<1>. QED BY <1>1, <1>2, <1>3, <1>4

LEMMA LocksStays ==
    ASSUME ProbeInv, ProbeNext
    PROVE  LocksOK'
<1>. USE ProbeAssumption DEF ProbeInv, LocksOK, Unset, Set, ToLocks, WithoutNdk
<1>1. CASE CheckFresh
  BY <1>1 DEF CheckFresh, Judge, FreshBase
<1>2. CASE CoreBuild
  BY <1>2 DEF CoreBuild, Judge, ServerUp, CoreEnvironment
<1>3. CASE VisitModule
  BY <1>3 DEF VisitModule
<1>4. CASE JudgeSubtree
  BY <1>4 DEF JudgeSubtree, Judge
<1>5. CASE FetchNdk
  BY <1>5 DEF FetchNdk, Judge, ServerUp
<1>6. CASE BazelFails
  BY <1>6 DEF BazelFails, Judge, ServerUp
<1>7. CASE Shutdown
  BY <1>7 DEF Shutdown, AskToStop
<1>8. CASE RemoveTemporary
  BY <1>8 DEF RemoveTemporary, CleanUp, Judge
<1>9. CASE StartLocks
  BY <1>9 DEF StartLocks, Judge
<1>10. CASE ResolveLock
  BY <1>10 DEF ResolveLock, Judge
<1>11. CASE StopServer
  BY <1>11 DEF StopServer
<1>12. CASE RemoveScratch
  BY <1>12 DEF RemoveScratch, CleanUp, Judge
<1>13. CASE CompareLocks
  BY <1>13 DEF CompareLocks, Judge
<1>14. CASE RunPlain
  BY <1>14 DEF RunPlain, Judge, ServerUp
<1>15. CASE Kill
  BY <1>15 DEF Kill
<1>16. CASE ReadGraph
  BY <1>16 DEF ReadGraph
<1>17. CASE ReadLock
  <2>1. Append(<<>>, Unset) = <<Unset>> /\ Append(<<Unset>>, Set) = <<Unset, Set>> /\ <<Unset>> # <<>>
    BY FewLocks
  <2>2. locks \in {<<>>, <<Unset>>} /\ UNCHANGED world
    BY <1>17 DEF ReadLock
  <2>3. CASE locks = <<>>
    BY <1>17, <2>1, <2>2, <2>3 DEF ReadLock, Judge, LockEnvironment
  <2>4. CASE locks = <<Unset>>
    BY <1>17, <2>1, <2>2, <2>4 DEF ReadLock, Judge, LockEnvironment
  <2>. QED BY <2>2, <2>3, <2>4
<1>. QED BY <1>1, <1>2, <1>3, <1>4, <1>5, <1>6, <1>7, <1>8, <1>9, <1>10, <1>11, <1>12, <1>13, <1>14, <1>15, <1>16, <1>17 DEF ProbeNext

-----------------------------------------------------------------------------
(* The walk over the core module's dependencies. *)
Size == Cardinality(CoreModules)

LEMMA SizeIsNat ==
    /\ Size \in Nat /\ 0 \in 0..Size + 1 /\ Size \in 0..Size + 1 /\ Size + 1 \in 0..Size + 1
    /\ \A n \in 0..Size : n \in 0..Size + 1 /\ n + 1 \in 1..Size + 1 /\ (n + 1) - 1 = n
    /\ \A n \in 1..Size + 1 : n - 1 \in 0..Size
<1>1. Size \in Nat
  BY ProbeAssumption, FS_CardinalityType DEF Size
<1>. QED BY <1>1

IsDown(f, tree, n) ==
    /\ f = [i \in 0..n |-> f[i]]
    /\ f[0] = ToSet(tree) /\ \A i \in 1..n : f[i] = MentionedBy(f[i - 1])

LEMMA DownExists ==
    ASSUME NEW tree, NEW n \in Nat
    PROVE  \E f : IsDown(f, tree, n)
<1>. DEFINE T == {m \in 0..n : \E f : IsDown(f, tree, m)}
<1>1. 0 \in T
  <2>1. IsDown([i \in 0..0 |-> ToSet(tree)], tree, 0)
    BY DEF IsDown
  <2>. QED BY <2>1
<1>2. ASSUME NEW m \in 1..n, m - 1 \in T
      PROVE  m \in T
  <2>1. PICK f : IsDown(f, tree, m - 1)
    BY <1>2
  <2>. DEFINE g == [i \in 0..m |-> IF i = m THEN MentionedBy(f[m - 1]) ELSE f[i]]
  <2>2. /\ 0 \in 0..m /\ 0 # m /\ m \in 0..m /\ m - 1 \in 0..m /\ m - 1 # m
        /\ \A i \in 1..m : i = m \/ (i \in 1..(m - 1) /\ i # m /\ i - 1 # m /\ i \in 0..m /\ i - 1 \in 0..m)
    OBVIOUS
  <2>3. /\ g[0] = f[0] /\ g[m - 1] = f[m - 1] /\ g[m] = MentionedBy(f[m - 1])
        /\ \A i \in 1..(m - 1) : g[i] = f[i] /\ g[i - 1] = f[i - 1]
    BY <2>2
  <2>4. g = [i \in 0..m |-> g[i]]
    OBVIOUS
  <2>. HIDE DEF g
  <2>5. IsDown(g, tree, m)
    BY <2>1, <2>2, <2>3, <2>4 DEF IsDown
  <2>. QED BY <2>5
<1>. HIDE DEF T
<1>3. \A m \in 0..n : m \in T
  BY <1>1, <1>2, Upward
<1>4. n \in T
  BY <1>3
<1>. QED BY <1>4 DEF T

LEMMA MentionsAre ==
    ASSUME NEW tree
    PROVE  IsDown(Mentions(tree), tree, Size + 1)
<1>. DEFINE Is(f) == f = [n \in 0..Size + 1 |->
                             IF n = 0 THEN ToSet(tree) ELSE MentionedBy(f[n - 1])]
<1>1. PICK f : IsDown(f, tree, Size + 1)
  BY SizeIsNat, DownExists
<1>2. \A n \in 0..Size + 1 : f[n] = IF n = 0 THEN ToSet(tree) ELSE MentionedBy(f[n - 1])
  <2>1. \A n \in 0..Size + 1 : n = 0 \/ n \in 1..Size + 1
    BY SizeIsNat
  <2>. QED BY <1>1, <2>1 DEF IsDown
<1>3. f = [n \in 0..Size + 1 |-> f[n]]
  BY <1>1 DEF IsDown
<1>4. Is(f)
  BY <1>2, <1>3
<1>5. Mentions(tree) = CHOOSE g : Is(g)
  BY Zenon DEF Mentions, Size
<1>. DEFINE d == Mentions(tree)
<1>6. Is(d)
  BY <1>4, <1>5, Zenon
<1>. HIDE DEF d
<1>7. d[0] = ToSet(tree)
  BY <1>6, SizeIsNat
<1>8. ASSUME NEW i \in 1..Size + 1
      PROVE  d[i] = MentionedBy(d[i - 1])
  <2>1. i \in 0..Size + 1 /\ i # 0
    BY SizeIsNat
  <2>. QED BY <1>6, <2>1
<1>9. d = [i \in 0..Size + 1 |-> d[i]]
  BY <1>6
<1>. QED BY <1>7, <1>8, <1>9 DEF IsDown, d

LEMMA TreeIs ==
    /\ Tree(0) = ToSet(world.graph)
    /\ \A n \in 1..Size + 1 : Tree(n) = MentionedBy(Tree(n - 1))
BY MentionsAre DEF IsDown, Tree

LEMMA Deeper ==
    \A n \in 0..Size + 1 : \A k \in 0..n : Tree(k) \subseteq Tree(n)
<1>. DEFINE T == {n \in 0..Size + 1 : \A k \in 0..n : Tree(k) \subseteq Tree(n)}
<1>1. 0 \in T
  <2>1. \A k \in 0..0 : k = 0
    OBVIOUS
  <2>. QED BY <2>1, SizeIsNat
<1>2. ASSUME NEW n \in 1..Size + 1, n - 1 \in T
      PROVE  n \in T
  <2>1. Tree(n - 1) \subseteq Tree(n)
    BY TreeIs DEF MentionedBy
  <2>2. \A k \in 0..n : k = n \/ k \in 0..(n - 1)
    BY SizeIsNat
  <2>3. n \in 0..Size + 1
    BY SizeIsNat
  <2>4. \A k \in 0..(n - 1) : Tree(k) \subseteq Tree(n - 1)
    BY <1>2
  <2>5. \A k \in 0..n : Tree(k) \subseteq Tree(n)
    BY <2>1, <2>2, <2>4
  <2>. QED BY <2>3, <2>5
<1>. HIDE DEF T
<1>3. Size + 1 \in Nat
  BY SizeIsNat
<1>4. \A n \in 0..Size + 1 : n \in T
  BY <1>1, <1>2, <1>3, Upward
<1>. QED BY <1>4 DEF T

LEMMA DepsAreDeeper ==
    ASSUME NEW n \in 0..Size, NEW m \in Tree(n)
    PROVE  ToSet(m.deps) \subseteq Tree(n + 1)
<1>1. Tree(n + 1) = MentionedBy(Tree(n))
  <2>1. n + 1 \in 1..Size + 1 /\ (n + 1) - 1 = n
    BY SizeIsNat
  <2>. DEFINE k == n + 1
  <2>2. Tree(k) = MentionedBy(Tree(k - 1))
    BY <2>1, TreeIs
  <2>. QED BY <2>1, <2>2
<1>. QED BY <1>1 DEF MentionedBy

(* How many modules were met, as long as they are core's. *)
LEMMA MetSize ==
    ASSUME NEW set, set \subseteq CoreModules
    PROVE  Cardinality(set) \in 0..Size /\ IsFiniteSet(set)
<1>1. IsFiniteSet(set) /\ Cardinality(set) <= Size
  BY ProbeAssumption, FS_Subset DEF Size
<1>2. Cardinality(set) \in Nat
  BY <1>1, FS_CardinalityType
<1>. QED BY <1>1, <1>2, SizeIsNat

LEMMA MetBefore ==
    ASSUME ProbeInv, WalkInv, VisitModule, names' \subseteq CoreModules
    PROVE  /\ names \subseteq CoreModules /\ Cardinality(names) \in 0..Size
           /\ Last(unvisited) \in Tree(Cardinality(names))
           /\ Front(unvisited) \in Seq(Tree(Cardinality(names)))
           /\ ToSet(unvisited) = ToSet(Front(unvisited)) \cup {Last(unvisited)}
<1>1. step = "graph" /\ unvisited # <<>> /\ names \subseteq names'
  BY DEF VisitModule
<1>2. names \subseteq CoreModules
  BY <1>1
<1>. DEFINE S == Tree(Cardinality(names))
<1>3. unvisited \in Seq(S)
  BY <1>1, <1>2 DEF WalkInv, WalkOK
<1>. HIDE DEF S
<1>4. /\ Front(unvisited) \in Seq(S) /\ Last(unvisited) \in S
      /\ unvisited = Append(Front(unvisited), Last(unvisited))
  BY <1>1, <1>3, FrontIs
<1>5. ToSet(unvisited) = ToSet(Front(unvisited)) \cup {Last(unvisited)}
  <2>. DEFINE f == Front(unvisited)
              x == Last(unvisited)
  <2>. HIDE DEF f, x
  <2>1. f \in Seq(S) /\ x \in S
    BY <1>4 DEF f, x
  <2>2. ToSet(Append(f, x)) = ToSet(f) \cup {x}
    BY <2>1, ToSetAppend
  <2>. QED BY <1>4, <2>2 DEF f, x
<1>. QED BY <1>2, <1>4, <1>5, MetSize DEF S

LEMMA VisitStays ==
    ASSUME ProbeInv, WalkInv, VisitModule
    PROVE  WalkOK'
<1>. SUFFICES ASSUME names' \subseteq CoreModules
              PROVE  /\ unvisited' \in Seq(Tree(Cardinality(names')))
                     /\ \A m \in Tree(0) : m.name \in names' \cup Pending'
                     /\ \A n \in names' : \E m \in Tree(Cardinality(names')) :
                           m.name = n /\ DepNames(m) \subseteq names' \cup Pending'
  <2>1. world' = world
    BY DEF VisitModule
  <2>2. \A n : Tree(n)' = Tree(n)
    BY <2>1 DEF Tree
  <2>. QED BY <2>2 DEF WalkOK
<1>. DEFINE node == Last(unvisited)
            c == Cardinality(names)
            rest == Front(unvisited)
<1>1. /\ names \subseteq CoreModules /\ c \in 0..Size /\ node \in Tree(c) /\ rest \in Seq(Tree(c))
      /\ ToSet(unvisited) = ToSet(rest) \cup {node}
  BY MetBefore
<1>2. /\ step = "graph" /\ unvisited # <<>> /\ names' = names \cup {node.name}
      /\ unvisited' = rest \o (IF node.name \in names THEN <<>> ELSE node.deps)
  BY DEF VisitModule
<1>3. /\ \A m \in Tree(0) : m.name \in names \cup Pending
      /\ \A n \in names : \E m \in Tree(c) : m.name = n /\ DepNames(m) \subseteq names \cup Pending
  BY <1>1, <1>2 DEF WalkInv, WalkOK
<1>4. Pending = {d.name : d \in ToSet(rest)} \cup {node.name}
  BY <1>1 DEF Pending
<1>5. CASE node.name \in names
  <2>1. names' = names
    BY <1>2, <1>5
  <2>2. unvisited' = rest
    <3>. HIDE DEF rest, node
    <3>1. unvisited' = rest \o <<>>
      BY <1>2, <1>5
    <3>. QED BY <1>1, <3>1
  <2>3. Pending' = {d.name : d \in ToSet(rest)}
    BY <2>2 DEF Pending
  <2>4. names' \cup Pending' = names \cup Pending
    BY <1>4, <1>5, <2>1, <2>3
  <2>. QED BY <1>1, <1>3, <2>1, <2>2, <2>4
<1>6. CASE node.name \notin names
  <2>. DEFINE deps == node.deps
              S == Tree(c + 1)
  <2>1. Cardinality(names') = c + 1 /\ c + 1 \in 0..Size
    <3>1. Cardinality(names') = c + 1
      BY <1>1, <1>2, <1>6, MetSize, FS_AddElement
    <3>2. Cardinality(names') \in 0..Size
      BY MetSize
    <3>. QED BY <3>1, <3>2
  <2>2. unvisited' = rest \o deps
    BY <1>2, <1>6
  <2>3. Tree(c) \subseteq S
    <3>1. c \in 0..(c + 1) /\ c + 1 \in 0..Size + 1
      BY <1>1, SizeIsNat
    <3>. QED BY <3>1, Deeper
  <2>4. deps \in Seq(ToSet(deps)) /\ ToSet(deps) \subseteq S
    <3>1. c \in 0..Size + 1 /\ world \in Worlds
      BY <1>1, SizeIsNat DEF ProbeInv
    <3>2. deps \in Seq(ToSet(deps))
      BY <1>1, <3>1, ProbeAssumption DEF Tree, Size
    <3>. QED BY <1>1, <3>2, DepsAreDeeper
  <2>. HIDE DEF deps, S, rest
  <2>5. rest \in Seq(S) /\ deps \in Seq(S)
    BY <1>1, <2>3, <2>4, SeqOfMore
  <2>6. unvisited' \in Seq(S) /\ ToSet(unvisited') = ToSet(rest) \cup ToSet(deps)
    BY <2>2, <2>5, ToSetJoined
  <2>7. Pending' = {d.name : d \in ToSet(rest)} \cup {d.name : d \in ToSet(deps)}
    BY <2>6 DEF Pending
  <2>8. names' \cup Pending' = names \cup Pending \cup {d.name : d \in ToSet(deps)}
    BY <1>2, <1>4, <2>7
  <2>9. DepNames(node) = {d.name : d \in ToSet(deps)} /\ node \in S
    BY <1>1, <2>3 DEF DepNames, deps
  <2>10. names \cup Pending \subseteq names' \cup Pending' /\ DepNames(node) \subseteq names' \cup Pending'
    BY <2>8, <2>9
  <2>. HIDE DEF node
  <2>11. ASSUME NEW n \in names'
         PROVE  \E m \in S : m.name = n /\ DepNames(m) \subseteq names' \cup Pending'
    <3>1. CASE n \in names
      <4>1. PICK m \in Tree(c) : m.name = n /\ DepNames(m) \subseteq names \cup Pending
        BY <1>3, <3>1
      <4>. QED BY <2>3, <2>10, <4>1
    <3>2. CASE n = node.name
      BY <2>9, <2>10, <3>2
    <3>. QED BY <1>2, <2>11, <3>1, <3>2
  <2>. QED BY <1>3, <2>1, <2>6, <2>10, <2>11 DEF S
<1>. QED BY <1>5, <1>6

LEMMA WalkEnds ==
    ASSUME ProbeInv, WalkInv, step = "graph", unvisited = <<>>, names = CoreModules
    PROVE  ListedOnly
<1>1. Pending = {}
  BY DEF Pending, ToSet
<1>2. /\ \A m \in Tree(0) : m.name \in names
      /\ \A n \in names : \E m \in Tree(Size) : m.name = n /\ DepNames(m) \subseteq names
  BY <1>1 DEF WalkInv, WalkOK, Size
<1>. SUFFICES ASSUME MentionsAgree(world.graph)
              PROVE  TreeNames(world.graph) = CoreModules
  <2>1. {m.name : m \in ToSet(world.graph)} \subseteq CoreModules
    BY <1>2, TreeIs
  <2>. QED BY <1>2, <2>1 DEF ListedOnly, Size
<1>3. Tree(Size) \subseteq Tree(Size + 1)
  <2>1. Size \in 0..(Size + 1) /\ Size + 1 \in 0..Size + 1
    BY SizeIsNat
  <2>. QED BY <2>1, Deeper
<1>9. ASSUME NEW m \in Tree(Size), m.name \in names
      PROVE  DepNames(m) \subseteq names
  <2>1. PICK x \in Tree(Size) : x.name = m.name /\ DepNames(x) \subseteq names
    BY <1>2, <1>9
  <2>2. DepNames(m) = DepNames(x)
    BY <2>1 DEF MentionsAgree, Tree, Size
  <2>. QED BY <2>1, <2>2
<1>. DEFINE T == {n \in 0..Size + 1 : \A m \in Tree(n) : m.name \in names}
<1>4. 0 \in T
  BY <1>2, SizeIsNat
<1>5. ASSUME NEW n \in 1..Size + 1, n - 1 \in T
      PROVE  n \in T
  <2>1. n - 1 \in 0..Size /\ Size \in 0..Size + 1 /\ n \in 0..Size + 1
    BY SizeIsNat
  <2>. DEFINE k == n - 1
  <2>. HIDE DEF k
  <2>2. Tree(k) \subseteq Tree(Size)
    BY <2>1, Deeper DEF k
  <2>3. \A m \in Tree(k) : m.name \in names
    BY <1>5 DEF k
  <2>4. Tree(n) = MentionedBy(Tree(k))
    BY TreeIs DEF k
  <2>5. \A m \in Tree(n) : m.name \in names
    <3>1. ASSUME NEW x \in Tree(k), NEW m \in ToSet(x.deps)
          PROVE  m.name \in names
      <4>1. DepNames(x) \subseteq names
        BY <1>9, <2>2, <2>3
      <4>. QED BY <4>1 DEF DepNames
    <3>. QED BY <2>3, <2>4, <3>1 DEF MentionedBy
  <2>. QED BY <2>1, <2>5
<1>. HIDE DEF T
<1>6. Size + 1 \in Nat /\ Size + 1 \in 0..Size + 1
  BY SizeIsNat
<1>7. \A n \in 0..Size + 1 : n \in T
  BY <1>4, <1>5, <1>6, Upward
<1>8. \A m \in Tree(Size + 1) : m.name \in names
  BY <1>6, <1>7 DEF T
<1>10. TreeNames(world.graph) = {m.name : m \in Tree(Size + 1)}
  BY DEF TreeNames, Tree, Size
<1>11. names \subseteq {m.name : m \in Tree(Size + 1)}
  BY <1>2, <1>3
<1>. QED BY <1>8, <1>10, <1>11

LEMMA WalkStarts ==
    ASSUME ProbeInv, WalkInv, ReadGraph
    PROVE  WalkOK'
<1>1. names' = {} /\ unvisited' = world.graph /\ world' = world
  BY DEF ReadGraph, WalkInv
<1>2. Cardinality({}) = 0 /\ Tree(0) = ToSet(world.graph) /\ world.graph \in Seq(ToSet(world.graph))
  BY FS_EmptySet, TreeIs, ProbeAssumption DEF ProbeInv
<1>3. \A n : Tree(n)' = Tree(n)
  BY <1>1 DEF Tree
<1>4. Pending' = {m.name : m \in Tree(0)}
  BY <1>1, <1>2 DEF Pending
<1>. QED BY <1>1, <1>2, <1>3, <1>4 DEF WalkOK

LEMMA WalkStays ==
    ASSUME ProbeInv, WalkInv, ProbeNext
    PROVE  WalkInv'
<1>. USE DEF WalkInv
<1>1. world' = world /\ (ListedOnly' <=> ListedOnly)
  <2>1. world' = world
    BY DEF ProbeNext, CheckFresh, CoreBuild, ReadGraph, VisitModule, JudgeSubtree, FetchNdk,
           BazelFails, Shutdown, RemoveTemporary, StartLocks, ResolveLock, StopServer, ReadLock,
           RemoveScratch, CompareLocks, RunPlain, Kill
  <2>. QED BY <2>1 DEF ListedOnly, Tree
<1>2. CASE CheckFresh
  BY <1>1, <1>2 DEF CheckFresh, Judge
<1>3. CASE CoreBuild
  BY <1>1, <1>3 DEF CoreBuild, Judge, CoreEnvironment, ProbeInv, VerdictOK
<1>4. CASE VisitModule
  BY <1>1, <1>4, VisitStays DEF VisitModule
<1>5. CASE JudgeSubtree
  BY <1>1, <1>5, WalkEnds DEF JudgeSubtree, Judge
<1>6. CASE FetchNdk
  BY <1>1, <1>6 DEF FetchNdk, Judge
<1>7. CASE BazelFails
  BY <1>1, <1>7 DEF BazelFails, Judge
<1>8. CASE Shutdown \/ RemoveTemporary \/ StopServer \/ RemoveScratch \/ Kill
  BY <1>1, <1>8 DEF Shutdown, RemoveTemporary, StopServer, RemoveScratch, CleanUp, Judge, Kill
<1>9. CASE StartLocks
  BY <1>1, <1>9 DEF StartLocks, Judge
<1>10. CASE ResolveLock
  BY <1>1, <1>10 DEF ResolveLock, Judge
<1>11. CASE CompareLocks
  <2>1. world.scenario = "lock-portability"
    BY <1>11 DEF CompareLocks, ProbeInv, LocksOK, ToLocks
  <2>. QED BY <1>1, <1>11, <2>1 DEF CompareLocks
<1>12. CASE RunPlain
  BY <1>1, <1>12 DEF RunPlain
<1>13. CASE ReadGraph
  BY <1>1, <1>13, WalkStarts DEF ReadGraph
<1>14. CASE ReadLock
  BY <1>1, <1>14 DEF ReadLock, Judge
<1>. QED BY <1>2, <1>3, <1>4, <1>5, <1>6, <1>7, <1>8, <1>9, <1>10, <1>11, <1>12, <1>13, <1>14 DEF ProbeNext

LEMMA StepsStay ==
    ASSUME ProbeInv, ProbeNext
    PROVE  /\ world' \in Worlds /\ step' \in {"start", "done", "killed"} \cup ToBazel \cup ToLocks
           /\ step' \in ToBazel => world'.scenario \in Isolated
           /\ step' \in {"mod", "graph"} => world'.scenario = "core-isolation"
BY DEF ProbeInv, ToBazel, ToLocks, Isolated, ProbeNext, CheckFresh, CoreBuild, ReadGraph,
       VisitModule, JudgeSubtree, FetchNdk, BazelFails, Shutdown, RemoveTemporary, CleanUp,
       StartLocks, ResolveLock, StopServer, ReadLock, RemoveScratch, CompareLocks, RunPlain, Kill

LEMMA ProbeStays ==
    ASSUME ProbeInv, [ProbeNext]_probeVars
    PROVE  ProbeInv'
<1>1. CASE ProbeNext
  BY <1>1, StepsStay, BasesStays, VerdictStays, LocksStays DEF ProbeInv, Isolated
<1>2. CASE UNCHANGED probeVars
  BY <1>2 DEF probeVars, ProbeInv, BasesOK, VerdictOK, LocksOK, OutputBase, LockBase, Unset, Set, WithoutNdk
<1>. QED BY <1>1, <1>2

LEMMA ProbeInvariant == ProbeSpec => []ProbeInv
<1>1. ProbeInit => ProbeInv
  BY ProbeAssumption DEF ProbeInit, ProbeStart, ProbeInv, BasesOK, VerdictOK, LocksOK, Bases, ToBazel, ToLocks, OutputBase
<1>2. ProbeInv /\ [ProbeNext]_probeVars => ProbeInv'
  BY ProbeStays
<1>. QED BY <1>1, <1>2, PTL DEF ProbeSpec

LEMMA ProbeSays ==
    ASSUME ProbeInv
    PROVE  ProbeTypeOK /\ NothingLeftRunning /\ BlamesTheConsumer
<1>1. Len(locks) <= 2
  <2>1. Len(<<>>) = 0 /\ Len(<<Unset>>) = 1 /\ Len(<<Unset, Set>>) = 2
    BY FewLocks
  <2>2. locks \in {<<>>, <<Unset>>, <<Unset, Set>>}
    BY DEF ProbeInv, LocksOK
  <2>3. CASE locks = <<>>
    BY <2>1, <2>3
  <2>4. CASE locks = <<Unset>>
    BY <2>1, <2>4
  <2>5. CASE locks = <<Unset, Set>>
    BY <2>1, <2>5
  <2>. QED BY <2>2, <2>3, <2>4, <2>5
<1>2. ProbeTypeOK
  BY <1>1 DEF ProbeInv, ProbeTypeOK, BasesOK, VerdictOK
<1>3. NothingLeftRunning
  BY DEF ProbeInv, NothingLeftRunning, BasesOK, ToStop
<1>. QED BY <1>2, <1>3 DEF ProbeInv, VerdictOK, BlamesTheConsumer

LEMMA LocksSay ==
    ASSUME ProbeInv, world.scenario = "lock-portability", verdict = "passed",
           NEW e \in SUBSET {"ANDROID_HOME"}, e \subseteq world.environment,
           world.environment \subseteq e \cup {"ANDROID_NDK_HOME"}
    PROVE  world.lock[e] = world.lock[e \cup {"ANDROID_NDK_HOME"}]
<1>1. "ANDROID_NDK_HOME" \in world.environment /\ Unset = Set
  BY DEF ProbeInv, LocksOK
<1>2. world.environment = e \cup {"ANDROID_NDK_HOME"}
  BY <1>1
<1>3. WithoutNdk = e
  <2>1. "ANDROID_NDK_HOME" \notin e
    OBVIOUS
  <2>. QED BY <1>2, <2>1 DEF WithoutNdk
<1>. QED BY <1>1, <1>2, <1>3 DEF Unset, Set

(* android_toolchain_probe.py: whatever fails, and but for a kill, a scenario ends with a
   verdict; it has asked every server of its own to stop, leaves a directory of its own
   only when it failed to remove it, and blames the consumer for what the consumer
   fetched. *)
THEOREM NothingLeftCorrect == ProbeSpec => [](ProbeTypeOK /\ NothingLeftRunning /\ BlamesTheConsumer)
<1>1. ProbeSpec => []ProbeInv
  BY ProbeInvariant
<1>2. ProbeInv => ProbeTypeOK /\ NothingLeftRunning /\ BlamesTheConsumer
  BY ProbeSays
<1>. QED BY <1>1, <1>2, PTL

(* android_toolchain_probe.py: a scenario that passes means what PassMeansIsolation says,
   whatever the walk over the module graph comes upon first. *)
THEOREM ProbesMeanItCorrect == ProbeSpec => []ProbesMeanIt
<1>1. ProbeInit => WalkInv
  BY DEF ProbeInit, ProbeStart, WalkInv
<1>2. ProbeInv /\ WalkInv /\ [ProbeNext]_probeVars => WalkInv'
  <2>1. ProbeInv /\ WalkInv /\ ProbeNext => WalkInv'
    BY WalkStays
  <2>2. WalkInv /\ UNCHANGED probeVars => WalkInv'
    BY DEF probeVars, WalkInv, WalkOK, ListedOnly, Pending, Tree
  <2>. QED BY <2>1, <2>2
<1>3. ProbeInv /\ WalkInv => PassMeansIsolation
  BY LocksSay DEF WalkInv, ListedOnly, Tree, PassMeansIsolation
<1>4. ProbeSpec => []ProbeInv
  BY ProbeInvariant
<1>. QED BY <1>1, <1>2, <1>3, <1>4, NothingLeftCorrect, PTL DEF ProbeSpec, ProbesMeanIt
=============================================================================
