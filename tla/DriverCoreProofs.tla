--------------------------- MODULE DriverCoreProofs ---------------------------
(* Proofs about the driver core, for every suite, every choice of tests and
   every bound.                                                               *)
EXTENDS DriverCore, SequenceLemmas

-----------------------------------------------------------------------------
(* The suite is a tree, at any depth.  Its entries' groups are smaller than a group, and
   a set of groups has a smallest one: the least counterexample stands in for an
   induction.                                                                        *)

(* Groups are compared by the groups under them. *)
Inside(g) == Below[g] \cap Groups

LEMMA SmallestGroup ==
    ASSUME NEW T, T \subseteq Groups, T # {}
    PROVE  \E g \in T : \A h \in T : ~(Inside(h) \subseteq Inside(g) /\ Inside(h) # Inside(g))
<1>. DEFINE I == {Inside(g) : g \in T}
<1>1. I \subseteq FiniteSubsetsOf(Groups)
  <2>1. \A g \in T : Inside(g) \in SUBSET Groups
    BY DEF Inside
  <2>2. \A g \in T : IsFiniteSet(Inside(g))
    BY <2>1, RootAssumption, FS_Subset
  <2>. QED BY <2>1, <2>2 DEF FiniteSubsetsOf
<1>2. I # {}
  OBVIOUS
<1>. HIDE DEF I
<1>3. PICK x \in I : \A y \in I : ~(<<y, x>> \in StrictSubsetOrdering(Groups))
  BY <1>1, <1>2, WFMin, FS_StrictSubsetOrderingWellFounded
<1>4. PICK g \in T : x = Inside(g)
  BY <1>3, Zenon DEF I
<1>5. ASSUME NEW h \in T, Inside(h) \subseteq Inside(g), Inside(h) # Inside(g)
      PROVE  FALSE
  <2>1. Inside(h) \in I
    BY Zenon DEF I
  <2>2. Inside(h) \in SUBSET Groups /\ Inside(g) \in SUBSET Groups
    BY DEF Inside
  <2>3. <<Inside(h), Inside(g)>> \in StrictSubsetOrdering(Groups)
    BY <1>5, <2>2 DEF StrictSubsetOrdering
  <2>. QED BY <1>3, <1>4, <2>1, <2>3
<1>. QED BY <1>5

LEMMA EntryIsSmaller ==
    ASSUME NEW g \in Groups, NEW k \in 1..Len(Entries[g])
    PROVE  /\ Entries[g][k] \in Below[g] /\ Subtree(Entries[g][k]) \subseteq Below[g]
           /\ Entries[g][k] \in Groups =>
                 Inside(Entries[g][k]) \subseteq Inside(g) /\ Inside(Entries[g][k]) # Inside(g)
<1>1. Subtree(Entries[g][k]) \subseteq Below[g]
  BY TreeAssumption
<1>2. Entries[g][k] \in Subtree(Entries[g][k])
  BY DEF Subtree
<1>3. ASSUME Entries[g][k] \in Groups
      PROVE  Inside(Entries[g][k]) \subseteq Inside(g) /\ Inside(Entries[g][k]) # Inside(g)
  <2>1. Entries[g][k] \notin Below[Entries[g][k]]
    BY <1>3, TreeAssumption
  <2>. QED BY <1>1, <1>2, <1>3, <2>1 DEF Inside, Subtree
<1>. QED BY <1>1, <1>2, <1>3

(* What is under a group is under what holds the group. *)
LEMMA BelowIsTransitive ==
    ASSUME NEW g \in Groups, NEW h \in Groups \cap Below[g]
    PROVE  Below[h] \subseteq Below[g]
<1>. DEFINE T == {x \in Groups : \E y \in Groups \cap Below[x] : ~(Below[y] \subseteq Below[x])}
<1>1. SUFFICES T = {}
  OBVIOUS
<1>2. SUFFICES ASSUME T # {} PROVE FALSE
  OBVIOUS
<1>3. T \subseteq Groups
  OBVIOUS
<1>4. PICK x \in T : \A z \in T : ~(Inside(z) \subseteq Inside(x) /\ Inside(z) # Inside(x))
  <2>. HIDE DEF T
  <2>. QED BY <1>2, <1>3, SmallestGroup
<1>5. PICK y \in Groups \cap Below[x] : ~(Below[y] \subseteq Below[x])
  BY <1>4
<1>6. x \in Groups
  OBVIOUS
<1>7. PICK k \in 1..Len(Entries[x]) : y \in Subtree(Entries[x][k])
  BY <1>5, <1>6, TreeAssumption
<1>. DEFINE c == Entries[x][k]
<1>8. c \in Below[x] /\ Subtree(c) \subseteq Below[x]
      /\ (c \in Groups => Inside(c) \subseteq Inside(x) /\ Inside(c) # Inside(x))
  BY <1>6, EntryIsSmaller
<1>9. y # c
  BY <1>5, <1>8 DEF Subtree
<1>10. c \in Groups /\ y \in Below[c]
  BY <1>7, <1>9 DEF Subtree
<1>11. c \notin T
  BY <1>4, <1>8, <1>10
<1>12. Below[y] \subseteq Below[c]
  BY <1>10, <1>11
<1>. QED BY <1>5, <1>8, <1>10, <1>12 DEF Subtree

LEMMA RootHoldsAll ==
    /\ Ancestors(Root) = {}
    /\ Leaves \subseteq Below[Root]
    /\ \A g \in Groups : g \in Subtree(Root)
<1>1. Root \in Groups /\ Root \notin Below[Root] /\ Subtree(Root) = {Root} \cup Below[Root]
  BY SuiteAssumption, TreeAssumption DEF Subtree
<1>2. ASSUME NEW g \in Groups, Root \in Below[g]
      PROVE  FALSE
  <2>1. g \in Below[Root]
    BY <1>1, <1>2, RootAssumption DEF Nodes
  <2>. QED BY <1>1, <1>2, <2>1, BelowIsTransitive
<1>. QED BY <1>1, <1>2, SuiteAssumption, RootAssumption DEF Nodes, Ancestors

(* Two groups that hold something in common lie one in the other. *)
Nested(g, h) == \/ Subtree(g) \cap Subtree(h) = {}
                \/ g \in Subtree(h)
                \/ h \in Subtree(g)

LEMMA GroupsAreNested ==
    ASSUME NEW g \in Groups, NEW h \in Groups
    PROVE  Nested(g, h)
<1>. DEFINE T == {x \in Groups : \E y, z \in Groups \cap Subtree(x) : ~Nested(y, z)}
<1>1. SUFFICES ASSUME T # {} PROVE FALSE
  <2>1. Root \in Groups /\ g \in Subtree(Root) /\ h \in Subtree(Root)
    BY SuiteAssumption, RootHoldsAll
  <2>. QED BY <2>1
<1>2. T \subseteq Groups
  OBVIOUS
<1>3. PICK x \in T : \A z \in T : ~(Inside(z) \subseteq Inside(x) /\ Inside(z) # Inside(x))
  <2>. HIDE DEF T
  <2>. QED BY <1>1, <1>2, SmallestGroup
<1>4. PICK y, z \in Groups \cap Subtree(x) : ~Nested(y, z)
  BY <1>3
<1>5. x \in Groups /\ Subtree(x) = {x} \cup Below[x]
  BY DEF Subtree
<1>6. y # x /\ z # x
  BY <1>4 DEF Nested
<1>7. PICK k \in 1..Len(Entries[x]) : y \in Subtree(Entries[x][k])
  BY <1>4, <1>5, <1>6, TreeAssumption
<1>8. PICK m \in 1..Len(Entries[x]) : z \in Subtree(Entries[x][m])
  BY <1>4, <1>5, <1>6, TreeAssumption
<1>9. CASE k = m
  <2>1. Entries[x][k] \in Groups
    BY <1>4, <1>7, <1>8, <1>9 DEF Subtree, Nested
  <2>2. Entries[x][k] \in T
    BY <1>4, <1>7, <1>8, <1>9, <2>1
  <2>. HIDE DEF T
  <2>. QED BY <1>3, <1>5, <2>1, <2>2, EntryIsSmaller
<1>10. CASE k # m
  <2>1. \A e : \A w \in Groups \cap Subtree(e) : Subtree(w) \subseteq Subtree(e)
    BY BelowIsTransitive DEF Subtree
  <2>2. Subtree(Entries[x][k]) \cap Subtree(Entries[x][m]) = {}
    BY <1>5, <1>10, TreeAssumption
  <2>. QED BY <1>4, <1>7, <1>8, <2>1, <2>2 DEF Nested
<1>. QED BY <1>9, <1>10

(* What holds an entry of a group is the group, or holds the group. *)
LEMMA OneParent ==
    ASSUME NEW g \in Groups, NEW k \in 1..Len(Entries[g])
    PROVE  Ancestors(Entries[g][k]) = {g} \cup Ancestors(g)
<1>. DEFINE e == Entries[g][k]
<1>1. e \in Below[g] /\ e \in Subtree(e) /\ (e \in Groups => e \notin Below[e])
  BY EntryIsSmaller, TreeAssumption DEF Subtree
<1>2. ASSUME NEW h \in Ancestors(g)
      PROVE  h \in Ancestors(e)
  BY <1>1, <1>2, BelowIsTransitive DEF Ancestors
<1>3. ASSUME NEW h \in Ancestors(e), h # g
      PROVE  h \in Ancestors(g)
  <2>1. h \in Groups /\ e \in Below[h]
    BY DEF Ancestors
  <2>2. Nested(g, h) /\ e \in Subtree(g) /\ e \in Subtree(h)
    BY <1>1, <2>1, GroupsAreNested DEF Subtree
  <2>3. CASE g \in Subtree(h)
    BY <1>3, <2>1, <2>3 DEF Subtree, Ancestors
  <2>4. CASE h \in Subtree(g)
    <3>1. h \in Below[g]
      BY <1>3, <2>4 DEF Subtree
    <3>2. PICK m \in 1..Len(Entries[g]) : h \in Subtree(Entries[g][m])
      BY <3>1, TreeAssumption
    <3>3. CASE m = k
      <4>1. h # e
        BY <1>1, <2>1
      <4>2. e \in Groups /\ h \in Below[e]
        BY <3>2, <3>3, <4>1 DEF Subtree
      <4>. QED BY <1>1, <2>1, <4>2, BelowIsTransitive
    <3>4. CASE m # k
      <4>1. e \in Subtree(Entries[g][m])
        BY <2>1, <3>2, BelowIsTransitive DEF Subtree
      <4>2. Subtree(Entries[g][m]) \cap Subtree(Entries[g][k]) = {}
        BY <3>4, TreeAssumption
      <4>. QED BY <1>1, <4>1, <4>2
    <3>. QED BY <3>3, <3>4
  <2>. QED BY <2>2, <2>3, <2>4 DEF Nested
<1>. QED BY <1>1, <1>2, <1>3 DEF Ancestors

-----------------------------------------------------------------------------
(* Types.                                                                     *)

(* While a run is read, the agenda is at it. *)
Busy == pc \in {"drain", "end"} =>
           agenda # <<>> /\ Current.kind \in {"test", "setUp", "tearDown"}

LEMMA OneItem ==
    ASSUME NEW S, NEW x \in S
    PROVE  <<x>> \in Seq(S) /\ Len(<<x>>) = 1 /\ \A k \in 1..1 : <<x>>[k] = x
OBVIOUS

LEMMA EntryCallsType ==
    ASSUME NEW g \in Groups, NEW s \in BOOLEAN
    PROVE  EntryCalls(g, s) \in Seq(Item)
<1>1. Entries[g] \in Seq(Nodes) /\ Len(Entries[g]) \in Nat
  BY SuiteAssumption
<1>2. \A i \in 1..Len(Entries[g]) : EntryCalls(g, s)[i] \in Item
  <2> TAKE i \in 1..Len(Entries[g])
  <2>1. Entries[g][i] \in Nodes
    BY <1>1
  <2>2. EntryCalls(g, s)[i] =
          [kind |-> IF Entries[g][i] \in Groups THEN "group" ELSE "test",
           node |-> Entries[g][i], skip |-> s]
    BY DEF EntryCalls, Call, ToVisit
  <2>. QED BY <2>1, <2>2 DEF Item, Nodes
<1>3. EntryCalls(g, s) \in [1..Len(Entries[g]) -> Item]
  BY <1>2 DEF EntryCalls
<1>. QED BY <1>1, <1>3

LEMMA HookType ==
    ASSUME NEW g \in Groups, NEW s \in BOOLEAN
    PROVE  /\ Hook("setUp", g, SetUpOf, s) \in Seq(Item)
           /\ Hook("tearDown", g, TearDownOf, s) \in Seq(Item)
<1>1. Hook("setUp", g, SetUpOf, s) \in Seq(Item)
  <2>1. CASE ~s /\ g \in SetUpOf
    <3>1. Call("setUp", g, FALSE) \in Item
      BY <2>1 DEF Call, Item
    <3>2. Hook("setUp", g, SetUpOf, s) = <<Call("setUp", g, FALSE)>>
      BY <2>1 DEF Hook
    <3>. QED BY <3>1, <3>2, OneItem
  <2>2. CASE ~(~s /\ g \in SetUpOf)
    <3>1. Hook("setUp", g, SetUpOf, s) = <<>>
      BY <2>2 DEF Hook
    <3>. QED BY <3>1, EmptySeq
  <2>. QED BY <2>1, <2>2
<1>2. Hook("tearDown", g, TearDownOf, s) \in Seq(Item)
  <2>1. CASE ~s /\ g \in TearDownOf
    <3>1. Call("tearDown", g, FALSE) \in Item
      BY <2>1 DEF Call, Item
    <3>2. Hook("tearDown", g, TearDownOf, s) = <<Call("tearDown", g, FALSE)>>
      BY <2>1 DEF Hook
    <3>. QED BY <3>1, <3>2, OneItem
  <2>2. CASE ~(~s /\ g \in TearDownOf)
    <3>1. Hook("tearDown", g, TearDownOf, s) = <<>>
      BY <2>2 DEF Hook
    <3>. QED BY <3>1, EmptySeq
  <2>. QED BY <2>1, <2>2
<1>. QED BY <1>1, <1>2

LEMMA CallsOfType ==
    ASSUME NEW g \in Groups, NEW s \in BOOLEAN
    PROVE  CallsOf(g, s) \in Seq(Item)
BY HookType, EntryCallsType DEF CallsOf

LEMMA NameOfType ==
    ASSUME NEW item \in Item, item.kind # "group"
    PROVE  NameOf(item) \in Runs
BY DEF Item, NameOf, Runs

LEMMA SendType ==
    ASSUME TypeOK, NEW m \in Message, Send(m)
    PROVE  wire' \in Seq(Message) /\ Len(wire') \leq MaxWire
BY CoreAssumption DEF TypeOK, Send

LEMMA ReceivedType ==
    ASSUME TypeOK, Received
    PROVE  /\ wire' \in Seq(Message) /\ Len(wire') \leq MaxWire
           /\ Head(wire) \in Message
BY CoreAssumption DEF TypeOK, Received

(* A continuation that writes to the sink keeps pc and sink in their types. *)
LEMMA WriteType ==
    ASSUME TypeOK, NEW p \in {"load", "step", "drain", "complete"}, WriteThen(p)
    PROVE  pc' \in {p, "dead"} /\ sink' \in {"clean", "written", "bound"}
BY DEF TypeOK, WriteThen

LEMMA FinishType ==
    ASSUME TypeOK, NEW n \in CaseNames, NEW o \in Outcomes,
           NEW p \in {"step", "complete"}, Finish(n, o, p)
    PROVE  /\ cases' \in Seq(Case) /\ running' = Nothing
           /\ pc' \in {p, "dead"} /\ sink' \in {"clean", "written", "bound"}
<1>1. [name |-> n, outcome |-> o] \in Case
  BY DEF Case
<1>. QED BY <1>1 DEF TypeOK, Finish, WriteThen

LEMMA ListenerType ==
    ASSUME TypeOK, Busy, Listener
    PROVE  TypeOK' /\ Busy'
<1>1. CASE DeclarationPrints \/ SuiteAnswers \/ RootStrays
  <2>1. PICK t \in RootMessages : RootSays(t)
    BY <1>1 DEF DeclarationPrints, SuiteAnswers, RootStrays, RootMessages
  <2>2. wire' \in Seq(Message) /\ Len(wire') \leq MaxWire
    <3>1. [ch |-> Nothing, type |-> t] \in Message
      BY DEF Message
    <3>. QED BY <2>1, <3>1, SendType DEF RootSays
  <2>3. noise' \in 0..MaxNoise
    BY <1>1, CoreAssumption
       DEF DeclarationPrints, SuiteAnswers, RootStrays, Noisy, TypeOK
  <2>4. declared' \in BOOLEAN
    BY <1>1, Zenon DEF DeclarationPrints, SuiteAnswers, RootStrays, TypeOK
  <2>5. UNCHANGED <<opts, coreVars, body, verdict>>
    BY <1>1 DEF DeclarationPrints, SuiteAnswers, RootStrays
  <2>. QED BY <2>2, <2>3, <2>4, <2>5 DEF TypeOK, Busy, coreVars, Current
<1>2. ASSUME NEW r \in Runs, BodyChangesState(r)
      PROVE  TypeOK' /\ Busy'
  <2>1. PICK s \in Results : Send([ch |-> r, type |-> "state", result |-> s])
                             /\ verdict' \in {verdict, [verdict EXCEPT ![r] = s]}
    BY <1>2 DEF BodyChangesState
  <2>2. wire' \in Seq(Message) /\ Len(wire') \leq MaxWire
    <3>1. [ch |-> r, type |-> "state", result |-> s] \in Message
      BY DEF Message
    <3>. QED BY <2>1, <3>1, SendType
  <2>3. noise' \in 0..MaxNoise
    BY <1>2, CoreAssumption DEF BodyChangesState, Noisy, TypeOK
  <2>4. UNCHANGED <<opts, coreVars, declared, body>>
    BY <1>2 DEF BodyChangesState
  <2>. QED BY <2>1, <2>2, <2>3, <2>4, SMTT(30) DEF TypeOK, Busy, coreVars, Current
<1>3. ASSUME NEW r \in Runs, BodySays(r) \/ BodyCompletes(r)
      PROVE  TypeOK' /\ Busy'
  <2>1. PICK t \in RunMessages \cup {"complete"} : Send([ch |-> r, type |-> t])
    BY <1>3 DEF BodySays, BodyCompletes
  <2>2. wire' \in Seq(Message) /\ Len(wire') \leq MaxWire
    <3>1. [ch |-> r, type |-> t] \in Message
      BY DEF Message
    <3>. QED BY <2>1, <3>1, SendType
  <2>3. noise' \in 0..MaxNoise /\ body' \in [Runs -> {"idle", "running", "over"}]
    BY <1>3, CoreAssumption DEF BodySays, BodyCompletes, Noisy, TypeOK
  <2>4. UNCHANGED <<opts, coreVars, declared, verdict>>
    BY <1>3 DEF BodySays, BodyCompletes
  <2>. QED BY <2>2, <2>3, <2>4 DEF TypeOK, Busy, coreVars, Current
<1>. QED BY <1>1, <1>2, <1>3 DEF Listener

(* Steps that leave the wire and the listener alone, or only read from the
   wire. *)
LEMMA CoreStepType ==
    ASSUME TypeOK, Busy, CoreStep
    PROVE  TypeOK' /\ Busy'
<1>1. CASE LoadPrint
  <2>1. wire' \in Seq(Message) /\ Len(wire') \leq MaxWire
    BY <1>1, ReceivedType DEF LoadPrint
  <2>2. pc' \in {"load", "dead"} /\ sink' \in {"clean", "written", "bound"}
    BY <1>1, WriteType DEF LoadPrint
  <2>. QED BY <1>1, <2>1, <2>2 DEF LoadPrint, listenVars, TypeOK, Busy
<1>2. CASE LoadFails
  <2>1. wire' \in Seq(Message) /\ Len(wire') \leq MaxWire
    BY <1>2, ReceivedType DEF LoadFails
  <2>2. /\ cases' \in Seq(Case) /\ running' = Nothing
        /\ pc' \in {"complete", "dead"} /\ sink' \in {"clean", "written", "bound"}
    BY <1>2, FinishType DEF LoadFails, CaseNames, Outcomes
  <2>. QED BY <1>2, <2>1, <2>2 DEF LoadFails, listenVars, TypeOK, Busy
<1>3. CASE LoadSucceeds
  <2>1. wire' \in Seq(Message) /\ Len(wire') \leq MaxWire
    BY <1>3, ReceivedType DEF LoadSucceeds
  <2>2. chosen' \subseteq Leaves
    BY <1>3, CoreAssumption DEF LoadSucceeds, ChosenBy, TypeOK
  <2>3. agenda' \in Seq(Item)
    <3>1. [kind |-> "group", node |-> Root, skip |-> ~opts.testOn] \in Item
      BY SuiteAssumption, CoreAssumption DEF Item, TypeOK
    <3>. QED BY <1>3, <3>1, OneItem DEF LoadSucceeds
  <2>. QED BY <1>3, <2>1, <2>2, <2>3 DEF LoadSucceeds, listenVars, TypeOK, Busy
<1>4. CASE VisitGroup
  <2>1. Current \in Item /\ Current.kind = "group" /\ Tail(agenda) \in Seq(Item)
    BY <1>4 DEF VisitGroup, AtItem, Current, TypeOK
  <2>2. Current.node \in Groups /\ Current.skip \in BOOLEAN
    BY <2>1 DEF Item
  <2>3. CallsOf(Current.node, Current.skip \/ Current.node \in opts.skip)
          \in Seq(Item)
    BY <2>2, CallsOfType
  <2>4. agenda' \in Seq(Item)
    BY <1>4, <2>1, <2>3 DEF VisitGroup
  <2>. QED BY <1>4, <2>4 DEF VisitGroup, AtItem, listenVars, TypeOK, Busy
<1>5. CASE PassOver
  <2>1. agenda' \in Seq(Item)
    BY <1>5 DEF PassOver, AtItem, TypeOK
  <2>. QED BY <1>5, <2>1 DEF PassOver, AtItem, listenVars, TypeOK, Busy
<1>6. CASE SkipTest
  <2>1. Current \in Item /\ Current.kind = "test" /\ Tail(agenda) \in Seq(Item)
    BY <1>6 DEF SkipTest, AtCall, AtItem, Current, TypeOK
  <2>2. /\ cases' \in Seq(Case) /\ running' = Nothing
        /\ pc' \in {"step", "dead"} /\ sink' \in {"clean", "written", "bound"}
    BY <1>6, <2>1, NameOfType, FinishType DEF SkipTest, CaseNames, Outcomes
  <2>. QED BY <1>6, <2>1, <2>2 DEF SkipTest, listenVars, TypeOK, Busy
<1>7. CASE StartRun
  <2>1. Current \in Item /\ Current.kind \in {"test", "setUp", "tearDown"}
        /\ agenda # <<>>
    BY <1>7 DEF StartRun, AtCall, AtItem, Current, TypeOK
  <2>2. NameOf(Current) \in Runs
    BY <2>1, NameOfType
  <2>3. running' \in CaseNames \cup {Nothing}
        /\ body' \in [Runs -> {"idle", "running", "over"}]
    BY <1>7, <2>2 DEF StartRun, NowRunning, CaseNames, TypeOK
  <2>4. unsupported' \in BOOLEAN /\ declared' \in BOOLEAN
    BY <1>7, Zenon DEF StartRun, TypeOK
  <2>. QED BY <1>7, <2>1, <2>3, <2>4
           DEF StartRun, Current, Results, TypeOK, Busy
<1>8. CASE DrainText \/ DrainState \/ DrainUnknown \/ DrainSpawn \/ DrainComplete
  <2>1. PICK types \in SUBSET {"text", "state", "unknown", "stray", "spawn",
                              "complete"} : Drains(types)
    BY <1>8 DEF DrainText, DrainState, DrainUnknown, DrainSpawn, DrainComplete
  <2>2. /\ wire' \in Seq(Message) /\ Len(wire') \leq MaxWire
        /\ Head(wire) \in Message
    BY <2>1, ReceivedType DEF Drains
  <2>3. pc = "drain"
        /\ UNCHANGED <<opts, chosen, agenda, cases, running, listenVars>>
    BY <2>1 DEF Drains
  <2>4. result' \in Results \cup {"spawn"}
    <3>1. CASE DrainState
      <4>1. Head(wire).type = "state"
        BY <3>1 DEF DrainState, Drains
      <4>2. Head(wire).result \in Results
        BY <2>2, <4>1 DEF Message, RunMessages, RootMessages
      <4>. QED BY <3>1, <4>2 DEF DrainState
    <3>. QED BY <1>8, <3>1
             DEF DrainText, DrainUnknown, DrainSpawn, DrainComplete, Results, TypeOK
  <2>5. unsupported' \in BOOLEAN
    BY <1>8, Zenon
       DEF DrainText, DrainState, DrainUnknown, DrainSpawn, DrainComplete, TypeOK
  <2>6. pc' \in {"drain", "end", "dead"} /\ sink' \in {"clean", "written", "bound"}
    BY <1>8, <2>3, WriteType
       DEF DrainText, DrainState, DrainUnknown, DrainSpawn, DrainComplete, TypeOK
  <2>. QED BY <2>2, <2>3, <2>4, <2>5, <2>6
           DEF listenVars, TypeOK, Busy, Current
<1>9. CASE Dropped
  <2>1. wire' \in Seq(Message) /\ Len(wire') \leq MaxWire
    BY <1>9, ReceivedType DEF Dropped
  <2>. QED BY <1>9, <2>1 DEF Dropped, coreVars, listenVars, TypeOK, Busy, Current
<1>10. CASE HookSucceeds
  <2>1. agenda' \in Seq(Item)
    BY <1>10 DEF HookSucceeds, AtEnd, Busy, TypeOK
  <2>. QED BY <1>10, <2>1 DEF HookSucceeds, listenVars, TypeOK, Busy
<1>11. CASE HookFails
  <2>1. agenda # <<>> /\ Current \in Item /\ Current.kind \in {"setUp", "tearDown"}
        /\ Tail(agenda) \in Seq(Item)
    BY <1>11 DEF HookFails, AtEnd, Busy, Current, TypeOK
  <2>2. Current.node \in Groups /\ Len(Entries[Current.node]) \in Nat
    <3>1. Current.node \in SetUpOf \cup TearDownOf
      BY <2>1 DEF Item
    <3>. QED BY <3>1, SuiteAssumption
  <2>3. agenda' \in Seq(Item)
    <3>1. SubSeq(agenda, 2 + Len(Entries[Current.node]), Len(agenda)) \in Seq(Item)
      BY <2>1, <2>2 DEF TypeOK
    <3>. QED BY <1>11, <2>1, <3>1 DEF HookFails, AgendaAfterFailure
  <2>4. /\ cases' \in Seq(Case) /\ running' = Nothing
        /\ pc' \in {"step", "dead"} /\ sink' \in {"clean", "written", "bound"}
    BY <1>11, <2>1, NameOfType, FinishType
       DEF HookFails, CaseNames, Outcomes, OutcomeOf
  <2>. QED BY <1>11, <2>3, <2>4 DEF HookFails, listenVars, TypeOK, Busy
<1>12. CASE TestEnds
  <2>1. agenda # <<>> /\ Current \in Item /\ Current.kind = "test"
        /\ Tail(agenda) \in Seq(Item)
    BY <1>12 DEF TestEnds, AtEnd, Busy, Current, TypeOK
  <2>2. PICK o \in Outcomes : Finish(NameOf(Current), o, "step")
    BY <1>12 DEF TestEnds, Outcomes, OutcomeOf
  <2>3. /\ cases' \in Seq(Case) /\ running' = Nothing
        /\ pc' \in {"step", "dead"} /\ sink' \in {"clean", "written", "bound"}
    BY <2>1, <2>2, NameOfType, FinishType DEF CaseNames
  <2>. QED BY <1>12, <2>1, <2>3 DEF TestEnds, AgendaAfterTest, listenVars, TypeOK, Busy
<1>13. CASE AllVisited
  BY <1>13 DEF AllVisited, listenVars, TypeOK, Busy
<1>. QED BY <1>1, <1>2, <1>3, <1>4, <1>5, <1>6, <1>7, <1>8, <1>9, <1>10, <1>11,
            <1>12, <1>13 DEF CoreStep

LEMMA InitType == Init => TypeOK /\ Busy
<1>. SUFFICES ASSUME Init PROVE TypeOK /\ Busy
  OBVIOUS
<1>1. agenda \in Seq(Item) /\ cases \in Seq(Case) /\ wire \in Seq(Message)
      /\ Len(wire) \leq MaxWire
  BY CoreAssumption, EmptySeq DEF Init
<1>2. body \in [Runs -> {"idle", "running", "over"}]
      /\ verdict \in [Runs -> Results]
  BY DEF Init, Results
<1>3. noise \in 0..MaxNoise
  BY CoreAssumption DEF Init
<1>4. declared \in BOOLEAN /\ unsupported \in BOOLEAN
  BY DEF Init
<1>. QED BY <1>1, <1>2, <1>3, <1>4 DEF Init, TypeOK, Busy, CaseNames, Results

LEMMA NextType == TypeOK /\ Busy /\ [Next]_vars => TypeOK' /\ Busy'
<1>. SUFFICES ASSUME TypeOK, Busy, [Next]_vars PROVE TypeOK' /\ Busy'
  OBVIOUS
<1>1. CASE OnComplete
  BY <1>1 DEF OnComplete, listenVars, TypeOK, Busy
<1>2. CASE UNCHANGED vars
  BY <1>2 DEF vars, coreVars, listenVars, TypeOK, Busy, Current
<1>. QED BY <1>1, <1>2, ListenerType, CoreStepType DEF Next

(* Every variable of the driver core keeps its type, whatever the suite. *)
THEOREM CoreTypeCorrect == Spec => []TypeOK
<1>1. Init => TypeOK /\ Busy
  BY InitType
<1>2. TypeOK /\ Busy /\ [Next]_vars => TypeOK' /\ Busy'
  BY NextType
<1>. QED BY <1>1, <1>2, PTL DEF Spec

-----------------------------------------------------------------------------
(* Each position of the suite runs at most once.  The agenda never holds a
   position twice, and nothing it holds has been run or reported: this needs
   the suite to be a tree.                                                    *)

RunsUnder(item) == IF item.kind = "group"
                   THEN {r \in Runs : r[2] \in Subtree(item.node)}
                   ELSE {NameOf(item)}

Separate(ag) ==
    \A i, j \in 1..Len(ag) : i # j => RunsUnder(ag[i]) \cap RunsUnder(ag[j]) = {}

Untouched(r) == body[r] = "idle" /\ ~Reported(r)
FreshFrom(n) == \A i \in n..Len(agenda) : \A r \in RunsUnder(agenda[i]) : Untouched(r)

Once ==
    /\ Separate(agenda)
    /\ pc = "load" => agenda = <<>> /\ \A r \in Runs : Untouched(r)
    /\ pc \in {"load", "step"} => FreshFrom(1)
    /\ pc \in {"drain", "end"} => FreshFrom(2) /\ ~Reported(NameOf(Current))

LEMMA RunsUnderType ==
    ASSUME NEW item \in Item
    PROVE  RunsUnder(item) \subseteq Runs
BY NameOfType DEF RunsUnder

(* The calls of a group stand for parts of it that do not overlap: first its
   hooks, which stand for themselves. *)
LEMMA HookIsItself ==
    ASSUME NEW kind \in {"setUp", "tearDown"}, NEW g, NEW of, NEW s \in BOOLEAN,
           Hook(kind, g, of, s) \in Seq(Item)
    PROVE  /\ Len(Hook(kind, g, of, s)) \in {0, 1}
           /\ \A k \in 1..Len(Hook(kind, g, of, s)) :
                 RunsUnder(Hook(kind, g, of, s)[k]) = {<<kind, g>>} /\ g \in of
<1>1. CASE ~s /\ g \in of
  <2>1. Hook(kind, g, of, s) = <<Call(kind, g, FALSE)>>
    BY <1>1 DEF Hook
  <2>2. RunsUnder(Call(kind, g, FALSE)) = {<<kind, g>>}
    BY DEF RunsUnder, Call, NameOf
  <2>. QED BY <1>1, <2>1, <2>2, OneItem
<1>2. CASE ~(~s /\ g \in of)
  <2>1. Hook(kind, g, of, s) = <<>>
    BY <1>2 DEF Hook
  <2>. QED BY <2>1, EmptySeq
<1>. QED BY <1>1, <1>2

LEMMA CallsSeparate ==
    ASSUME NEW g \in Groups, NEW s \in BOOLEAN, NEW item \in Item,
           item.kind = "group", item.node = g
    PROVE  /\ Separate(CallsOf(g, s))
           /\ \A i \in 1..Len(CallsOf(g, s)) :
                 RunsUnder(CallsOf(g, s)[i]) \subseteq RunsUnder(item)
<1>. DEFINE A == Hook("setUp", g, SetUpOf, s)
            B == EntryCalls(g, s)
            C == Hook("tearDown", g, TearDownOf, s)
            n == Len(Entries[g])
            cs == CallsOf(g, s)
            Entry(k) == Entries[g][k]
<1>1. Entries[g] \in Seq(Nodes) /\ n \in Nat
  BY SuiteAssumption
<1>2. \A k \in 1..n : /\ B[k].node = Entry(k) /\ Entry(k) \in Nodes
                     /\ B[k].kind = IF Entry(k) \in Groups THEN "group" ELSE "test"
  BY <1>1 DEF EntryCalls, Call, ToVisit
<1>3. \A k \in 1..n : /\ RunsUnder(B[k]) \subseteq Runs
                     /\ \A r \in RunsUnder(B[k]) : r[2] \in Subtree(Entry(k))
  <2>. TAKE k \in 1..n
  <2>1. CASE Entry(k) \in Groups
    BY <1>2, <2>1 DEF RunsUnder
  <2>2. CASE Entry(k) \notin Groups
    <3>1. Entry(k) \in Leaves /\ RunsUnder(B[k]) = {<<"test", Entry(k)>>}
      BY <1>2, <2>2 DEF RunsUnder, NameOf, Nodes
    <3>2. Entry(k) \in Subtree(Entry(k))
      BY DEF Subtree
    <3>. QED BY <3>1, <3>2 DEF Runs
  <2>. QED BY <2>1, <2>2
<1>4. \A k \in 1..n : Subtree(Entry(k)) \subseteq Below[g]
  BY TreeAssumption
<1>5. \A k, m \in 1..n : k # m => Subtree(Entry(k)) \cap Subtree(Entry(m)) = {}
  BY TreeAssumption
<1>6. g \notin Below[g] /\ Subtree(g) = {g} \cup Below[g]
  BY TreeAssumption DEF Subtree
<1>7. RunsUnder(item) = {r \in Runs : r[2] \in {g} \cup Below[g]}
  BY <1>6 DEF RunsUnder
<1>8. A \in Seq(Item) /\ Len(A) \in {0, 1}
      /\ \A k \in 1..Len(A) : RunsUnder(A[k]) = {<<"setUp", g>>} /\ g \in SetUpOf
  BY HookType, HookIsItself
<1>9. C \in Seq(Item) /\ Len(C) \in {0, 1}
      /\ \A k \in 1..Len(C) : RunsUnder(C[k]) = {<<"tearDown", g>>} /\ g \in TearDownOf
  BY HookType, HookIsItself
<1>10. B \in Seq(Item) /\ Len(B) = n
  BY <1>1, EntryCallsType DEF EntryCalls
<1>. HIDE DEF A, B, C
<1>11. PICK a \in {0, 1}, c \in {0, 1} : Len(A) = a /\ Len(C) = c
  BY <1>8, <1>9
<1>12. /\ Len(cs) = a + n + c
       /\ \A i \in 1..a : RunsUnder(cs[i]) = {<<"setUp", g>>} /\ g \in SetUpOf
       /\ \A i \in a + 1..a + n : cs[i] = B[i - a] /\ i - a \in 1..n
       /\ \A i \in a + n + 1..a + n + c :
             RunsUnder(cs[i]) = {<<"tearDown", g>>} /\ g \in TearDownOf
  <2>1. cs = A \o B \o C
    BY DEF CallsOf, A, B, C
  <2>2. /\ Len(A \o B \o C) = Len(A) + Len(B) + Len(C)
        /\ \A i \in 1..Len(A) : (A \o B \o C)[i] = A[i]
        /\ \A i \in Len(A) + 1..Len(A) + Len(B) :
              (A \o B \o C)[i] = B[i - Len(A)] /\ i - Len(A) \in 1..Len(B)
        /\ \A i \in Len(A) + Len(B) + 1..Len(A) + Len(B) + Len(C) :
              /\ (A \o B \o C)[i] = C[i - Len(A) - Len(B)]
              /\ i - Len(A) - Len(B) \in 1..Len(C)
    <3>. HIDE DEF cs, n
    <3>. QED BY <1>8, <1>9, <1>10, ThreeParts
  <2>. HIDE DEF cs, n
  <2>3. /\ Len(cs) = a + n + c
        /\ \A i \in 1..a : cs[i] = A[i]
        /\ \A i \in a + 1..a + n : cs[i] = B[i - a] /\ i - a \in 1..n
        /\ \A i \in a + n + 1..a + n + c :
              cs[i] = C[i - a - n] /\ i - a - n \in 1..c
    BY <2>1, <2>2, <1>10, <1>11
  <2>4. ASSUME NEW i \in 1..a
        PROVE  RunsUnder(cs[i]) = {<<"setUp", g>>} /\ g \in SetUpOf
    BY <2>3, <1>8, <1>11
  <2>5. ASSUME NEW i \in a + n + 1..a + n + c
        PROVE  RunsUnder(cs[i]) = {<<"tearDown", g>>} /\ g \in TearDownOf
    BY <2>3, <1>9, <1>11
  <2>. QED BY <2>3, <2>4, <2>5
<1>. HIDE DEF cs, n
<1>13. \A i \in 1..a + n + c : RunsUnder(cs[i]) \subseteq RunsUnder(item)
  <2>. TAKE i \in 1..a + n + c
  <2>1. CASE i \in 1..a
    BY <2>1, <1>12, <1>7 DEF Runs
  <2>2. CASE i \in a + 1..a + n
    <3>1. i - a \in 1..n /\ cs[i] = B[i - a]
      BY <1>12, <2>2
    <3>. QED BY <3>1, <1>3, <1>4, <1>7
  <2>3. CASE i \in a + n + 1..a + n + c
    BY <2>3, <1>12, <1>7 DEF Runs
  <2>. QED BY <1>1, <2>1, <2>2, <2>3
<1>14. ASSUME NEW i \in 1..a + n + c, NEW j \in 1..a + n + c, i < j
       PROVE  RunsUnder(cs[i]) \cap RunsUnder(cs[j]) = {}
  <2>1. CASE i \in a + 1..a + n /\ j \in a + 1..a + n
    <3>1. /\ i - a \in 1..n /\ cs[i] = B[i - a]
          /\ j - a \in 1..n /\ cs[j] = B[j - a]
      BY <1>12, <2>1
    <3>2. i - a # j - a
      BY <1>14, <2>1, <1>1
    <3>. QED BY <3>1, <3>2, <1>3, <1>5
  <2>2. CASE i \in 1..a /\ j \in a + 1..a + n
    <3>1. j - a \in 1..n /\ cs[j] = B[j - a]
      BY <1>12, <2>2
    <3>2. \A r \in RunsUnder(cs[j]) : r[2] # g
      BY <3>1, <1>3, <1>4, <1>6
    <3>. QED BY <3>2, <2>2, <1>12
  <2>3. CASE i \in 1..a /\ j \in a + n + 1..a + n + c
    <3>1. RunsUnder(cs[i]) = {<<"setUp", g>>}
      BY <1>12, <2>3, Zenon
    <3>2. RunsUnder(cs[j]) = {<<"tearDown", g>>}
      BY <1>12, <2>3, Zenon
    <3>3. <<"setUp", g>> # <<"tearDown", g>>
      OBVIOUS
    <3>. QED BY <3>1, <3>2, <3>3, Zenon
  <2>4. CASE i \in a + 1..a + n /\ j \in a + n + 1..a + n + c
    <3>1. i - a \in 1..n /\ cs[i] = B[i - a]
      BY <1>12, <2>4
    <3>2. \A r \in RunsUnder(cs[i]) : r[2] # g
      BY <3>1, <1>3, <1>4, <1>6
    <3>. QED BY <3>2, <2>4, <1>12
  <2>5. ~(i \in 1..a /\ j \in 1..a)
    BY <1>14
  <2>6. ~(i \in a + n + 1..a + n + c /\ j \in a + n + 1..a + n + c)
    BY <1>14, <1>1
  <2>7. ~(j \in 1..a /\ i \notin 1..a) /\ ~(i \in a + n + 1..a + n + c /\ j \in a + 1..a + n)
    BY <1>14, <1>1
  <2>8. /\ i \in 1..a \/ i \in a + 1..a + n \/ i \in a + n + 1..a + n + c
        /\ j \in 1..a \/ j \in a + 1..a + n \/ j \in a + n + 1..a + n + c
    BY <1>1
  <2>. QED BY <2>1, <2>2, <2>3, <2>4, <2>5, <2>6, <2>7, <2>8
<1>15. Separate(cs)
  <2>. SUFFICES ASSUME NEW i \in 1..a + n + c, NEW j \in 1..a + n + c, i # j
                PROVE  RunsUnder(cs[i]) \cap RunsUnder(cs[j]) = {}
    BY <1>12 DEF Separate
  <2>1. i < j \/ j < i
    BY <1>1
  <2>. QED BY <2>1, <1>14
<1>. QED BY <1>12, <1>13, <1>15 DEF cs

(* What is left of an agenda, without its first calls. *)
IsRest(rest, ag) ==
    \/ rest = Tail(ag)
    \/ \E d \in Nat \ {0} : rest = SubSeq(ag, d + 1, Len(ag))

LEMMA RestSeparate ==
    ASSUME NEW ag \in Seq(Item), ag # <<>>, Separate(ag),
           NEW rest \in Seq(Item), IsRest(rest, ag)
    PROVE  /\ Separate(rest)
           /\ \A i \in 1..Len(rest) : \E j \in 2..Len(ag) : rest[i] = ag[j]
<1>0. PICK d \in Nat \ {0} :
         rest = SubSeq(ag, d + 1, Len(ag)) \/ (d = 1 /\ rest = Tail(ag))
  <2>1. CASE rest = Tail(ag)
    <3>1. 1 \in Nat \ {0}
      OBVIOUS
    <3>. QED BY <2>1, <3>1
  <2>2. CASE \E e \in Nat \ {0} : rest = SubSeq(ag, e + 1, Len(ag))
    BY <2>2
  <2>. QED BY <2>1, <2>2 DEF IsRest
<1>1. \A i \in 1..Len(rest) : i + d \in 2..Len(ag) /\ rest[i] = ag[i + d]
  <2>1. CASE rest = SubSeq(ag, d + 1, Len(ag))
    BY <2>1
  <2>2. CASE d = 1 /\ rest = Tail(ag)
    BY <2>2
  <2>. QED BY <1>0, <2>1, <2>2
<1>2. ASSUME NEW i \in 1..Len(rest), NEW j \in 1..Len(rest), i # j
      PROVE  RunsUnder(rest[i]) \cap RunsUnder(rest[j]) = {}
  <2>1. i + d # j + d /\ i + d \in 1..Len(ag) /\ j + d \in 1..Len(ag)
    BY <1>1, <1>2
  <2>2. RunsUnder(ag[i + d]) \cap RunsUnder(ag[j + d]) = {}
    BY <2>1 DEF Separate
  <2>. QED BY <1>1, <2>2
<1>. QED BY <1>1, <1>2 DEF Separate

LEMMA AppendReports ==
    ASSUME TypeOK, NEW n, NEW o, NEW p, Finish(n, o, p)
    PROVE  \A r : Reported(r)' <=> Reported(r) \/ r = n
<1>1. cases \in Seq(Case) /\ cases' = Append(cases, [name |-> n, outcome |-> o])
  BY DEF TypeOK, Finish
<1>2. /\ DOMAIN cases' = 1..Len(cases) + 1 /\ Len(cases) \in Nat
      /\ DOMAIN cases = 1..Len(cases)
      /\ \A k \in 1..Len(cases) : cases'[k] = cases[k]
      /\ cases'[Len(cases) + 1] = [name |-> n, outcome |-> o]
  BY <1>1
<1>. QED BY <1>2 DEF Reported

(* The current call is left, and its name may be reported. *)
OnlyCurrentReported ==
    \A r \in Runs : Reported(r)' =>
       Reported(r) \/ (Current.kind # "group" /\ r = NameOf(Current))

LEMMA LeaveCurrent ==
    ASSUME TypeOK, Once, agenda # <<>>, pc \in {"step", "drain", "end"},
           agenda' \in Seq(Item), body' = body,
           IsRest(agenda', agenda), OnlyCurrentReported
    PROVE  Separate(agenda') /\ FreshFrom(1)'
<1>1. /\ Separate(agenda')
      /\ \A i \in 1..Len(agenda') : \E j \in 2..Len(agenda) : agenda'[i] = agenda[j]
  <2>1. agenda \in Seq(Item) /\ Separate(agenda)
    BY DEF TypeOK, Once
  <2>. QED BY <2>1, RestSeparate
<1>2. ASSUME NEW i \in 1..Len(agenda'), NEW r \in RunsUnder(agenda'[i])
      PROVE  Untouched(r)'
  <2>1. PICK j \in 2..Len(agenda) : agenda'[i] = agenda[j]
    BY <1>1
  <2>2. FreshFrom(2)
    BY DEF Once, FreshFrom
  <2>3. Untouched(r)
    BY <2>1, <2>2 DEF FreshFrom
  <2>4. r \in Runs
    <3>1. agenda'[i] \in Item
      OBVIOUS
    <3>. QED BY <3>1, RunsUnderType
  <2>5. Current.kind # "group" => r # NameOf(Current)
    <3>1. 1 \in 1..Len(agenda) /\ j \in 1..Len(agenda) /\ j # 1
      BY DEF TypeOK
    <3>2. RunsUnder(agenda[1]) \cap RunsUnder(agenda[j]) = {}
      BY <3>1 DEF Once, Separate
    <3>3. Current = agenda[1]
      BY DEF Current, TypeOK
    <3>. QED BY <2>1, <3>2, <3>3 DEF RunsUnder
  <2>. QED BY <2>3, <2>4, <2>5 DEF Untouched, OnlyCurrentReported
<1>. QED BY <1>1, <1>2 DEF FreshFrom

LEMMA ListenerOnce ==
    ASSUME TypeOK, Once, Listener
    PROVE  Once'
<1>1. UNCHANGED coreVars
  BY DEF Listener, DeclarationPrints, SuiteAnswers, RootStrays, BodyChangesState,
         BodySays, BodyCompletes
<1>2. \A r \in Runs : body[r] = "idle" => body'[r] = "idle"
  BY DEF Listener, DeclarationPrints, SuiteAnswers, RootStrays, BodyChangesState,
         BodySays, BodyCompletes, TypeOK
<1>3. agenda' = agenda /\ pc' = pc /\ cases' = cases
  BY <1>1 DEF coreVars
<1>4. \A r \in Runs : Untouched(r) => Untouched(r)'
  BY <1>2, <1>3 DEF Untouched, Reported
<1>5. \A i \in 1..Len(agenda) : RunsUnder(agenda[i]) \subseteq Runs
  BY RunsUnderType DEF TypeOK
<1>6. FreshFrom(1) => FreshFrom(1)'
  BY <1>3, <1>4, <1>5 DEF FreshFrom
<1>7. FreshFrom(2) => FreshFrom(2)'
  BY <1>3, <1>4, <1>5 DEF FreshFrom
<1>. QED BY <1>3, <1>4, <1>6, <1>7 DEF Once, Reported, Current

LEMMA VisitOnce ==
    ASSUME TypeOK, Once, VisitGroup
    PROVE  Once'
<1>. DEFINE cs == CallsOf(Current.node, Current.skip \/ Current.node \in opts.skip)
            new == IF HasChosen(Current.node, chosen) THEN cs ELSE <<>>
            rest == Tail(agenda)
<1>1. pc = "step" /\ pc' = "step" /\ agenda # <<>> /\ Current.kind = "group"
      /\ agenda' = new \o rest /\ body' = body /\ cases' = cases
  BY DEF VisitGroup, AtItem, listenVars
<1>2. Current \in Item /\ Current = agenda[1] /\ rest \in Seq(Item)
      /\ 1 \in 1..Len(agenda)
  BY <1>1 DEF Current, TypeOK
<1>3. Current.node \in Groups /\ Current.skip \in BOOLEAN
  BY <1>1, <1>2 DEF Item
<1>4. cs \in Seq(Item) /\ Separate(cs)
      /\ \A i \in 1..Len(cs) : RunsUnder(cs[i]) \subseteq RunsUnder(Current)
  BY <1>1, <1>2, <1>3, CallsOfType, CallsSeparate, ZenonT(60)
<1>5. new \in Seq(Item) /\ Separate(new)
      /\ \A i \in 1..Len(new) : RunsUnder(new[i]) \subseteq RunsUnder(Current)
  <2>1. Separate(<<>>) /\ <<>> \in Seq(Item) /\ Len(<<>>) = 0
    BY EmptySeq DEF Separate
  <2>. HIDE DEF cs
  <2>. QED BY <1>4, <2>1
<1>6. Separate(rest) /\ \A i \in 1..Len(rest) : \E j \in 2..Len(agenda) : rest[i] = agenda[j]
  <2>1. agenda \in Seq(Item) /\ Separate(agenda)
    BY DEF TypeOK, Once
  <2>2. IsRest(rest, agenda)
    BY DEF IsRest
  <2>. QED BY <1>1, <1>2, <2>1, <2>2, RestSeparate
<1>7. \A j \in 2..Len(agenda) : RunsUnder(Current) \cap RunsUnder(agenda[j]) = {}
  <2>1. \A j \in 2..Len(agenda) : j \in 1..Len(agenda) /\ j # 1
    BY <1>2 DEF TypeOK
  <2>2. Separate(agenda)
    BY DEF Once
  <2>. QED BY <1>2, <2>1, <2>2 DEF Separate
<1>8. FreshFrom(1)
  BY <1>1 DEF Once
<1>. HIDE DEF new, rest
<1>9. /\ agenda' \in Seq(Item) /\ Len(agenda') = Len(new) + Len(rest)
      /\ Len(new) \in Nat /\ Len(rest) \in Nat
      /\ \A i \in 1..Len(new) : agenda'[i] = new[i]
      /\ \A i \in Len(new) + 1..Len(new) + Len(rest) :
            agenda'[i] = rest[i - Len(new)] /\ i - Len(new) \in 1..Len(rest)
  BY <1>1, <1>2, <1>5
<1>10. ASSUME NEW i \in 1..Len(agenda'), NEW j \in 1..Len(agenda'), i < j
       PROVE  RunsUnder(agenda'[i]) \cap RunsUnder(agenda'[j]) = {}
  <2>1. CASE j \in 1..Len(new)
    <3>1. i \in 1..Len(new) /\ i # j
      BY <1>9, <1>10, <2>1
    <3>. QED BY <1>5, <1>9, <2>1, <3>1 DEF Separate
  <2>2. CASE i \in 1..Len(new) /\ j \in Len(new) + 1..Len(new) + Len(rest)
    <3>1. PICK k \in 2..Len(agenda) : agenda'[j] = agenda[k]
      BY <1>6, <1>9, <2>2
    <3>2. RunsUnder(agenda'[i]) \subseteq RunsUnder(Current)
      BY <1>5, <1>9, <2>2
    <3>. QED BY <3>1, <3>2, <1>7
  <2>3. CASE i \in Len(new) + 1..Len(new) + Len(rest) /\ j \in Len(new) + 1..Len(new) + Len(rest)
    <3>1. /\ agenda'[i] = rest[i - Len(new)] /\ i - Len(new) \in 1..Len(rest)
          /\ agenda'[j] = rest[j - Len(new)] /\ j - Len(new) \in 1..Len(rest)
          /\ i - Len(new) # j - Len(new)
      BY <1>9, <1>10, <2>3
    <3>2. \A k, m \in 1..Len(rest) : k # m => RunsUnder(rest[k]) \cap RunsUnder(rest[m]) = {}
      BY <1>6 DEF Separate
    <3>. QED BY <3>1, <3>2
  <2>. QED BY <1>9, <1>10, <2>1, <2>2, <2>3
<1>11. Separate(agenda')
  <2>. SUFFICES ASSUME NEW i \in 1..Len(agenda'), NEW j \in 1..Len(agenda'), i # j
                PROVE  RunsUnder(agenda'[i]) \cap RunsUnder(agenda'[j]) = {}
    BY DEF Separate
  <2>1. i < j \/ j < i
    BY <1>9
  <2>. QED BY <2>1, <1>10
<1>12. FreshFrom(1)'
  <2>. SUFFICES ASSUME NEW i \in 1..Len(agenda'), NEW r \in RunsUnder(agenda'[i])
                PROVE  Untouched(r)
    BY <1>1 DEF FreshFrom, Untouched, Reported
  <2>1. CASE i \in 1..Len(new)
    <3>1. r \in RunsUnder(agenda[1])
      BY <1>2, <1>5, <1>9, <2>1
    <3>. QED BY <3>1, <1>2, <1>8 DEF FreshFrom
  <2>2. CASE i \in Len(new) + 1..Len(new) + Len(rest)
    <3>1. PICK k \in 2..Len(agenda) : agenda'[i] = agenda[k]
      BY <1>6, <1>9, <2>2
    <3>. QED BY <3>1, <1>8 DEF FreshFrom
  <2>. QED BY <1>9, <2>1, <2>2
<1>. QED BY <1>1, <1>11, <1>12 DEF Once

LEMMA CoreStepOnce ==
    ASSUME TypeOK, Busy, Once, CoreStep
    PROVE  Once'
<1>. USE CoreStepType
<1>1. CASE LoadPrint
  BY <1>1 DEF LoadPrint, WriteThen, listenVars, Once, FreshFrom, Untouched, Reported
<1>2. CASE LoadFails
  BY <1>2 DEF LoadFails, Finish, WriteThen, Once, Separate
<1>3. CASE LoadSucceeds
  <2>1. Len(agenda') = 1 /\ agenda'[1] \in Item /\ pc' = "step"
        /\ \A r \in Runs : Untouched(r)'
    BY <1>3 DEF LoadSucceeds, listenVars, Once, Untouched, Reported, TypeOK
  <2>2. Separate(agenda')
    BY <2>1 DEF Separate
  <2>3. FreshFrom(1)'
    BY <2>1, RunsUnderType DEF FreshFrom
  <2>. QED BY <2>1, <2>2, <2>3 DEF Once
<1>4. CASE VisitGroup
  BY <1>4, VisitOnce
<1>5. CASE PassOver
  <2>1. agenda # <<>> /\ pc = "step" /\ agenda' = Tail(agenda) /\ body' = body
        /\ pc' = "step" /\ cases' = cases
    BY <1>5 DEF PassOver, AtItem, listenVars
  <2>2. agenda' \in Seq(Item) /\ IsRest(agenda', agenda)
    BY <2>1 DEF TypeOK, IsRest
  <2>3. OnlyCurrentReported
    <3>1. \A r \in Runs : Reported(r)' <=> Reported(r)
      BY <2>1 DEF Reported
    <3>. QED BY <3>1, Zenon DEF OnlyCurrentReported
  <2>4. Separate(agenda') /\ FreshFrom(1)'
    BY <2>1, <2>2, <2>3, LeaveCurrent
  <2>. QED BY <2>1, <2>4 DEF Once
<1>6. CASE SkipTest \/ TestEnds \/ HookFails
  <2>1. /\ agenda # <<>> /\ pc \in {"step", "end"} /\ Current.kind # "group"
        /\ body' = body /\ \E o : Finish(NameOf(Current), o, "step")
    BY <1>6 DEF SkipTest, TestEnds, HookFails, AtCall, AtItem, AtEnd, Busy, listenVars
  <2>2. IsRest(agenda', agenda)
    <3>1. CASE agenda' = Tail(agenda)
      BY <3>1 DEF IsRest
    <3>2. CASE HookFails /\ Current.kind # "tearDown"
      <4>1. Current \in Item /\ Current.kind = "setUp"
        BY <2>1, <3>2 DEF HookFails, AtEnd, Current, TypeOK
      <4>2. Current.node \in Groups
        BY <4>1, SuiteAssumption DEF Item
      <4>3. Len(Entries[Current.node]) \in Nat
        BY <4>2, SuiteAssumption
      <4>4. 1 + Len(Entries[Current.node]) \in Nat \ {0}
            /\ (1 + Len(Entries[Current.node])) + 1 = 2 + Len(Entries[Current.node])
        BY <4>3
      <4>5. agenda' = SubSeq(agenda, 2 + Len(Entries[Current.node]), Len(agenda))
        BY <3>2 DEF HookFails, AgendaAfterFailure
      <4>. QED BY <4>4, <4>5 DEF IsRest
    <3>. QED BY <1>6, <3>1, <3>2
             DEF SkipTest, TestEnds, HookFails, AgendaAfterFailure, AgendaAfterTest
  <2>3. agenda' \in Seq(Item)
    BY DEF TypeOK
  <2>4. OnlyCurrentReported
    <3>1. \A r : Reported(r)' <=> Reported(r) \/ r = NameOf(Current)
      BY <2>1, AppendReports
    <3>. QED BY <2>1, <3>1, Zenon DEF OnlyCurrentReported
  <2>5. Separate(agenda') /\ FreshFrom(1)'
    BY <2>1, <2>2, <2>3, <2>4, LeaveCurrent
  <2>6. pc' \in {"step", "dead"}
    BY <2>1 DEF Finish, WriteThen
  <2>. QED BY <2>5, <2>6 DEF Once
<1>7. CASE StartRun
  <2>1. /\ agenda # <<>> /\ pc = "step" /\ pc' = "drain" /\ Current.kind # "group"
        /\ agenda' = agenda /\ cases' = cases
        /\ body' = [body EXCEPT ![NameOf(Current)] = "running"]
    BY <1>7 DEF StartRun, AtCall, AtItem
  <2>2. Current = agenda[1] /\ 1 \in 1..Len(agenda)
    BY <2>1 DEF Current, TypeOK
  <2>3. NameOf(Current) \in RunsUnder(agenda[1]) /\ FreshFrom(1)
    BY <2>1, <2>2 DEF RunsUnder, Once
  <2>4. \A r \in Runs : r # NameOf(Current) /\ Untouched(r) => Untouched(r)'
    BY <2>1 DEF Untouched, Reported, TypeOK
  <2>5. ASSUME NEW j \in 2..Len(agenda), NEW r \in RunsUnder(agenda[j])
        PROVE  Untouched(r)'
    <3>1. r # NameOf(Current)
      BY <2>2, <2>3 DEF Once, Separate
    <3>2. Untouched(r) /\ r \in Runs
      BY <2>3, RunsUnderType DEF FreshFrom, TypeOK
    <3>. QED BY <2>4, <3>1, <3>2
  <2>6. ~Reported(NameOf(Current))'
    BY <2>1, <2>2, <2>3 DEF FreshFrom, Untouched, Reported, Current
  <2>. QED BY <2>1, <2>5, <2>6 DEF Once, FreshFrom
<1>8. CASE DrainText \/ DrainState \/ DrainUnknown \/ DrainSpawn \/ DrainComplete
           \/ Dropped
  <2>1. /\ agenda' = agenda /\ cases' = cases /\ body' = body
        /\ \/ pc' = pc
           \/ pc = "drain" /\ pc' \in {"end", "dead"}
    BY <1>8 DEF DrainText, DrainState, DrainUnknown, DrainSpawn, DrainComplete,
                Dropped, Drains, WriteThen, coreVars, listenVars
  <2>. QED BY <2>1, ZenonT(60) DEF Once, FreshFrom, Untouched, Reported, Current
<1>9. CASE HookSucceeds
  <2>1. agenda # <<>> /\ pc = "end" /\ agenda' = Tail(agenda) /\ body' = body
        /\ pc' = "step" /\ cases' = cases
    BY <1>9 DEF HookSucceeds, AtEnd, Busy, listenVars
  <2>2. agenda' \in Seq(Item) /\ IsRest(agenda', agenda)
    BY <2>1 DEF TypeOK, IsRest
  <2>3. OnlyCurrentReported
    <3>1. \A r \in Runs : Reported(r)' <=> Reported(r)
      BY <2>1 DEF Reported
    <3>. QED BY <3>1, Zenon DEF OnlyCurrentReported
  <2>4. Separate(agenda') /\ FreshFrom(1)'
    BY <2>1, <2>2, <2>3, LeaveCurrent
  <2>. QED BY <2>1, <2>4 DEF Once
<1>10. CASE AllVisited
  BY <1>10 DEF AllVisited, Once
<1>. QED BY <1>1, <1>2, <1>3, <1>4, <1>5, <1>6, <1>7, <1>8, <1>9, <1>10 DEF CoreStep

-----------------------------------------------------------------------------
(* The core leaves a run only when the listener has completed it, or the run
   has asked for spawnHybridUri and is reported as failing.  A 'complete' on
   the wire is of a run that is over, since no run is ever started again.      *)

CompleteIsTrue ==
    \A k \in 1..Len(wire) : wire[k].type = "complete" => body[wire[k].ch] = "over"

EndsOver == pc = "end" => body[NameOf(Current)] = "over" \/ result = "spawn"

IInv == TypeOK /\ Busy /\ Once /\ CompleteIsTrue /\ EndsOver /\ OneRunAtATime

(* The 'complete' messages on the wire after a message was sent or received. *)
LEMMA SendTrue ==
    ASSUME TypeOK, CompleteIsTrue, NEW m \in Message, Send(m),
           m.type = "complete" => body'[m.ch] = "over",
           \A r \in Runs : body[r] = "over" => body'[r] = "over"
    PROVE  CompleteIsTrue'
<1>1. /\ Len(wire) \in Nat /\ Len(wire') = Len(wire) + 1
      /\ wire'[Len(wire) + 1] = m
      /\ \A k \in 1..Len(wire) : wire'[k] = wire[k] /\ wire[k] \in Message
  BY DEF TypeOK, Send
<1>2. \A k \in 1..Len(wire) : wire[k].type = "complete" => wire[k].ch \in Runs
  BY <1>1 DEF Message, RunMessages, RootMessages
<1>. QED BY <1>1, <1>2 DEF CompleteIsTrue

LEMMA ReceiveTrue ==
    ASSUME TypeOK, CompleteIsTrue, Received, body' = body
    PROVE  CompleteIsTrue'
<1>1. \A k \in 1..Len(wire') : k + 1 \in 1..Len(wire) /\ wire'[k] = wire[k + 1]
  BY DEF TypeOK, Received
<1>. QED BY <1>1 DEF CompleteIsTrue

LEMMA ListenerInv ==
    ASSUME IInv, Listener
    PROVE  IInv'
<1>1. TypeOK' /\ Busy' /\ Once'
  BY ListenerType, ListenerOnce DEF IInv
<1>2. UNCHANGED <<pc, agenda, cases, result>>
  BY DEF Listener, DeclarationPrints, SuiteAnswers, RootStrays, BodyChangesState,
         BodySays, BodyCompletes, coreVars
<1>3. \A r \in Runs : body[r] = "over" => body'[r] = "over"
  BY DEF Listener, DeclarationPrints, SuiteAnswers, RootStrays, BodyChangesState,
         BodySays, BodyCompletes, IInv, TypeOK
<1>4. \A r \in Runs : body'[r] = "running" => body[r] = "running"
  BY DEF Listener, DeclarationPrints, SuiteAnswers, RootStrays, BodyChangesState,
         BodySays, BodyCompletes, IInv, TypeOK
<1>5. PICK m \in Message :
         Send(m) /\ (m.type = "complete" => body'[m.ch] = "over")
  <2>1. CASE \E t \in RootMessages : RootSays(t)
    <3>1. PICK t \in RootMessages : Send([ch |-> Nothing, type |-> t])
      BY <2>1 DEF RootSays
    <3>2. /\ [ch |-> Nothing, type |-> t] \in Message
          /\ [ch |-> Nothing, type |-> t].type # "complete"
      BY DEF Message, RootMessages
    <3>. QED BY <3>1, <3>2
  <2>2. ASSUME NEW r \in Runs, BodyChangesState(r)
        PROVE  \E m \in Message :
                  Send(m) /\ (m.type = "complete" => body'[m.ch] = "over")
    <3>1. PICK s \in Results : Send([ch |-> r, type |-> "state", result |-> s])
      BY <2>2 DEF BodyChangesState
    <3>2. /\ [ch |-> r, type |-> "state", result |-> s] \in Message
          /\ [ch |-> r, type |-> "state", result |-> s].type # "complete"
      BY DEF Message
    <3>. QED BY <3>1, <3>2
  <2>3. ASSUME NEW r \in Runs, BodySays(r)
        PROVE  \E m \in Message :
                  Send(m) /\ (m.type = "complete" => body'[m.ch] = "over")
    <3>1. PICK t \in RunMessages : Send([ch |-> r, type |-> t])
      BY <2>3 DEF BodySays
    <3>2. /\ [ch |-> r, type |-> t] \in Message
          /\ [ch |-> r, type |-> t].type # "complete"
      BY DEF Message, RunMessages
    <3>. QED BY <3>1, <3>2
  <2>4. ASSUME NEW r \in Runs, BodyCompletes(r)
        PROVE  \E m \in Message :
                  Send(m) /\ (m.type = "complete" => body'[m.ch] = "over")
    <3>1. Send([ch |-> r, type |-> "complete"]) /\ body'[r] = "over"
      BY <2>4 DEF BodyCompletes, IInv, TypeOK
    <3>2. /\ [ch |-> r, type |-> "complete"] \in Message
          /\ [ch |-> r, type |-> "complete"].ch = r
      BY DEF Message
    <3>. QED BY <3>1, <3>2
  <2>5. DeclarationPrints \/ SuiteAnswers \/ RootStrays =>
           \E t \in RootMessages : RootSays(t)
    BY DEF DeclarationPrints, SuiteAnswers, RootStrays, RootMessages
  <2>. QED BY <2>1, <2>2, <2>3, <2>4, <2>5 DEF Listener
<1>6. CompleteIsTrue'
  BY <1>3, <1>5, SendTrue DEF IInv
<1>7. EndsOver'
  <2>1. pc = "end" => NameOf(Current) \in Runs
    <3>1. pc = "end" => Current \in Item /\ Current.kind # "group"
      BY DEF IInv, Busy, TypeOK, Current
    <3>. QED BY <3>1, NameOfType
  <2>. QED BY <1>2, <1>3, <2>1 DEF IInv, EndsOver, Current
<1>8. OneRunAtATime'
  <2>1. \A r : ReportedFailing(r)' <=> ReportedFailing(r)
    BY <1>2 DEF ReportedFailing
  <2>2. \A r : IsCurrent(r)' <=> IsCurrent(r)
    BY <1>2 DEF IsCurrent, Current
  <2>. QED BY <1>2, <1>4, <2>1, <2>2 DEF IInv, OneRunAtATime
<1>. QED BY <1>1, <1>6, <1>7, <1>8 DEF IInv

(* What _finish adds stays, and a failing outcome makes its run failing. *)
LEMMA FinishFails ==
    ASSUME TypeOK, NEW n, NEW o, NEW p, Finish(n, o, p)
    PROVE  /\ \A r : ReportedFailing(r) => ReportedFailing(r)'
           /\ \A r : r = n /\ o \in {"fail", "error"} => ReportedFailing(r)'
<1>1. cases \in Seq(Case) /\ cases' = Append(cases, [name |-> n, outcome |-> o])
  BY DEF TypeOK, Finish
<1>2. /\ DOMAIN cases' = 1..Len(cases) + 1 /\ Len(cases) \in Nat
      /\ DOMAIN cases = 1..Len(cases)
      /\ \A k \in 1..Len(cases) : cases'[k] = cases[k]
      /\ cases'[Len(cases) + 1] = [name |-> n, outcome |-> o]
      /\ Len(cases) + 1 \in 1..Len(cases) + 1
  BY <1>1
<1>3. ASSUME o \in {"fail", "error"}
      PROVE  ReportedFailing(n)'
  BY <1>2, <1>3 DEF ReportedFailing, Failing
<1>4. ASSUME NEW r, ReportedFailing(r)
      PROVE  ReportedFailing(r)'
  BY <1>2, <1>4 DEF ReportedFailing, Failing
<1>. QED BY <1>3, <1>4

LEMMA CoreStepInv ==
    ASSUME IInv, CoreStep
    PROVE  IInv'
<1>1. TypeOK' /\ Busy' /\ Once'
  BY CoreStepType, CoreStepOnce DEF IInv
<1>2. TypeOK /\ Busy /\ Once /\ CompleteIsTrue /\ EndsOver /\ OneRunAtATime
  BY DEF IInv
<1>3. ASSUME agenda # <<>>, Current.kind # "group"
      PROVE  NameOf(Current) \in Runs
  <2>1. Current \in Item
    BY <1>2, <1>3 DEF Current, TypeOK
  <2>. QED BY <1>3, <2>1, NameOfType
<1>4. CASE StartRun
  <2>1. /\ agenda # <<>> /\ pc = "step" /\ pc' = "drain" /\ Current.kind # "group"
        /\ agenda' = agenda /\ cases' = cases /\ wire' = wire
        /\ body' = [body EXCEPT ![NameOf(Current)] = "running"]
    BY <1>4 DEF StartRun, AtCall, AtItem
  <2>2. NameOf(Current) \in Runs
    BY <1>3, <2>1
  <2>3. body[NameOf(Current)] = "idle"
    <3>1. NameOf(Current) \in RunsUnder(agenda[1]) /\ 1 \in 1..Len(agenda)
      BY <1>2, <2>1 DEF RunsUnder, Current, TypeOK
    <3>2. FreshFrom(1)
      BY <1>2, <2>1 DEF Once
    <3>. QED BY <3>1, <3>2 DEF FreshFrom, Untouched
  <2>4. CompleteIsTrue'
    <3>1. \A k \in 1..Len(wire) : wire[k] \in Message
      BY <1>2 DEF TypeOK
    <3>2. \A k \in 1..Len(wire) : wire[k].type = "complete" => wire[k].ch \in Runs
      BY <3>1 DEF Message, RunMessages, RootMessages
    <3>. QED BY <1>2, <2>1, <2>2, <2>3, <3>2 DEF CompleteIsTrue, TypeOK
  <2>5. OneRunAtATime'
    <3>1. \A r : ReportedFailing(r)' <=> ReportedFailing(r)
      BY <2>1 DEF ReportedFailing
    <3>2. \A r \in Runs : r = NameOf(Current) => IsCurrent(r)'
      BY <2>1 DEF IsCurrent, Current
    <3>3. \A r \in Runs : r # NameOf(Current) => body'[r] = body[r]
      BY <1>2, <2>1 DEF TypeOK
    <3>4. \A r \in Runs : body[r] = "running" => ReportedFailing(r)
      BY <1>2, <2>1 DEF OneRunAtATime, IsCurrent
    <3>. QED BY <3>1, <3>2, <3>3, <3>4 DEF OneRunAtATime
  <2>. QED BY <1>1, <2>1, <2>4, <2>5 DEF IInv, EndsOver
<1>5. ASSUME ~StartRun
      PROVE  body' = body /\ (wire' = wire \/ Received)
  BY <1>5 DEF CoreStep, LoadPrint, LoadFails, LoadSucceeds, VisitGroup, PassOver,
         SkipTest, DrainText, DrainState, DrainUnknown, DrainSpawn, DrainComplete,
         Dropped, HookSucceeds, HookFails, TestEnds, AllVisited, Drains, listenVars
<1>6. ASSUME ~StartRun
      PROVE  CompleteIsTrue'
  <2>1. CASE Received
    BY <1>2, <1>5, <1>6, <2>1, ReceiveTrue
  <2>2. CASE wire' = wire
    BY <1>2, <1>5, <1>6, <2>2 DEF CompleteIsTrue
  <2>. QED BY <1>5, <1>6, <2>1, <2>2
<1>7. CASE LoadPrint \/ LoadFails \/ LoadSucceeds
  <2>1. pc = "load" /\ pc' # "end" /\ body' = body
    BY <1>7 DEF LoadPrint, LoadFails, LoadSucceeds, Finish, WriteThen, listenVars
  <2>2. \A r \in Runs : body[r] = "idle"
    BY <1>2, <2>1 DEF Once, Untouched
  <2>3. ~StartRun
    BY <2>1 DEF StartRun, AtCall, AtItem
  <2>4. CompleteIsTrue'
    BY <1>6, <2>3
  <2>. QED BY <1>1, <2>1, <2>2, <2>4 DEF IInv, EndsOver, OneRunAtATime
<1>8. CASE VisitGroup \/ PassOver \/ AllVisited
  <2>1. pc = "step" /\ pc' \in {"step", "complete"} /\ body' = body /\ wire' = wire
        /\ cases' = cases
    BY <1>8 DEF VisitGroup, PassOver, AllVisited, AtItem, listenVars
  <2>2. \A r : ReportedFailing(r)' <=> ReportedFailing(r)
    BY <2>1 DEF ReportedFailing
  <2>3. OneRunAtATime'
    BY <1>2, <2>1, <2>2 DEF OneRunAtATime, IsCurrent
  <2>. QED BY <1>1, <1>2, <2>1, <2>3 DEF IInv, EndsOver, CompleteIsTrue
<1>9. CASE DrainText \/ DrainState \/ DrainUnknown \/ DrainSpawn \/ DrainComplete
           \/ Dropped
  <2>1. /\ agenda' = agenda /\ cases' = cases /\ body' = body /\ Received
        /\ \/ pc' = pc
           \/ pc = "drain" /\ pc' \in {"end", "dead"}
        /\ pc = "end" => result' = result
    BY <1>9 DEF DrainText, DrainState, DrainUnknown, DrainSpawn, DrainComplete,
                Dropped, Drains, WriteThen, coreVars, listenVars
  <2>2. \A r : ReportedFailing(r)' <=> ReportedFailing(r)
    BY <2>1 DEF ReportedFailing
  <2>3. OneRunAtATime'
    BY <1>2, <2>1, <2>2 DEF OneRunAtATime, IsCurrent, Current
  <2>4. CompleteIsTrue'
    BY <1>2, <2>1, ReceiveTrue
  <2>5. EndsOver'
    <3>1. CASE pc = "end"
      BY <1>2, <2>1, <3>1 DEF EndsOver, Current
    <3>2. CASE pc # "end" /\ pc' = "end"
      <4>1. DrainSpawn \/ DrainComplete
        BY <1>9, <3>2 DEF DrainText, DrainState, DrainUnknown, Dropped, Drains,
                          WriteThen, coreVars
      <4>2. CASE DrainSpawn
        BY <4>2 DEF DrainSpawn, EndsOver
      <4>3. CASE DrainComplete
        <5>1. /\ wire # <<>> /\ Head(wire).type = "complete"
              /\ Head(wire).ch \in {NameOf(Current), Nothing}
          BY <4>3 DEF DrainComplete, Drains, Received
        <5>2. Head(wire) = wire[1] /\ 1 \in 1..Len(wire) /\ wire[1] \in Message
          BY <1>2, <5>1 DEF TypeOK
        <5>3. wire[1].ch \in Runs
          BY <5>1, <5>2 DEF Message, RunMessages, RootMessages
        <5>4. Nothing \notin Runs
          BY DEF Nothing, Runs
        <5>5. body[NameOf(Current)] = "over"
          BY <1>2, <5>1, <5>2, <5>3, <5>4 DEF CompleteIsTrue
        <5>. QED BY <2>1, <5>5 DEF EndsOver, Current
      <4>. QED BY <4>1, <4>2, <4>3
    <3>3. CASE pc' # "end"
      BY <3>3 DEF EndsOver
    <3>. QED BY <3>1, <3>2, <3>3
  <2>. QED BY <1>1, <2>3, <2>4, <2>5 DEF IInv
<1>10. CASE SkipTest \/ TestEnds \/ HookFails
  <2>1. PICK o : /\ Finish(NameOf(Current), o, "step")
                 /\ pc = "end" /\ result = "spawn" => o = "fail"
    BY <1>10 DEF SkipTest, TestEnds, HookFails, OutcomeOf, AtCall, AtItem
  <2>2. agenda # <<>> /\ pc \in {"step", "end"} /\ Current.kind # "group"
        /\ body' = body /\ wire' = wire /\ pc' \in {"step", "dead"}
    BY <1>2, <1>10 DEF SkipTest, TestEnds, HookFails, AtCall, AtItem, AtEnd, Busy,
                       Finish, WriteThen, listenVars
  <2>3. /\ \A r : ReportedFailing(r) => ReportedFailing(r)'
        /\ \A r : r = NameOf(Current) /\ o = "fail" => ReportedFailing(r)'
    BY <1>2, <2>1, FinishFails
  <2>4. ASSUME NEW r \in Runs, body[r] = "running"
        PROVE  ReportedFailing(r)'
    <3>1. CASE IsCurrent(r)
      <4>1. pc = "end" /\ r = NameOf(Current)
        BY <2>2, <3>1 DEF IsCurrent
      <4>2. result = "spawn"
        BY <1>2, <2>4, <4>1 DEF EndsOver
      <4>. QED BY <2>1, <2>3, <4>1, <4>2
    <3>2. CASE ReportedFailing(r)
      BY <2>3, <3>2
    <3>. QED BY <1>2, <2>2, <2>4, <3>1, <3>2 DEF OneRunAtATime
  <2>5. OneRunAtATime'
    BY <2>2, <2>4 DEF OneRunAtATime
  <2>. QED BY <1>1, <1>2, <2>2, <2>5 DEF IInv, EndsOver, CompleteIsTrue
<1>11. CASE HookSucceeds
  <2>1. pc = "end" /\ pc' = "step" /\ result = "success" /\ body' = body
        /\ wire' = wire /\ cases' = cases
    BY <1>11 DEF HookSucceeds, AtEnd, listenVars
  <2>2. \A r : ReportedFailing(r)' <=> ReportedFailing(r)
    BY <2>1 DEF ReportedFailing
  <2>3. body[NameOf(Current)] = "over"
    BY <1>2, <2>1 DEF EndsOver
  <2>4. OneRunAtATime'
    BY <1>2, <2>1, <2>2, <2>3 DEF OneRunAtATime, IsCurrent
  <2>. QED BY <1>1, <1>2, <2>1, <2>4 DEF IInv, EndsOver, CompleteIsTrue
<1>. QED BY <1>4, <1>7, <1>8, <1>9, <1>10, <1>11 DEF CoreStep

LEMMA InitInv == Init => IInv
<1>. SUFFICES ASSUME Init PROVE IInv
  OBVIOUS
<1>1. TypeOK /\ Busy
  BY InitType
<1>2. Once
  <2>1. \A r \in Runs : Untouched(r)
    BY DEF Init, Untouched, Reported
  <2>. QED BY <2>1 DEF Init, Once, Separate, FreshFrom
<1>3. CompleteIsTrue
  BY DEF Init, CompleteIsTrue
<1>4. EndsOver /\ OneRunAtATime
  BY DEF Init, EndsOver, OneRunAtATime
<1>. QED BY <1>1, <1>2, <1>3, <1>4 DEF IInv

LEMMA OnCompleteInv == ASSUME IInv, OnComplete PROVE IInv'
<1>1. TypeOK' /\ Busy'
  BY NextType DEF IInv, Next
<1>2. pc = "complete" /\ pc' = "done" /\ UNCHANGED <<agenda, cases, wire, body>>
  BY DEF OnComplete, listenVars
<1>3. \A r : ReportedFailing(r)' <=> ReportedFailing(r)
  BY <1>2 DEF ReportedFailing
<1>4. OneRunAtATime'
  BY <1>2, <1>3 DEF IInv, OneRunAtATime, IsCurrent
<1>. QED BY <1>1, <1>2, <1>4 DEF IInv, Once, CompleteIsTrue, EndsOver

LEMMA NextInv == IInv /\ [Next]_vars => IInv'
<1>. SUFFICES ASSUME IInv, [Next]_vars PROVE IInv'
  OBVIOUS
<1>1. CASE UNCHANGED vars
  BY <1>1 DEF vars, coreVars, listenVars, IInv, TypeOK, Busy, Once, FreshFrom,
              Untouched, Reported, CompleteIsTrue, EndsOver, OneRunAtATime,
              IsCurrent, ReportedFailing, Current
<1>. QED BY <1>1, ListenerInv, CoreStepInv, OnCompleteInv DEF Next

(* A run is started from rest, and only ever completes after that. *)
LEMMA RunsForward ==
    ASSUME IInv, Next, NEW r \in Runs
    PROVE  /\ body[r] = "running" => body'[r] # "idle"
           /\ body[r] = "over" => body'[r] = "over"
<1>1. CASE Listener
  BY <1>1 DEF Listener, DeclarationPrints, SuiteAnswers, RootStrays, BodySays,
              BodyChangesState, BodyCompletes, IInv, TypeOK
<1>2. CASE StartRun
  <2>1. /\ agenda # <<>> /\ pc = "step" /\ Current.kind # "group"
        /\ body' = [body EXCEPT ![NameOf(Current)] = "running"]
    BY <1>2 DEF StartRun, AtCall, AtItem
  <2>2. NameOf(Current) \in RunsUnder(agenda[1]) /\ 1 \in 1..Len(agenda)
    BY <2>1 DEF RunsUnder, Current, IInv, TypeOK
  <2>3. body[NameOf(Current)] = "idle"
    BY <2>1, <2>2 DEF IInv, Once, FreshFrom, Untouched
  <2>. QED BY <2>1, <2>3 DEF IInv, TypeOK
<1>3. CASE (CoreStep /\ ~StartRun) \/ OnComplete
  BY <1>3 DEF CoreStep, LoadPrint, LoadFails, LoadSucceeds, VisitGroup, PassOver,
         SkipTest, DrainText, DrainState, DrainUnknown, DrainSpawn, DrainComplete,
         Dropped, HookSucceeds, HookFails, TestEnds, AllVisited, OnComplete, Drains,
         listenVars
<1>4. CASE CoreStep /\ StartRun
  BY <1>2, <1>4
<1>. QED BY <1>1, <1>3, <1>4 DEF Next

(* For every suite: a test, a setUpAll or a tearDownAll is run at most once. *)
THEOREM OneRunPerCaseCorrect == Spec => OneRunPerCase
<1>1. IInv /\ [Next]_vars =>
         [\A r \in Runs : /\ body[r] = "running" => body'[r] # "idle"
                         /\ body[r] = "over" => body'[r] = "over"]_vars
  BY RunsForward
<1>. QED BY <1>1, InitInv, NextInv, PTL DEF Spec, OneRunPerCase

(* For every suite: the core moves on from a run only when the listener has
   completed it, unless the run is reported as failing. *)
THEOREM OneRunCorrect == Spec => []OneRunAtATime
<1>1. IInv => OneRunAtATime
  BY DEF IInv
<1>. QED BY <1>1, InitInv, NextInv, PTL DEF Spec

-----------------------------------------------------------------------------
(* Every chosen test is accounted for.  Until the suite is done, a chosen test is
   reported, lies under a reported setUpAll, or is still on the agenda; a setUpAll on
   the agenda is followed by its group's entries, which its failure drops.           *)

Pending(t) ==
    \E i \in 1..Len(agenda) :
        agenda[i].kind \in {"test", "group"} /\ t \in Subtree(agenda[i].node)

AccountedFor(t) ==
    \/ Reported(<<"test", t>>)
    \/ \E g \in Ancestors(t) \cap SetUpOf : ReportedFailing(<<"setUp", g>>)

EntriesFollow ==
    \A i \in 1..Len(agenda) : agenda[i].kind = "setUp" =>
        /\ i + Len(Entries[agenda[i].node]) \leq Len(agenda)
        /\ \A k \in 1..Len(Entries[agenda[i].node]) :
              agenda[i + k].node = Entries[agenda[i].node][k]

Accounts ==
    pc \in {"step", "drain", "end", "complete", "done"} /\ ~ReportedFailing(Load) =>
        /\ chosen = ChosenBy(opts.match, opts.shard)
        /\ \A t \in Leaves : IF t \in chosen THEN AccountedFor(t) \/ Pending(t)
                                             ELSE ~Reported(<<"test", t>>)

ChosenInv ==
    /\ pc = "load" => cases = <<>> /\ agenda = <<>>
    /\ pc \in {"complete", "done"} /\ ~ReportedFailing(Load) => agenda = <<>>
    /\ pc \in {"drain", "end"} /\ Current.kind = "test" => Current.node \in chosen
    /\ EntriesFollow
    /\ Accounts

(* What is left of the agenda keeps its order, and what it stood for. *)
LEMMA SuffixFollows ==
    ASSUME agenda \in Seq(Item), EntriesFollow, NEW m \in Nat, m \leq Len(agenda),
           agenda' \in Seq(Item), Len(agenda') = Len(agenda) - m,
           \A i \in 1..Len(agenda') : agenda'[i] = agenda[i + m]
    PROVE  /\ EntriesFollow'
           /\ \A i \in m + 1..Len(agenda) : \A t :
                 agenda[i].kind \in {"test", "group"} /\ t \in Subtree(agenda[i].node)
                    => Pending(t)'
<1>1. Len(agenda) \in Nat /\ Len(agenda') \in Nat
  BY LenProperties
<1>2. ASSUME NEW i \in 1..Len(agenda'), agenda'[i].kind = "setUp"
      PROVE  /\ i + Len(Entries[agenda'[i].node]) \leq Len(agenda')
             /\ \A k \in 1..Len(Entries[agenda'[i].node]) :
                   agenda'[i + k].node = Entries[agenda'[i].node][k]
  <2>1. i + m \in 1..Len(agenda) /\ agenda'[i] = agenda[i + m]
    BY <1>1
  <2>. DEFINE g == agenda[i + m].node
              n == Len(Entries[g])
  <2>2. n \in Nat
    <3>1. agenda[i + m] \in Item /\ agenda[i + m].kind = "setUp"
      BY <1>2, <2>1
    <3>2. g \in Groups
      BY <3>1, SuiteAssumption DEF Item
    <3>. QED BY <3>2, SuiteAssumption
  <2>3. /\ i + m + n \leq Len(agenda)
        /\ \A k \in 1..n : agenda[i + m + k].node = Entries[g][k]
    BY <1>2, <2>1 DEF EntriesFollow
  <2>. HIDE DEF n
  <2>4. i + n \leq Len(agenda')
    BY <1>1, <2>2, <2>3
  <2>5. \A k \in 1..n : agenda'[i + k] = agenda[i + m + k]
    <3>. TAKE k \in 1..n
    <3>1. i + k \in 1..Len(agenda') /\ i + k + m = i + m + k
      BY <1>1, <2>2, <2>4
    <3>. QED BY <3>1
  <2>. USE DEF n
  <2>. QED BY <2>1, <2>3, <2>4, <2>5
<1>3. ASSUME NEW i \in m + 1..Len(agenda), NEW t,
             agenda[i].kind \in {"test", "group"}, t \in Subtree(agenda[i].node)
      PROVE  Pending(t)'
  <2>1. i - m \in 1..Len(agenda') /\ (i - m) + m = i
    BY <1>1
  <2>2. agenda'[i - m] = agenda[i]
    BY <2>1
  <2>. QED BY <1>3, <2>1, <2>2 DEF Pending
<1>. QED BY <1>2, <1>3 DEF EntriesFollow

LEMMA TailFollows ==
    ASSUME agenda \in Seq(Item), agenda # <<>>, EntriesFollow, agenda' = Tail(agenda)
    PROVE  /\ EntriesFollow'
           /\ \A t : Pending(t) => \/ Pending(t)'
                                   \/ /\ Current.kind \in {"test", "group"}
                                      /\ t \in Subtree(Current.node)
<1>1. /\ agenda' \in Seq(Item) /\ Len(agenda') = Len(agenda) - 1 /\ 1 \leq Len(agenda)
      /\ \A i \in 1..Len(agenda') : agenda'[i] = agenda[i + 1]
      /\ Len(agenda) \in Nat /\ Current = agenda[1]
  BY DEF Current
<1>2. /\ EntriesFollow'
      /\ \A i \in 1 + 1..Len(agenda) : \A t :
            agenda[i].kind \in {"test", "group"} /\ t \in Subtree(agenda[i].node)
               => Pending(t)'
  BY <1>1, SuffixFollows
<1>3. \A i \in 1..Len(agenda) : i = 1 \/ i \in 1 + 1..Len(agenda)
  BY <1>1
<1>. QED BY <1>1, <1>2, <1>3 DEF Pending

(* The calls of a group: its setUpAll or not, its entries, and more that is no setUpAll. *)
LEMMA CallsShape ==
    ASSUME NEW g \in Groups, NEW s \in BOOLEAN
    PROVE  \E a \in {0, 1} :
              /\ a + Len(Entries[g]) \leq Len(CallsOf(g, s))
              /\ \A i \in 1..a : CallsOf(g, s)[i].node = g
              /\ \A i \in 1..Len(CallsOf(g, s)) : CallsOf(g, s)[i].kind = "setUp" => i \in 1..a
              /\ \A k \in 1..Len(Entries[g]) :
                    /\ CallsOf(g, s)[a + k].kind \in {"test", "group"}
                    /\ CallsOf(g, s)[a + k].node = Entries[g][k]
<1>. DEFINE A == Hook("setUp", g, SetUpOf, s)
            B == EntryCalls(g, s)
            C == Hook("tearDown", g, TearDownOf, s)
            n == Len(Entries[g])
            cs == CallsOf(g, s)
<1>1. Entries[g] \in Seq(Nodes) /\ n \in Nat
  BY SuiteAssumption
<1>2. \A k \in 1..n : B[k].node = Entries[g][k] /\ B[k].kind \in {"test", "group"}
  BY <1>1 DEF EntryCalls, Call, ToVisit
<1>3. B \in Seq(Item) /\ Len(B) = n
  BY <1>1, EntryCallsType DEF EntryCalls
<1>4. A \in Seq(Item) /\ C \in Seq(Item)
  BY HookType
<1>5. Len(A) \in {0, 1} /\ \A i \in 1..Len(A) : A[i].node = g
  <2>1. CASE ~s /\ g \in SetUpOf
    <3>1. A = <<Call("setUp", g, FALSE)>>
      BY <2>1 DEF Hook
    <3>. QED BY <3>1, OneItem DEF Call
  <2>2. CASE ~(~s /\ g \in SetUpOf)
    <3>1. A = <<>>
      BY <2>2 DEF Hook
    <3>. QED BY <3>1, EmptySeq
  <2>. QED BY <2>1, <2>2
<1>6. \A i \in 1..Len(C) : C[i].kind = "tearDown"
  <2>1. CASE ~s /\ g \in TearDownOf
    <3>1. C = <<Call("tearDown", g, FALSE)>>
      BY <2>1 DEF Hook
    <3>. QED BY <3>1, OneItem DEF Call
  <2>2. CASE ~(~s /\ g \in TearDownOf)
    <3>1. C = <<>>
      BY <2>2 DEF Hook
    <3>. QED BY <3>1, EmptySeq
  <2>. QED BY <2>1, <2>2
<1>7. cs = A \o B \o C
  BY DEF CallsOf
<1>. HIDE DEF A, B, C, n, cs
<1>8. PICK a \in {0, 1} : Len(A) = a
  BY <1>5
<1>9. /\ Len(cs) = a + n + Len(C)
      /\ \A i \in 1..a : cs[i] = A[i]
      /\ \A i \in a + 1..a + n : cs[i] = B[i - a] /\ i - a \in 1..n
      /\ \A i \in a + n + 1..a + n + Len(C) :
            cs[i] = C[i - a - n] /\ i - a - n \in 1..Len(C)
  <2>1. /\ Len(A \o B \o C) = Len(A) + Len(B) + Len(C)
        /\ \A i \in 1..Len(A) : (A \o B \o C)[i] = A[i]
        /\ \A i \in Len(A) + 1..Len(A) + Len(B) :
              (A \o B \o C)[i] = B[i - Len(A)] /\ i - Len(A) \in 1..Len(B)
        /\ \A i \in Len(A) + Len(B) + 1..Len(A) + Len(B) + Len(C) :
              /\ (A \o B \o C)[i] = C[i - Len(A) - Len(B)]
              /\ i - Len(A) - Len(B) \in 1..Len(C)
    BY <1>3, <1>4, ThreeParts
  <2>. QED BY <1>3, <1>7, <1>8, <2>1
<1>10. Len(C) \in Nat
  BY <1>4, LenProperties
<1>11. \A i \in 1..a : cs[i].node = g
  BY <1>5, <1>8, <1>9
<1>12. ASSUME NEW i \in 1..Len(cs), cs[i].kind = "setUp"
       PROVE  i \in 1..a
  <2>1. CASE i \in a + 1..a + n
    BY <1>2, <1>9, <1>12, <2>1
  <2>2. CASE i \in a + n + 1..a + n + Len(C)
    BY <1>6, <1>9, <1>12, <2>2
  <2>. QED BY <1>1, <1>8, <1>9, <1>10, <2>1, <2>2
<1>13. ASSUME NEW k \in 1..n
       PROVE  cs[a + k].kind \in {"test", "group"} /\ cs[a + k].node = Entries[g][k]
  <2>1. a + k \in a + 1..a + n /\ (a + k) - a = k
    BY <1>1, <1>8
  <2>. QED BY <1>2, <1>9, <2>1
<1>14. a + n \leq Len(cs)
  BY <1>1, <1>8, <1>9, <1>10
<1>. QED BY <1>11, <1>12, <1>13, <1>14 DEF cs, n

LEMMA VisitFollows ==
    ASSUME TypeOK, EntriesFollow, VisitGroup, agenda' \in Seq(Item)
    PROVE  /\ EntriesFollow'
           /\ \A t \in chosen : Pending(t) => Pending(t)'
<1>. DEFINE g == Current.node
            s == Current.skip \/ g \in opts.skip
            cs == CallsOf(g, s)
            new == IF HasChosen(g, chosen) THEN cs ELSE <<>>
            rest == Tail(agenda)
<1>1. agenda # <<>> /\ Current.kind = "group" /\ agenda' = new \o rest
  BY DEF VisitGroup, AtItem
<1>2. /\ Current \in Item /\ Current = agenda[1] /\ rest \in Seq(Item)
      /\ Len(rest) = Len(agenda) - 1 /\ 1 \leq Len(agenda) /\ Len(agenda) \in Nat
      /\ \A i \in 1..Len(rest) : rest[i] = agenda[i + 1]
  BY <1>1 DEF Current, TypeOK
<1>3. g \in Groups /\ Current.skip \in BOOLEAN
  BY <1>1, <1>2 DEF Item
<1>4. s \in BOOLEAN /\ cs \in Seq(Item)
  BY <1>3, CallsOfType
<1>5. PICK a \in {0, 1} :
         /\ a + Len(Entries[g]) \leq Len(cs)
         /\ \A i \in 1..a : cs[i].node = g
         /\ \A i \in 1..Len(cs) : cs[i].kind = "setUp" => i \in 1..a
         /\ \A k \in 1..Len(Entries[g]) :
               cs[a + k].kind \in {"test", "group"} /\ cs[a + k].node = Entries[g][k]
  <2>. HIDE DEF s, g
  <2>. QED BY <1>3, <1>4, CallsShape
<1>6. new \in Seq(Item) /\ Len(new) \in Nat
  BY <1>4, EmptySeq, LenProperties
<1>7. Len(Entries[g]) \in Nat
  BY <1>3, SuiteAssumption
<1>8. /\ \A i \in 1..Len(new) : new[i].kind = "setUp" =>
            /\ i + Len(Entries[new[i].node]) \leq Len(new)
            /\ \A k \in 1..Len(Entries[new[i].node]) :
                  new[i + k].node = Entries[new[i].node][k]
  <2>1. CASE HasChosen(g, chosen)
    <3>. HIDE DEF cs, g
    <3>1. new = cs
      BY <2>1
    <3>. HIDE DEF new
    <3>2. ASSUME NEW i \in 1..Len(new), new[i].kind = "setUp"
          PROVE  i = 1 /\ a = 1 /\ new[i].node = g
      BY <1>5, <3>1, <3>2
    <3>. QED BY <1>5, <3>1, <3>2
  <2>2. CASE ~HasChosen(g, chosen)
    BY <2>2, EmptySeq
  <2>. QED BY <2>1, <2>2
<1>9. ASSUME NEW t \in chosen, t \in Subtree(g)
      PROVE  \E i \in 1..Len(new) :
                new[i].kind \in {"test", "group"} /\ t \in Subtree(new[i].node)
  <2>1. t \in Leaves /\ t # g
    BY <1>3, SuiteAssumption DEF TypeOK
  <2>2. t \in Below[g]
    BY <1>9, <2>1 DEF Subtree
  <2>3. HasChosen(g, chosen)
    BY <2>2 DEF HasChosen
  <2>4. PICK k \in 1..Len(Entries[g]) : t \in Subtree(Entries[g][k])
    <3>1. Below[g] = UNION {Subtree(Entries[g][i]) : i \in 1..Len(Entries[g])}
      BY <1>3, TreeAssumption
    <3>. QED BY <2>2, <3>1
  <2>. HIDE DEF cs, g
  <2>5. new = cs
    BY <2>3
  <2>. HIDE DEF new
  <2>6. a + k \in 1..Len(cs) /\ Len(cs) \in Nat
    BY <1>4, <1>5, <1>7, LenProperties
  <2>. QED BY <1>5, <2>4, <2>5, <2>6
<1>. HIDE DEF new, rest, cs
<1>10. /\ Len(agenda') = Len(new) + Len(rest) /\ Len(rest) \in Nat
       /\ \A i \in 1..Len(new) : agenda'[i] = new[i]
       /\ \A i \in Len(new) + 1..Len(new) + Len(rest) :
             agenda'[i] = rest[i - Len(new)] /\ i - Len(new) \in 1..Len(rest)
  BY <1>1, <1>2, <1>6
<1>11. \A j \in 1..Len(rest) : /\ Len(new) + j \in 1..Len(agenda')
                              /\ agenda'[Len(new) + j] = agenda[j + 1]
  <2>. TAKE j \in 1..Len(rest)
  <2>1. Len(new) + j \in Len(new) + 1..Len(new) + Len(rest) /\ (Len(new) + j) - Len(new) = j
    BY <1>6, <1>10
  <2>2. agenda'[Len(new) + j] = rest[j]
    BY <1>10, <2>1
  <2>. QED BY <1>2, <1>6, <1>10, <2>1, <2>2
<1>12. ASSUME NEW i \in 1..Len(agenda'), agenda'[i].kind = "setUp"
       PROVE  /\ i + Len(Entries[agenda'[i].node]) \leq Len(agenda')
              /\ \A k \in 1..Len(Entries[agenda'[i].node]) :
                    agenda'[i + k].node = Entries[agenda'[i].node][k]
  <2>. DEFINE h == agenda'[i].node
              n == Len(Entries[h])
  <2>1. n \in Nat
    <3>1. agenda'[i] \in Item
      BY <1>10
    <3>2. h \in Groups
      BY <1>12, <3>1, SuiteAssumption DEF Item
    <3>. QED BY <3>2, SuiteAssumption
  <2>2. CASE i \in 1..Len(new)
    <3>1. agenda'[i] = new[i]
      BY <1>10, <2>2
    <3>2. i + n \leq Len(new) /\ \A k \in 1..n : new[i + k].node = Entries[h][k]
      BY <1>8, <1>12, <2>2, <3>1
    <3>. HIDE DEF n, h
    <3>3. \A k \in 1..n : i + k \in 1..Len(new)
      BY <1>6, <2>1, <2>2, <3>2
    <3>4. i + n \leq Len(agenda')
      BY <1>6, <1>10, <2>1, <2>2, <3>2
    <3>5. \A k \in 1..n : agenda'[i + k].node = Entries[h][k]
      BY <1>10, <3>2, <3>3
    <3>. QED BY <3>4, <3>5 DEF n, h
  <2>3. CASE i \in Len(new) + 1..Len(new) + Len(rest)
    <3>. DEFINE j == i - Len(new)
    <3>1. j \in 1..Len(rest) /\ Len(new) + j = i /\ j + 1 \in 1..Len(agenda)
      BY <1>2, <1>6, <1>10, <2>3
    <3>2. agenda'[i] = agenda[j + 1]
      BY <1>11, <3>1
    <3>3. /\ j + 1 + n \leq Len(agenda)
          /\ \A k \in 1..n : agenda[j + 1 + k].node = Entries[h][k]
      BY <1>12, <3>1, <3>2 DEF EntriesFollow
    <3>. HIDE DEF n, h
    <3>4. \A k \in 1..n : /\ j + k \in 1..Len(rest) /\ Len(new) + (j + k) = i + k
                          /\ (j + k) + 1 = j + 1 + k
      BY <1>2, <1>6, <1>10, <2>1, <3>1, <3>3
    <3>5. i + n \leq Len(agenda')
      BY <1>2, <1>6, <1>10, <2>1, <3>1, <3>3
    <3>6. ASSUME NEW k \in 1..n PROVE agenda'[i + k].node = Entries[h][k]
      <4>1. agenda'[Len(new) + (j + k)] = agenda[(j + k) + 1]
        BY <1>11, <3>4
      <4>. QED BY <3>3, <3>4, <4>1
    <3>. QED BY <3>5, <3>6 DEF n, h
  <2>. QED BY <1>6, <1>10, <2>2, <2>3
<1>13. ASSUME NEW t \in chosen, Pending(t)
       PROVE  Pending(t)'
  <2>1. PICK i \in 1..Len(agenda) : agenda[i].kind \in {"test", "group"}
                                    /\ t \in Subtree(agenda[i].node)
    BY <1>13 DEF Pending
  <2>2. CASE i = 1
    <3>1. PICK k \in 1..Len(new) : new[k].kind \in {"test", "group"}
                                   /\ t \in Subtree(new[k].node)
      BY <1>2, <1>9, <2>1, <2>2
    <3>2. k \in 1..Len(agenda') /\ agenda'[k] = new[k]
      BY <1>6, <1>10
    <3>. QED BY <3>1, <3>2 DEF Pending
  <2>3. CASE i # 1
    <3>1. i - 1 \in 1..Len(rest) /\ (i - 1) + 1 = i
      BY <1>2, <2>3
    <3>2. Len(new) + (i - 1) \in 1..Len(agenda') /\ agenda'[Len(new) + (i - 1)] = agenda[i]
      BY <1>11, <3>1
    <3>. QED BY <2>1, <3>2 DEF Pending
  <2>. QED BY <2>2, <2>3
<1>. QED BY <1>12, <1>13 DEF EntriesFollow

(* A step that leaves the choice, the agenda and the cases alone, and makes the core
   neither done nor at a call it had not reached. *)
LEMMA SameAccounts ==
    ASSUME ChosenInv, UNCHANGED <<opts, chosen, agenda, cases>>,
           pc' = "load" => pc = "load",
           pc' \in {"step", "drain", "end", "complete", "done"} =>
              pc \in {"step", "drain", "end", "complete", "done"},
           pc' \in {"complete", "done"} => pc \in {"complete", "done"} \/ agenda = <<>>,
           pc' \in {"drain", "end"} =>
              pc \in {"drain", "end"} \/ (Current.kind = "test" => Current.node \in chosen)
    PROVE  ChosenInv'
<1>1. /\ ReportedFailing(Load)' <=> ReportedFailing(Load)
      /\ \A t : /\ Reported(t)' <=> Reported(t)
                /\ ReportedFailing(t)' <=> ReportedFailing(t)
                /\ Pending(t)' <=> Pending(t)
      /\ EntriesFollow' <=> EntriesFollow
      /\ Current' = Current
  BY DEF Reported, ReportedFailing, Pending, EntriesFollow, Current
<1>2. \A t : AccountedFor(t)' <=> AccountedFor(t)
  BY <1>1 DEF AccountedFor
<1>3. Accounts'
  BY <1>1, <1>2 DEF ChosenInv, Accounts
<1>. QED BY <1>1, <1>3 DEF ChosenInv

(* A step that reports n, or nothing, and goes on: what it leaves of the agenda stands
   for every chosen test that is not accounted for. *)
LEMMA MoreAccounts ==
    ASSUME ChosenInv, pc \in {"step", "end"}, pc' \in {"step", "dead"},
           UNCHANGED <<opts, chosen>>, EntriesFollow', NEW n,
           ReportedFailing(Load)' => ReportedFailing(Load),
           \A r : Reported(r) => Reported(r)',
           \A r : Reported(r)' => Reported(r) \/ r = n,
           \A r : ReportedFailing(r) => ReportedFailing(r)',
           \A t \in Leaves : n = <<"test", t>> => t \in chosen,
           \A t \in chosen : Pending(t) => Pending(t)' \/ AccountedFor(t)'
    PROVE  ChosenInv'
<1>1. \A t : AccountedFor(t) => AccountedFor(t)'
  BY DEF AccountedFor
<1>2. Accounts'
  BY <1>1 DEF ChosenInv, Accounts
<1>. QED BY <1>2 DEF ChosenInv

LEMMA LoadName ==
    \A item \in Item : item.kind # "group" => NameOf(item) # Load
BY DEF Item, NameOf, Load

LEMMA ListenerChosen ==
    ASSUME ChosenInv, Listener
    PROVE  ChosenInv'
<1>1. UNCHANGED <<opts, chosen, agenda, cases, pc>>
  BY DEF Listener, DeclarationPrints, SuiteAnswers, RootStrays, BodyChangesState,
         BodySays, BodyCompletes, coreVars
<1>. QED BY <1>1, SameAccounts

LEMMA CoreStepChosen ==
    ASSUME TypeOK, Busy, ChosenInv, CoreStep
    PROVE  ChosenInv'
<1>1. TypeOK'
  BY CoreStepType
<1>2. ASSUME agenda # <<>>
      PROVE  Current \in Item /\ agenda \in Seq(Item)
  BY <1>2 DEF TypeOK, Current
<1>3. CASE LoadPrint \/ StartRun \/ DrainText \/ DrainState \/ DrainUnknown \/ DrainSpawn
           \/ DrainComplete \/ Dropped \/ AllVisited
  <2>1. UNCHANGED <<opts, chosen, agenda, cases>>
    BY <1>3 DEF LoadPrint, StartRun, DrainText, DrainState, DrainUnknown, DrainSpawn,
                DrainComplete, Dropped, AllVisited, Drains, coreVars
  <2>2. /\ pc' = "load" => pc = "load"
        /\ pc' \in {"step", "drain", "end", "complete", "done"} =>
              pc \in {"step", "drain", "end", "complete", "done"}
        /\ pc' \in {"complete", "done"} => pc \in {"complete", "done"} \/ agenda = <<>>
        /\ pc' \in {"drain", "end"} =>
              pc \in {"drain", "end"} \/ (Current.kind = "test" => Current.node \in chosen)
    BY <1>3 DEF LoadPrint, StartRun, DrainText, DrainState, DrainUnknown, DrainSpawn,
                DrainComplete, Dropped, AllVisited, Drains, WriteThen, AtCall, AtItem,
                coreVars
  <2>. QED BY <2>1, <2>2, SameAccounts
<1>4. CASE LoadFails
  <2>1. /\ cases = <<>> /\ agenda = <<>> /\ agenda' = agenda
        /\ pc' \in {"complete", "dead"}
        /\ cases' = Append(cases, [name |-> Load, outcome |-> "error"])
    BY <1>4 DEF LoadFails, Finish, WriteThen, ChosenInv
  <2>2. Len(cases') = 1 /\ cases'[1] = [name |-> Load, outcome |-> "error"]
        /\ DOMAIN cases' = 1..1
    BY <2>1
  <2>3. ReportedFailing(Load)'
    BY <2>2 DEF ReportedFailing, Failing
  <2>4. EntriesFollow'
    BY <2>1, EmptySeq DEF EntriesFollow
  <2>. QED BY <2>1, <2>3, <2>4 DEF ChosenInv, Accounts
<1>5. CASE LoadSucceeds
  <2>1. /\ cases = <<>> /\ cases' = cases /\ opts' = opts /\ pc' = "step"
        /\ chosen' = ChosenBy(opts.match, opts.shard)
        /\ agenda' = << [kind |-> "group", node |-> Root, skip |-> ~opts.testOn] >>
    BY <1>5 DEF LoadSucceeds, ChosenInv
  <2>2. Len(agenda') = 1 /\ agenda'[1].kind = "group" /\ agenda'[1].node = Root
    BY <2>1
  <2>3. \A r : ~Reported(r)'
    BY <2>1 DEF Reported
  <2>4. EntriesFollow'
    BY <2>2 DEF EntriesFollow
  <2>5. ASSUME NEW t \in chosen'
        PROVE  Pending(t)'
    <3>1. t \in Below[Root]
      BY <2>1, <2>5, CoreAssumption, RootHoldsAll DEF TypeOK, ChosenBy
    <3>2. t \in Subtree(Root)
      BY <3>1, SuiteAssumption DEF Subtree
    <3>. QED BY <2>2, <3>2 DEF Pending
  <2>6. Accounts'
    BY <2>1, <2>3, <2>5 DEF Accounts
  <2>. QED BY <2>1, <2>4, <2>6 DEF ChosenInv
<1>6. CASE VisitGroup
  <2>1. /\ pc = "step" /\ pc' = "step" /\ UNCHANGED <<opts, chosen, cases>>
    BY <1>6 DEF VisitGroup, AtItem
  <2>2. EntriesFollow' /\ \A t \in chosen : Pending(t) => Pending(t)'
    BY <1>1, <1>6, VisitFollows DEF ChosenInv, TypeOK
  <2>3. \A r : (Reported(r)' <=> Reported(r)) /\ (ReportedFailing(r)' <=> ReportedFailing(r))
    BY <2>1 DEF Reported, ReportedFailing
  <2>4. \A t \in Leaves : Nothing # <<"test", t>>
    BY DEF Nothing
  <2>. QED BY <2>1, <2>2, <2>3, <2>4, MoreAccounts
<1>7. CASE PassOver \/ HookSucceeds
  <2>1. /\ agenda # <<>> /\ pc \in {"step", "end"} /\ pc' = "step"
        /\ UNCHANGED <<opts, chosen, cases>> /\ agenda' = Tail(agenda)
    BY <1>7 DEF PassOver, HookSucceeds, AtItem, AtEnd, Busy
  <2>2. /\ EntriesFollow'
        /\ \A t : Pending(t) => \/ Pending(t)'
                                \/ /\ Current.kind \in {"test", "group"}
                                   /\ t \in Subtree(Current.node)
    BY <1>2, <2>1, TailFollows DEF ChosenInv
  <2>3. ASSUME NEW t \in chosen, Current.kind \in {"test", "group"}
        PROVE  t \notin Subtree(Current.node)
    <3>1. Current.kind = "test" /\ Current.node \notin chosen
      BY <1>7, <2>3 DEF PassOver, HookSucceeds, AtItem, AtEnd
    <3>2. Current.node \in Leaves
      BY <1>2, <2>1, <3>1 DEF Item
    <3>3. Subtree(Current.node) = {Current.node}
      BY <3>2, SuiteAssumption DEF Subtree
    <3>. QED BY <3>1, <3>3
  <2>4. \A r : (Reported(r)' <=> Reported(r)) /\ (ReportedFailing(r)' <=> ReportedFailing(r))
    BY <2>1 DEF Reported, ReportedFailing
  <2>5. \A t \in Leaves : Nothing # <<"test", t>>
    BY DEF Nothing
  <2>. QED BY <2>1, <2>2, <2>3, <2>4, <2>5, MoreAccounts
<1>8. CASE SkipTest \/ TestEnds \/ HookFails
  <2>1. PICK o : /\ Finish(NameOf(Current), o, "step")
                 /\ HookFails => o \in {"fail", "error"}
    BY <1>8 DEF SkipTest, TestEnds, HookFails, OutcomeOf, AtCall, AtItem, AtEnd
  <2>2. /\ agenda # <<>> /\ pc \in {"step", "end"} /\ Current.kind # "group"
        /\ pc' \in {"step", "dead"} /\ UNCHANGED <<opts, chosen>>
    BY <1>8, <2>1 DEF SkipTest, TestEnds, HookFails, AtCall, AtItem, AtEnd, Busy,
                      Finish, WriteThen
  <2>3. \A r : Reported(r)' <=> Reported(r) \/ r = NameOf(Current)
    BY <2>1, AppendReports
  <2>4. /\ \A r : ReportedFailing(r) => ReportedFailing(r)'
        /\ \A r : HookFails /\ r = NameOf(Current) => ReportedFailing(r)'
    BY <2>1, FinishFails
  <2>5. ReportedFailing(Load)' => ReportedFailing(Load)
    <3>1. NameOf(Current) # Load
      BY <1>2, <2>2, LoadName
    <3>2. cases \in Seq(Case)
          /\ cases' = Append(cases, [name |-> NameOf(Current), outcome |-> o])
      BY <2>1 DEF Finish, TypeOK
    <3>3. /\ DOMAIN cases' = 1..Len(cases) + 1 /\ Len(cases) \in Nat
          /\ DOMAIN cases = 1..Len(cases)
          /\ \A k \in 1..Len(cases) : cases'[k] = cases[k]
          /\ cases'[Len(cases) + 1].name = NameOf(Current)
      BY <3>2
    <3>. QED BY <3>1, <3>3 DEF ReportedFailing
  <2>6. \A t \in Leaves : NameOf(Current) = <<"test", t>> => t \in chosen
    <3>1. Current.kind = "test" => Current.node \in chosen
      BY <1>8 DEF SkipTest, TestEnds, HookFails, AtCall, AtEnd, ChosenInv
    <3>2. \A t : NameOf(Current) = <<"test", t>> =>
                    Current.kind = "test" /\ Current.node = t
      BY DEF NameOf
    <3>. QED BY <3>1, <3>2
  <2>7. CASE agenda' = Tail(agenda)
    <3>1. /\ EntriesFollow'
          /\ \A t : Pending(t) => \/ Pending(t)'
                                  \/ /\ Current.kind \in {"test", "group"}
                                     /\ t \in Subtree(Current.node)
      BY <1>2, <2>2, <2>7, TailFollows DEF ChosenInv
    <3>2. ASSUME NEW t \in chosen, Current.kind \in {"test", "group"},
                 t \in Subtree(Current.node)
          PROVE  AccountedFor(t)'
      <4>1. Current.kind = "test" /\ Current.node \in Leaves
        BY <1>2, <2>2, <3>2 DEF Item
      <4>2. Current.node = t
        BY <3>2, <4>1, SuiteAssumption DEF Subtree
      <4>. QED BY <2>3, <4>1, <4>2 DEF AccountedFor, NameOf
    <3>. QED BY <2>2, <2>3, <2>4, <2>5, <2>6, <3>1, <3>2, MoreAccounts
  <2>8. CASE HookFails /\ Current.kind = "setUp"
    <3>1. Current \in Item /\ agenda \in Seq(Item) /\ Current = agenda[1]
          /\ 1 \in 1..Len(agenda) /\ Len(agenda) \in Nat
      BY <1>2, <2>2 DEF Current
    <3>0. PICK g \in SetUpOf : g = Current.node
      BY <2>8, <3>1 DEF Item
    <3>. DEFINE n == Len(Entries[g])
    <3>2. g \in SetUpOf /\ g \in Groups /\ n \in Nat
      BY SuiteAssumption
    <3>3. 1 + n \leq Len(agenda) /\ \A k \in 1..n : agenda[1 + k].node = Entries[g][k]
      BY <2>8, <3>0, <3>1 DEF ChosenInv, EntriesFollow
    <3>4. agenda' = SubSeq(agenda, 2 + n, Len(agenda))
      BY <2>8, <3>0 DEF HookFails, AgendaAfterFailure
    <3>. HIDE DEF n
    <3>5. /\ Len(agenda') = Len(agenda) - (1 + n) /\ 1 + n \in Nat
          /\ \A i \in 1..Len(agenda') : agenda'[i] = agenda[i + (1 + n)]
      BY <3>1, <3>2, <3>3, <3>4
    <3>6. agenda' \in Seq(Item)
      BY <1>1 DEF TypeOK
    <3>7. /\ EntriesFollow'
          /\ \A i \in (1 + n) + 1..Len(agenda) : \A t :
                agenda[i].kind \in {"test", "group"} /\ t \in Subtree(agenda[i].node)
                   => Pending(t)'
      BY <3>1, <3>3, <3>5, <3>6, SuffixFollows DEF ChosenInv
    <3>8. ASSUME NEW t \in chosen, Pending(t)
          PROVE  Pending(t)' \/ AccountedFor(t)'
      <4>1. PICK i \in 1..Len(agenda) : agenda[i].kind \in {"test", "group"}
                                        /\ t \in Subtree(agenda[i].node)
        BY <3>8 DEF Pending
      <4>2. CASE i \in (1 + n) + 1..Len(agenda)
        BY <3>7, <4>1, <4>2
      <4>3. CASE i \in 2..1 + n
        <5>1. i - 1 \in 1..n /\ 1 + (i - 1) = i
          BY <3>2, <4>3
        <5>2. agenda[i].node = Entries[g][i - 1]
          BY <3>3, <5>1
        <5>3. t \in Below[g]
          <6>1. Below[g] = UNION {Subtree(Entries[g][j]) : j \in 1..Len(Entries[g])}
            BY <3>2, TreeAssumption
          <6>. QED BY <4>1, <5>1, <5>2, <6>1 DEF n
        <5>4. g \in Ancestors(t) \cap SetUpOf
          BY <3>2, <5>3 DEF Ancestors
        <5>5. ReportedFailing(<<"setUp", g>>)'
          BY <2>4, <2>8, <3>0 DEF NameOf
        <5>. QED BY <5>4, <5>5 DEF AccountedFor
      <4>4. i # 1
        BY <2>8, <3>1, <4>1
      <4>. QED BY <3>1, <3>2, <4>2, <4>3, <4>4
    <3>. QED BY <2>2, <2>3, <2>4, <2>5, <2>6, <3>7, <3>8, MoreAccounts
  <2>9. agenda' = Tail(agenda) \/ (HookFails /\ Current.kind = "setUp")
    BY <1>8, <2>2 DEF SkipTest, TestEnds, HookFails, AgendaAfterFailure, AgendaAfterTest,
                      AtEnd
  <2>. QED BY <2>7, <2>8, <2>9
<1>. QED BY <1>3, <1>4, <1>5, <1>6, <1>7, <1>8 DEF CoreStep

LEMMA InitChosen == Init => ChosenInv
<1>. SUFFICES ASSUME Init PROVE ChosenInv
  OBVIOUS
<1>1. pc = "load" /\ cases = <<>> /\ agenda = <<>>
  BY DEF Init
<1>. QED BY <1>1 DEF ChosenInv, EntriesFollow, Accounts

LEMMA ChosenIsAccounted == ChosenInv => ChosenAccounted
<1>. SUFFICES ASSUME ChosenInv, pc \in {"complete", "done"}, ~ReportedFailing(Load)
              PROVE  \A t \in Leaves :
                        IF t \in ChosenBy(opts.match, opts.shard)
                        THEN AccountedFor(t) ELSE ~Reported(<<"test", t>>)
  BY DEF ChosenAccounted, AccountedFor
<1>1. \A t : ~Pending(t)
  BY DEF ChosenInv, Pending
<1>. QED BY <1>1 DEF ChosenInv, Accounts

LEMMA NextChosen == TypeOK /\ Busy /\ ChosenInv /\ [Next]_vars => ChosenInv'
<1>. SUFFICES ASSUME TypeOK, Busy, ChosenInv, [Next]_vars PROVE ChosenInv'
  OBVIOUS
<1>1. CASE OnComplete \/ UNCHANGED vars
  <2>1. /\ UNCHANGED <<opts, chosen, agenda, cases>>
        /\ pc' = pc \/ (pc = "complete" /\ pc' = "done")
    BY <1>1 DEF OnComplete, vars, coreVars
  <2>. QED BY <2>1, SameAccounts
<1>. QED BY <1>1, ListenerChosen, CoreStepChosen DEF Next

(* For every suite, filter and shard: when the suite is done, it has failed to load, or
   every chosen test is reported or lies under a reported setUpAll, and no other test
   is reported. *)
THEOREM ChosenAccountedCorrect == Spec => []ChosenAccounted
<1>1. Init => TypeOK /\ Busy /\ ChosenInv
  BY InitType, InitChosen
<1>2. TypeOK /\ Busy /\ ChosenInv /\ [Next]_vars => (TypeOK /\ Busy /\ ChosenInv)'
  BY NextType, NextChosen
<1>3. ChosenInv => ChosenAccounted
  BY ChosenIsAccounted
<1>. QED BY <1>1, <1>2, <1>3, PTL DEF Spec

-----------------------------------------------------------------------------
(* Hooks come before and after what they are for, and what is skipped does not run.
   The agenda says what is still to come: its parts are these.                      *)

Is(i, kind, g) == agenda[i].kind = kind /\ agenda[i].node = g
Entry(i) == agenda[i].kind \in {"test", "group"}
Open(i)  == Entry(i) /\ ~agenda[i].skip

(* No two entries hold the same position. *)
Apart ==
    \A i, j \in 1..Len(agenda) : i # j /\ Entry(i) /\ Entry(j) =>
       Subtree(agenda[i].node) \cap Subtree(agenda[j].node) = {}

(* A setUpAll is followed by its group's entries, and nothing after those lies in the
   group: its failure drops all of the group. *)
SetUpLeads ==
    \A j \in 1..Len(agenda) : agenda[j].kind = "setUp" =>
       LET n == Len(Entries[agenda[j].node])
       IN  /\ j + n \leq Len(agenda)
           /\ \A i \in j + 1..j + n : Entry(i)
           /\ \A i \in j + n + 1..Len(agenda) :
                 Entry(i) => agenda[j].node \notin Ancestors(agenda[i].node)

(* The tearDownAll of a group comes after its setUpAll and after what may run of it. *)
TearDownComes ==
    \A i \in 1..Len(agenda) : \A g \in TearDownOf :
       (Open(i) /\ g \in Ancestors(agenda[i].node)) \/ Is(i, "setUp", g) =>
          \E k \in i + 1..Len(agenda) : Is(k, "tearDown", g)

(* Where the agenda passes no skip on, no group above is skipped. *)
MayRun(holders) == opts.testOn /\ opts.skip \cap holders = {}
OpenMayRun ==
    \A i \in 1..Len(agenda) :
       /\ Open(i) => MayRun(Ancestors(agenda[i].node))
       /\ ~Entry(i) => MayRun({agenda[i].node} \cup Ancestors(agenda[i].node))

(* What may run of a group has its setUpAll behind it, or before it on the agenda. *)
Ready(g) == body[<<"setUp", g>>] = "over" /\ ~Reported(<<"setUp", g>>)
SetUpDone ==
    \A i \in 1..Len(agenda) : Open(i) =>
       \A g \in Ancestors(agenda[i].node) \cap SetUpOf :
          Ready(g) \/ \E j \in 1..i - 1 : Is(j, "setUp", g)

(* A group of which anything ran has run its tearDownAll, or has it on the agenda. *)
Touched(g) == \/ g \in SetUpOf /\ body[<<"setUp", g>>] # "idle"
              \/ \E t \in Below[g] \cap Leaves : body[<<"test", t>>] # "idle"
Owed ==
    \A g \in TearDownOf : Touched(g) =>
       \/ body[<<"tearDown", g>>] # "idle"
       \/ \E k \in 1..Len(agenda) : Is(k, "tearDown", g)

(* The run that is read was started and is not skipped. *)
AtRun ==
    /\ pc \in {"drain", "end"} => body[NameOf(Current)] # "idle" /\ ~IsSkipped(Current)
    /\ pc \in {"load", "complete", "done"} => agenda = <<>>

Shape == Apart /\ SetUpLeads /\ TearDownComes /\ OpenMayRun
HooksInv == Shape /\ SetUpDone /\ Owed /\ AtRun /\ SkippedNeverRuns

(* A step that leaves the first m calls of the agenda. *)
Drops(m) == /\ m \leq Len(agenda) /\ Len(agenda') = Len(agenda) - m
            /\ \A i \in 1..Len(agenda') : agenda'[i] = agenda[i + m]

LEMMA DropsShape ==
    ASSUME agenda \in Seq(Item), agenda' \in Seq(Item), opts' = opts,
           NEW m \in Nat, Drops(m), Shape
    PROVE  Shape'
<1>1. /\ Len(agenda) \in Nat /\ Len(agenda') \in Nat /\ Len(agenda) = Len(agenda') + m
      /\ \A i \in 1..Len(agenda') : i + m \in 1..Len(agenda) /\ agenda'[i] = agenda[i + m]
  BY LenProperties DEF Drops
<1>2. Apart'
  <2>. SUFFICES ASSUME NEW i \in 1..Len(agenda'), NEW j \in 1..Len(agenda'), i # j,
                       Entry(i)', Entry(j)'
                PROVE  Subtree(agenda'[i].node) \cap Subtree(agenda'[j].node) = {}
    BY DEF Apart
  <2>1. i + m # j + m /\ Entry(i + m) /\ Entry(j + m)
    BY <1>1 DEF Entry
  <2>. QED BY <1>1, <2>1 DEF Shape, Apart
<1>3. SetUpLeads'
  <2>. SUFFICES ASSUME NEW j \in 1..Len(agenda'), agenda'[j].kind = "setUp"
                PROVE  LET n == Len(Entries[agenda'[j].node])
                       IN  /\ j + n \leq Len(agenda')
                           /\ \A i \in j + 1..j + n : Entry(i)'
                           /\ \A i \in j + n + 1..Len(agenda') :
                                 Entry(i)' => agenda'[j].node \notin Ancestors(agenda'[i].node)
    BY DEF SetUpLeads
  <2>. DEFINE g == agenda[j + m].node
              n == Len(Entries[g])
  <2>1. j + m \in 1..Len(agenda) /\ agenda'[j] = agenda[j + m]
    BY <1>1
  <2>2. n \in Nat
    <3>1. agenda[j + m] \in Item /\ agenda[j + m].kind = "setUp"
      BY <2>1
    <3>2. g \in Groups
      BY <3>1, SuiteAssumption DEF Item
    <3>. QED BY <3>2, SuiteAssumption
  <2>3. /\ j + m + n \leq Len(agenda)
        /\ \A i \in j + m + 1..j + m + n : Entry(i)
        /\ \A i \in j + m + n + 1..Len(agenda) : Entry(i) => g \notin Ancestors(agenda[i].node)
    BY <2>1 DEF Shape, SetUpLeads
  <2>. HIDE DEF n, g
  <2>4. j + n \leq Len(agenda')
    BY <1>1, <2>2, <2>3
  <2>5. ASSUME NEW i \in j + 1..j + n PROVE Entry(i)'
    <3>1. i \in 1..Len(agenda') /\ i + m \in j + m + 1..j + m + n
      BY <1>1, <2>2, <2>4
    <3>. QED BY <1>1, <2>3, <3>1 DEF Entry
  <2>6. ASSUME NEW i \in j + n + 1..Len(agenda'), Entry(i)'
        PROVE  g \notin Ancestors(agenda'[i].node)
    <3>1. i \in 1..Len(agenda') /\ i + m \in j + m + n + 1..Len(agenda)
      BY <1>1, <2>2
    <3>. QED BY <1>1, <2>3, <2>6, <3>1 DEF Entry
  <2>. QED BY <2>1, <2>4, <2>5, <2>6 DEF n, g
<1>4. TearDownComes'
  <2>. SUFFICES ASSUME NEW i \in 1..Len(agenda'), NEW g \in TearDownOf,
                       \/ Open(i)' /\ g \in Ancestors(agenda'[i].node)
                       \/ Is(i, "setUp", g)'
                PROVE  \E k \in i + 1..Len(agenda') : Is(k, "tearDown", g)'
    BY DEF TearDownComes
  <2>1. PICK k \in i + m + 1..Len(agenda) : Is(k, "tearDown", g)
    BY <1>1 DEF Shape, TearDownComes, Open, Entry, Is
  <2>2. k - m \in i + 1..Len(agenda') /\ agenda'[k - m] = agenda[k]
    <3>1. k - m \in i + 1..Len(agenda') /\ k - m \in 1..Len(agenda') /\ (k - m) + m = k
      BY <1>1
    <3>. QED BY <1>1, <3>1
  <2>. QED BY <2>1, <2>2 DEF Is
<1>5. OpenMayRun'
  BY <1>1 DEF Shape, OpenMayRun, Open, Entry, MayRun
<1>. QED BY <1>2, <1>3, <1>4, <1>5 DEF Shape

(* The calls of a group: its setUpAll, its entries, its tearDownAll. *)
CallsAre(cs, g, s, a, c) ==
    /\ Len(cs) = a + Len(Entries[g]) + c
    /\ a = 1 <=> ~s /\ g \in SetUpOf
    /\ c = 1 <=> ~s /\ g \in TearDownOf
    /\ \A i \in 1..a : cs[i] = Call("setUp", g, FALSE)
    /\ \A i \in a + 1..a + Len(Entries[g]) :
          /\ cs[i].kind \in {"test", "group"} /\ cs[i].node = Entries[g][i - a]
          /\ cs[i].skip = s
    /\ \A i \in a + Len(Entries[g]) + 1..a + Len(Entries[g]) + c :
          cs[i] = Call("tearDown", g, FALSE)

LEMMA CallsParts ==
    ASSUME NEW g \in Groups, NEW s \in BOOLEAN
    PROVE  \E a, c \in {0, 1} : CallsAre(CallsOf(g, s), g, s, a, c)
<1>. DEFINE A == Hook("setUp", g, SetUpOf, s)
            B == EntryCalls(g, s)
            C == Hook("tearDown", g, TearDownOf, s)
            n == Len(Entries[g])
            cs == CallsOf(g, s)
<1>1. Entries[g] \in Seq(Nodes) /\ n \in Nat
  BY SuiteAssumption
<1>2. \A k \in 1..n : /\ B[k].node = Entries[g][k] /\ B[k].kind \in {"test", "group"}
                     /\ B[k].skip = s
  BY <1>1 DEF EntryCalls, Call, ToVisit
<1>3. B \in Seq(Item) /\ Len(B) = n /\ A \in Seq(Item) /\ C \in Seq(Item)
  BY <1>1, EntryCallsType, HookType DEF EntryCalls
<1>4. \E a \in {0, 1} : /\ Len(A) = a /\ (a = 1 <=> ~s /\ g \in SetUpOf)
                       /\ \A i \in 1..a : A[i] = Call("setUp", g, FALSE)
  <2>1. CASE ~s /\ g \in SetUpOf
    <3>1. A = <<Call("setUp", g, FALSE)>>
      BY <2>1 DEF Hook
    <3>. QED BY <2>1, <3>1, OneItem
  <2>2. CASE ~(~s /\ g \in SetUpOf)
    <3>1. A = <<>>
      BY <2>2 DEF Hook
    <3>2. Len(A) = 0 /\ 0 \in {0, 1} /\ 0 # 1 /\ 1..0 = {}
      BY <3>1
    <3>. QED BY <2>2, <3>2, Zenon
  <2>. QED BY <2>1, <2>2
<1>5. \E c \in {0, 1} : /\ Len(C) = c /\ (c = 1 <=> ~s /\ g \in TearDownOf)
                       /\ \A i \in 1..c : C[i] = Call("tearDown", g, FALSE)
  <2>1. CASE ~s /\ g \in TearDownOf
    <3>1. C = <<Call("tearDown", g, FALSE)>>
      BY <2>1 DEF Hook
    <3>. QED BY <2>1, <3>1, OneItem
  <2>2. CASE ~(~s /\ g \in TearDownOf)
    <3>1. C = <<>>
      BY <2>2 DEF Hook
    <3>2. Len(C) = 0 /\ 0 \in {0, 1} /\ 0 # 1 /\ 1..0 = {}
      BY <3>1
    <3>. QED BY <2>2, <3>2, Zenon
  <2>. QED BY <2>1, <2>2
<1>6. cs = A \o B \o C
  BY DEF CallsOf
<1>. HIDE DEF A, B, C, n, cs
<1>7. PICK a \in {0, 1} : /\ Len(A) = a /\ (a = 1 <=> ~s /\ g \in SetUpOf)
                         /\ \A i \in 1..a : A[i] = Call("setUp", g, FALSE)
  BY <1>4
<1>8. PICK c \in {0, 1} : /\ Len(C) = c /\ (c = 1 <=> ~s /\ g \in TearDownOf)
                         /\ \A i \in 1..c : C[i] = Call("tearDown", g, FALSE)
  BY <1>5
<1>9. /\ Len(cs) = a + n + c
      /\ \A i \in 1..a : cs[i] = A[i]
      /\ \A i \in a + 1..a + n : cs[i] = B[i - a] /\ i - a \in 1..n
      /\ \A i \in a + n + 1..a + n + c : cs[i] = C[i - a - n] /\ i - a - n \in 1..c
  <2>1. /\ Len(A \o B \o C) = Len(A) + Len(B) + Len(C)
        /\ \A i \in 1..Len(A) : (A \o B \o C)[i] = A[i]
        /\ \A i \in Len(A) + 1..Len(A) + Len(B) :
              (A \o B \o C)[i] = B[i - Len(A)] /\ i - Len(A) \in 1..Len(B)
        /\ \A i \in Len(A) + Len(B) + 1..Len(A) + Len(B) + Len(C) :
              /\ (A \o B \o C)[i] = C[i - Len(A) - Len(B)]
              /\ i - Len(A) - Len(B) \in 1..Len(C)
    BY <1>3, ThreeParts
  <2>. QED BY <1>3, <1>6, <1>7, <1>8, <2>1
<1>10. \A i \in a + 1..a + n : /\ cs[i].kind \in {"test", "group"}
                              /\ cs[i].node = Entries[g][i - a] /\ cs[i].skip = s
  BY <1>2, <1>9
<1>11. /\ \A i \in 1..a : cs[i] = Call("setUp", g, FALSE)
       /\ \A i \in a + n + 1..a + n + c : cs[i] = Call("tearDown", g, FALSE)
  BY <1>7, <1>8, <1>9
<1>12. /\ Len(cs) = a + n + c
       /\ a = 1 <=> ~s /\ g \in SetUpOf
       /\ c = 1 <=> ~s /\ g \in TearDownOf
  BY <1>7, <1>8, <1>9
<1>13. CallsAre(cs, g, s, a, c)
  BY <1>10, <1>11, <1>12 DEF CallsAre, n
<1>. QED BY <1>13 DEF cs

(* Replacing the first call, a group, by its own calls: the calls come first, the rest
   of the agenda after them. *)
VisitedTo(g, s, a, c, n, m) ==
    /\ g \in Groups /\ s \in BOOLEAN /\ n = Len(Entries[g])
    /\ Len(agenda') = m + Len(agenda) - 1 /\ Len(agenda) \in Nat \ {0}
    /\ m = 0 \/ m = a + n + c
    /\ a = 1 <=> ~s /\ g \in SetUpOf
    /\ c = 1 <=> ~s /\ g \in TearDownOf
    /\ m # 0 => /\ \A i \in 1..a : agenda'[i] = Call("setUp", g, FALSE)
                /\ \A i \in a + 1..a + n :
                      /\ agenda'[i].kind \in {"test", "group"}
                      /\ agenda'[i].node = Entries[g][i - a]
                      /\ agenda'[i].skip = s
                /\ \A i \in a + n + 1..a + n + c : agenda'[i] = Call("tearDown", g, FALSE)
    /\ \A i \in 2..Len(agenda) : agenda'[i + m - 1] = agenda[i]

LEMMA VisitParts ==
    ASSUME TypeOK, VisitGroup, NEW g, NEW s, g = Current.node,
           s = (Current.skip \/ g \in opts.skip)
    PROVE  \E a, c \in {0, 1}, n, m \in Nat : VisitedTo(g, s, a, c, n, m)
<1>. DEFINE cs == CallsOf(g, s)
            new == IF HasChosen(g, chosen) THEN cs ELSE <<>>
            rest == Tail(agenda)
<1>1. agenda # <<>> /\ Current.kind = "group" /\ agenda' = new \o rest
  BY DEF VisitGroup, AtItem
<1>2. /\ Current \in Item /\ rest \in Seq(Item)
      /\ Len(rest) = Len(agenda) - 1 /\ Len(agenda) \in Nat \ {0}
      /\ \A i \in 1..Len(rest) : rest[i] = agenda[i + 1]
  BY <1>1 DEF Current, TypeOK
<1>3. g \in Groups /\ Current.skip \in BOOLEAN
  BY <1>1, <1>2 DEF Item
<1>4. s \in BOOLEAN /\ cs \in Seq(Item)
  BY <1>3, CallsOfType
<1>5. PICK a, c \in {0, 1} : CallsAre(cs, g, s, a, c)
  BY <1>3, <1>4, CallsParts
<1>. DEFINE n == Len(Entries[g])
<1>6. n \in Nat
  BY <1>3, SuiteAssumption
<1>7. new \in Seq(Item) /\ Len(new) \in Nat
  BY <1>4, EmptySeq, LenProperties
<1>. HIDE DEF cs, n
<1>8. Len(new) = 0 \/ (new = cs /\ Len(new) = a + n + c)
  BY <1>5, EmptySeq DEF n, CallsAre
<1>. HIDE DEF new, rest
<1>9. /\ Len(agenda') = Len(new) + Len(rest) /\ Len(rest) \in Nat
      /\ \A i \in 1..Len(new) : agenda'[i] = new[i]
      /\ \A i \in Len(new) + 1..Len(new) + Len(rest) :
            agenda'[i] = rest[i - Len(new)] /\ i - Len(new) \in 1..Len(rest)
  <2>1. /\ Len(new \o rest) = Len(new) + Len(rest)
        /\ \A i \in 1..Len(new) : (new \o rest)[i] = new[i]
        /\ \A i \in Len(new) + 1..Len(new) + Len(rest) :
              (new \o rest)[i] = rest[i - Len(new)] /\ i - Len(new) \in 1..Len(rest)
    BY <1>2, <1>7, TwoParts
  <2>2. Len(rest) \in Nat
    BY <1>2, LenProperties
  <2>. QED BY <1>1, <2>1, <2>2, Zenon
<1>10. ASSUME NEW i \in 2..Len(agenda) PROVE agenda'[i + Len(new) - 1] = agenda[i]
  <2>1. /\ i + Len(new) - 1 \in Len(new) + 1..Len(new) + Len(rest)
        /\ (i + Len(new) - 1) - Len(new) = i - 1 /\ i - 1 \in 1..Len(rest) /\ (i - 1) + 1 = i
    BY <1>2, <1>7
  <2>2. agenda'[i + Len(new) - 1] = rest[i - 1] /\ rest[i - 1] = agenda[(i - 1) + 1]
    BY <1>2, <1>9, <2>1
  <2>. QED BY <2>1, <2>2
<1>11. Len(new) # 0 =>
          /\ \A i \in 1..a : agenda'[i] = Call("setUp", g, FALSE)
          /\ \A i \in a + 1..a + n :
                /\ agenda'[i].kind \in {"test", "group"}
                /\ agenda'[i].node = Entries[g][i - a] /\ agenda'[i].skip = s
          /\ \A i \in a + n + 1..a + n + c : agenda'[i] = Call("tearDown", g, FALSE)
  <2>. SUFFICES ASSUME Len(new) # 0
                PROVE  /\ \A i \in 1..a : agenda'[i] = Call("setUp", g, FALSE)
                       /\ \A i \in a + 1..a + n :
                             /\ agenda'[i].kind \in {"test", "group"}
                             /\ agenda'[i].node = Entries[g][i - a] /\ agenda'[i].skip = s
                       /\ \A i \in a + n + 1..a + n + c :
                             agenda'[i] = Call("tearDown", g, FALSE)
    OBVIOUS
  <2>1. new = cs /\ \A i \in 1..a + n + c : agenda'[i] = cs[i]
    BY <1>8, <1>9
  <2>2. /\ \A i \in 1..a : i \in 1..a + n + c
        /\ \A i \in a + 1..a + n : i \in 1..a + n + c
        /\ \A i \in a + n + 1..a + n + c : i \in 1..a + n + c
    BY <1>6
  <2>. QED BY <1>5, <2>1, <2>2 DEF n, CallsAre
<1>12. Len(agenda') = Len(new) + Len(agenda) - 1
  BY <1>2, <1>7, <1>9
<1>13. VisitedTo(g, s, a, c, n, Len(new))
  <2>1. n = Len(Entries[g])
    BY DEF n
  <2>2. /\ a = 1 <=> ~s /\ g \in SetUpOf
        /\ c = 1 <=> ~s /\ g \in TearDownOf
    BY <1>5 DEF CallsAre
  <2>. QED BY <1>2, <1>3, <1>4, <1>8, <1>10, <1>11, <1>12, <2>1, <2>2 DEF VisitedTo
<1>. QED BY <1>6, <1>7, <1>13

(* After a visit, each call is one of the visited group's, or one that was there. *)
VisitedEach(g, s, a, c, n, m) ==
    /\ m = 0 \/ m = a + n + c
    /\ \A i \in 1..m :
          \/ i \in 1..a /\ agenda'[i] = Call("setUp", g, FALSE) /\ ~s /\ g \in SetUpOf
          \/ /\ i \in a + 1..a + n /\ i - a \in 1..n /\ Entry(i)'
             /\ agenda'[i].node = Entries[g][i - a] /\ agenda'[i].skip = s
          \/ i = m /\ agenda'[i] = Call("tearDown", g, FALSE) /\ ~s /\ g \in TearDownOf
    /\ m # 0 /\ ~s /\ g \in SetUpOf => a = 1 /\ agenda'[1] = Call("setUp", g, FALSE)
    /\ m # 0 /\ ~s /\ g \in TearDownOf =>
          c = 1 /\ m \in 1..Len(agenda') /\ agenda'[m] = Call("tearDown", g, FALSE)
    /\ m \leq Len(agenda')
    /\ \A i \in m + 1..Len(agenda') :
          i - m + 1 \in 2..Len(agenda) /\ agenda'[i] = agenda[i - m + 1]
    /\ \A i \in 2..Len(agenda) :
          i + m - 1 \in m + 1..Len(agenda') /\ agenda'[i + m - 1] = agenda[i]

LEMMA EachVisited ==
    ASSUME NEW a \in {0, 1}, NEW c \in {0, 1}, NEW n \in Nat, NEW m \in Nat,
           NEW g, NEW s, VisitedTo(g, s, a, c, n, m), agenda' \in Seq(Item)
    PROVE  VisitedEach(g, s, a, c, n, m)
<1>1. /\ Len(agenda') = m + Len(agenda) - 1 /\ Len(agenda) \in Nat \ {0}
      /\ Len(agenda') \in Nat /\ (m = 0 \/ m = a + n + c)
  BY LenProperties DEF VisitedTo
<1>0. /\ a = 1 <=> ~s /\ g \in SetUpOf
      /\ c = 1 <=> ~s /\ g \in TearDownOf
      /\ m # 0 => /\ \A i \in 1..a : agenda'[i] = Call("setUp", g, FALSE)
                  /\ \A i \in a + 1..a + n :
                        /\ agenda'[i].kind \in {"test", "group"}
                        /\ agenda'[i].node = Entries[g][i - a]
                        /\ agenda'[i].skip = s
                  /\ \A i \in a + n + 1..a + n + c :
                        agenda'[i] = Call("tearDown", g, FALSE)
      /\ \A i \in 2..Len(agenda) : agenda'[i + m - 1] = agenda[i]
  BY Zenon DEF VisitedTo
<1>2. ASSUME NEW i \in 1..m
      PROVE  \/ i \in 1..a /\ agenda'[i] = Call("setUp", g, FALSE) /\ ~s /\ g \in SetUpOf
             \/ /\ i \in a + 1..a + n /\ i - a \in 1..n /\ Entry(i)'
                /\ agenda'[i].node = Entries[g][i - a] /\ agenda'[i].skip = s
             \/ i = m /\ agenda'[i] = Call("tearDown", g, FALSE) /\ ~s /\ g \in TearDownOf
  <2>1. m # 0 /\ m = a + n + c
    BY <1>1
  <2>2. i \in 1..a \/ (i \in a + 1..a + n /\ i - a \in 1..n)
        \/ (i \in a + n + 1..a + n + c /\ i = m)
    BY <1>1, <2>1
  <2>3. CASE i \in 1..a
    <3>1. a = 1
      BY <2>3
    <3>. QED BY <1>0, <2>1, <2>3, <3>1, Zenon
  <2>4. CASE i \in a + 1..a + n /\ i - a \in 1..n
    BY <1>0, <2>1, <2>4, Zenon DEF Entry
  <2>5. CASE i \in a + n + 1..a + n + c /\ i = m
    <3>1. c = 1
      BY <2>5
    <3>. QED BY <1>0, <2>1, <2>5, <3>1, Zenon
  <2>. QED BY <2>2, <2>3, <2>4, <2>5
<1>3. ASSUME m # 0, ~s, g \in SetUpOf
      PROVE  a = 1 /\ agenda'[1] = Call("setUp", g, FALSE)
  <2>1. a = 1
    BY <1>0, <1>3, Zenon
  <2>2. 1 \in 1..a
    BY <2>1
  <2>. QED BY <1>0, <1>3, <2>1, <2>2, Zenon
<1>4. ASSUME m # 0, ~s, g \in TearDownOf
      PROVE  c = 1 /\ m \in 1..Len(agenda') /\ agenda'[m] = Call("tearDown", g, FALSE)
  <2>1. c = 1 /\ m = a + n + c /\ m \in 1..Len(agenda')
    <3>1. c = 1
      BY <1>0, <1>4, Zenon
    <3>. QED BY <1>1, <1>4, <3>1
  <2>2. m \in a + n + 1..a + n + c
    BY <2>1
  <2>. QED BY <1>0, <1>4, <2>1, <2>2, Zenon
<1>5. ASSUME NEW i \in 2..Len(agenda)
      PROVE  i + m - 1 \in m + 1..Len(agenda') /\ agenda'[i + m - 1] = agenda[i]
  BY <1>0, <1>1
<1>6. ASSUME NEW i \in m + 1..Len(agenda')
      PROVE  i - m + 1 \in 2..Len(agenda) /\ agenda'[i] = agenda[i - m + 1]
  <2>1. i - m + 1 \in 2..Len(agenda) /\ (i - m + 1) + m - 1 = i
    BY <1>1
  <2>. QED BY <1>5, <2>1
<1>7. m \leq Len(agenda')
  BY <1>1
<1>. QED BY <1>1, <1>2, <1>3, <1>4, <1>5, <1>6, <1>7 DEF VisitedEach

LEMMA VisitShape ==
    ASSUME TypeOK, Shape, SetUpDone, Owed, VisitGroup, agenda' \in Seq(Item)
    PROVE  Shape' /\ SetUpDone' /\ Owed'
<1>. DEFINE g == Current.node
            s == Current.skip \/ g \in opts.skip
<1>1. PICK a \in {0, 1}, c \in {0, 1}, n \in Nat, m \in Nat :
         VisitedTo(g, s, a, c, n, m)
  BY VisitParts
<1>2. VisitedEach(g, s, a, c, n, m)
  <2>. HIDE DEF g, s
  <2>. QED BY <1>1, EachVisited
<1>3. /\ agenda[1].kind = "group" /\ agenda[1].node = g /\ agenda[1].skip = Current.skip
      /\ Len(agenda) \in Nat /\ 1 \in 1..Len(agenda) /\ g \in Groups /\ n = Len(Entries[g])
      /\ Current.skip \in BOOLEAN
      /\ UNCHANGED <<opts, body, cases>>
  <2>1. agenda # <<>> /\ Current.kind = "group" /\ UNCHANGED <<opts, body, cases>>
    BY DEF VisitGroup, AtItem, listenVars
  <2>2. Current = agenda[1] /\ Len(agenda) \in Nat /\ 1 \in 1..Len(agenda) /\ Current \in Item
    BY <2>1 DEF Current, TypeOK
  <2>3. Current.skip \in BOOLEAN
    BY <2>1, <2>2 DEF Item
  <2>. QED BY <1>1, <2>1, <2>2, <2>3 DEF VisitedTo
<1>4. /\ Entry(1) /\ (~s => Open(1) /\ g \notin opts.skip)
  BY <1>3 DEF Entry, Open
<1>. HIDE DEF g, s
<1>5. Len(agenda') \in Nat
  BY LenProperties
<1>6. \A k \in 1..n : /\ Subtree(Entries[g][k]) \subseteq Below[g]
                     /\ Ancestors(Entries[g][k]) = {g} \cup Ancestors(g)
  BY <1>3, EntryIsSmaller, OneParent
<1>7. \A j \in 2..Len(agenda) : Entry(j) =>
         /\ Below[g] \cap Subtree(agenda[j].node) = {}
         /\ g \notin Ancestors(agenda[j].node)
  <2>. TAKE j \in 2..Len(agenda)
  <2>. SUFFICES ASSUME Entry(j)
                PROVE  /\ Below[g] \cap Subtree(agenda[j].node) = {}
                       /\ g \notin Ancestors(agenda[j].node)
    OBVIOUS
  <2>1. j \in 1..Len(agenda) /\ j # 1
    BY <1>3
  <2>2. Subtree(g) \cap Subtree(agenda[j].node) = {}
    BY <1>3, <1>4, <2>1 DEF Shape, Apart
  <2>. QED BY <1>3, <2>2 DEF Subtree, Ancestors
<1>8. ASSUME NEW i \in 1..m
      PROVE  /\ Entry(i)' => /\ i \in a + 1..a + n /\ i - a \in 1..n
                             /\ agenda'[i].node = Entries[g][i - a] /\ agenda'[i].skip = s
             /\ agenda'[i].kind = "setUp" =>
                   i = 1 /\ a = 1 /\ agenda'[i].node = g /\ ~s /\ g \in SetUpOf
             /\ ~Entry(i)' => agenda'[i].node = g /\ ~s
  BY <1>2 DEF VisitedEach, Entry, Call
<1>9. ASSUME NEW i \in m + 1..Len(agenda')
      PROVE  /\ i - m + 1 \in 2..Len(agenda) /\ i - m + 1 \in 1..Len(agenda)
             /\ agenda'[i] = agenda[i - m + 1]
             /\ Entry(i)' <=> Entry(i - m + 1)
             /\ Open(i)' <=> Open(i - m + 1)
  <2>1. i - m + 1 \in 2..Len(agenda) /\ agenda'[i] = agenda[i - m + 1]
    BY <1>2 DEF VisitedEach
  <2>2. i - m + 1 \in 1..Len(agenda)
    BY <1>3, <2>1
  <2>. QED BY <2>1, <2>2 DEF Entry, Open
<1>10. ASSUME NEW k \in 2..Len(agenda)
       PROVE  k + m - 1 \in m + 1..Len(agenda') /\ agenda'[k + m - 1] = agenda[k]
  BY <1>2 DEF VisitedEach
<1>11. \A i \in 1..Len(agenda') : i \in 1..m \/ i \in m + 1..Len(agenda')
  BY <1>5
<1>12. Apart'
  <2>1. ASSUME NEW i \in 1..Len(agenda'), NEW j \in 1..Len(agenda'), i < j,
               Entry(i)', Entry(j)'
        PROVE  Subtree(agenda'[i].node) \cap Subtree(agenda'[j].node) = {}
    <3>1. CASE i \in 1..m /\ j \in 1..m
      <4>1. i - a \in 1..n /\ j - a \in 1..n /\ i - a # j - a
        BY <1>5, <1>8, <2>1, <3>1
      <4>2. Subtree(Entries[g][i - a]) \cap Subtree(Entries[g][j - a]) = {}
        BY <1>3, <4>1, TreeAssumption
      <4>. QED BY <1>8, <2>1, <3>1, <4>2
    <3>2. CASE i \in 1..m /\ j \in m + 1..Len(agenda')
      <4>1. Subtree(agenda'[i].node) \subseteq Below[g]
        BY <1>6, <1>8, <2>1, <3>2
      <4>2. Below[g] \cap Subtree(agenda'[j].node) = {}
        BY <1>7, <1>9, <2>1, <3>2
      <4>. QED BY <4>1, <4>2
    <3>3. CASE i \in m + 1..Len(agenda') /\ j \in m + 1..Len(agenda')
      <4>1. i - m + 1 # j - m + 1
        BY <1>5, <2>1
      <4>. QED BY <1>9, <2>1, <3>3, <4>1 DEF Shape, Apart
    <3>4. ~(i \in m + 1..Len(agenda') /\ j \in 1..m)
      BY <1>5, <2>1
    <3>. QED BY <1>11, <3>1, <3>2, <3>3, <3>4
  <2>2. \A i, j \in 1..Len(agenda') : i # j => i < j \/ j < i
    BY <1>5
  <2>. QED BY <2>1, <2>2 DEF Apart
<1>13. SetUpLeads'
  <2>. SUFFICES ASSUME NEW j \in 1..Len(agenda'), agenda'[j].kind = "setUp"
                PROVE  LET k == Len(Entries[agenda'[j].node])
                       IN  /\ j + k \leq Len(agenda')
                           /\ \A i \in j + 1..j + k : Entry(i)'
                           /\ \A i \in j + k + 1..Len(agenda') :
                                 Entry(i)' => agenda'[j].node \notin Ancestors(agenda'[i].node)
    BY DEF SetUpLeads
  <2>1. CASE j \in 1..m
    <3>1. j = 1 /\ a = 1 /\ agenda'[j].node = g /\ m = a + n + c /\ m \leq Len(agenda')
      BY <1>2, <1>8, <2>1 DEF VisitedEach
    <3>2. 1 + n \leq Len(agenda')
      BY <1>5, <3>1
    <3>3. ASSUME NEW i \in 2..1 + n PROVE Entry(i)'
      <4>2. i \in 1..m /\ i \notin 1..a /\ (i # m \/ c = 0)
        BY <1>5, <3>1
      <4>3. CASE c = 0
        <5>1. m # 0 /\ c # 1
          BY <4>2, <4>3
        <5>2. ~(~s /\ g \in TearDownOf)
          BY <1>2, <5>1, Zenon DEF VisitedEach
        <5>3. i \notin 1..a
          BY <4>2
        <5>. QED BY <1>2, <4>2, <5>2, <5>3, Zenon DEF VisitedEach
      <4>4. CASE i # m
        BY <1>2, <3>1, <4>2, <4>4 DEF VisitedEach
      <4>. QED BY <4>2, <4>3, <4>4
    <3>4. ASSUME NEW i \in 1 + n + 1..Len(agenda'), Entry(i)'
          PROVE  g \notin Ancestors(agenda'[i].node)
      <4>1. i \in m + 1..Len(agenda')
        <5>1. i \in 1..Len(agenda') /\ i \notin a + 1..a + n
          BY <1>5, <3>1
        <5>. QED BY <1>8, <1>11, <3>4, <5>1
      <4>. QED BY <1>7, <1>9, <3>4, <4>1
    <3>. QED BY <1>3, <3>1, <3>2, <3>3, <3>4
  <2>2. CASE j \in m + 1..Len(agenda')
    <3>. DEFINE h == agenda'[j].node
                k == Len(Entries[h])
                p == j - m + 1
    <3>1. p \in 1..Len(agenda) /\ p \in 2..Len(agenda) /\ agenda'[j] = agenda[p]
      BY <1>9, <2>2
    <3>2. k \in Nat
      <4>1. agenda[p] \in Item /\ agenda[p].kind = "setUp"
        BY <3>1 DEF TypeOK
      <4>2. h \in Groups
        BY <3>1, <4>1, SuiteAssumption DEF Item
      <4>. QED BY <4>2, SuiteAssumption
    <3>3. /\ p + k \leq Len(agenda)
          /\ \A i \in p + 1..p + k : Entry(i)
          /\ \A i \in p + k + 1..Len(agenda) : Entry(i) => h \notin Ancestors(agenda[i].node)
      BY <3>1 DEF Shape, SetUpLeads
    <3>. HIDE DEF k, h
    <3>4. Len(agenda') = m + Len(agenda) - 1
      BY <1>1 DEF VisitedTo
    <3>5. j + k \leq Len(agenda')
      BY <1>3, <1>5, <3>2, <3>3, <3>4
    <3>6. ASSUME NEW i \in j + 1..j + k PROVE Entry(i)'
      <4>1. i \in m + 1..Len(agenda') /\ i - m + 1 \in p + 1..p + k
        BY <1>3, <1>5, <2>2, <3>2, <3>3, <3>4
      <4>. QED BY <1>9, <3>3, <4>1
    <3>7. ASSUME NEW i \in j + k + 1..Len(agenda'), Entry(i)'
          PROVE  h \notin Ancestors(agenda'[i].node)
      <4>1. i \in m + 1..Len(agenda') /\ i - m + 1 \in p + k + 1..Len(agenda)
        BY <1>3, <1>5, <2>2, <3>2, <3>3, <3>4
      <4>. QED BY <1>9, <3>3, <3>7, <4>1
    <3>. QED BY <3>5, <3>6, <3>7 DEF k, h
  <2>. QED BY <1>11, <2>1, <2>2
<1>14. TearDownComes'
  <2>. SUFFICES ASSUME NEW i \in 1..Len(agenda'), NEW h \in TearDownOf,
                       \/ Open(i)' /\ h \in Ancestors(agenda'[i].node)
                       \/ Is(i, "setUp", h)'
                PROVE  \E k \in i + 1..Len(agenda') : Is(k, "tearDown", h)'
    BY DEF TearDownComes
  <2>1. CASE i \in 1..m
    <3>1. ~s /\ (h = g \/ h \in Ancestors(g)) /\ m # 0
          /\ (Is(i, "setUp", h)' => h = g)
      BY <1>6, <1>8, <2>1 DEF Open, Is
    <3>2. CASE h = g
      <4>1. m \in 1..Len(agenda') /\ agenda'[m] = Call("tearDown", g, FALSE)
        BY <1>2, <3>1, <3>2 DEF VisitedEach
      <4>2. i # m
        BY <4>1, <2>1 DEF Open, Entry, Is, Call
      <4>3. m \in i + 1..Len(agenda')
        BY <1>5, <2>1, <4>1, <4>2
      <4>. QED BY <3>2, <4>1, <4>3 DEF Is, Call
    <3>3. CASE h \in Ancestors(g) /\ Open(i)'
      <4>1. PICK k \in 1 + 1..Len(agenda) : Is(k, "tearDown", h)
        BY <1>3, <1>4, <3>1, <3>3 DEF Shape, TearDownComes
      <4>2. k + m - 1 \in m + 1..Len(agenda') /\ agenda'[k + m - 1] = agenda[k]
        BY <1>10, <4>1
      <4>3. k + m - 1 \in i + 1..Len(agenda')
        BY <1>5, <2>1, <4>2
      <4>. QED BY <4>1, <4>2, <4>3 DEF Is
    <3>. QED BY <3>1, <3>2, <3>3
  <2>2. CASE i \in m + 1..Len(agenda')
    <3>0. /\ i - m + 1 \in 1..Len(agenda)
          /\ (Open(i - m + 1) /\ h \in Ancestors(agenda[i - m + 1].node))
                \/ Is(i - m + 1, "setUp", h)
      <4>1. i - m + 1 \in 1..Len(agenda) /\ agenda'[i] = agenda[i - m + 1]
        BY <1>9, <2>2
      <4>2. Open(i)' <=> Open(i - m + 1)
        BY <1>9, <2>2
      <4>3. Is(i, "setUp", h)' <=> Is(i - m + 1, "setUp", h)
        BY <4>1, Zenon DEF Is
      <4>. QED BY <4>1, <4>2, <4>3, Zenon
    <3>. DEFINE j == i - m + 1
    <3>. HIDE DEF j
    <3>6. j \in 1..Len(agenda)
      BY <3>0 DEF j
    <3>7. (Open(j) /\ h \in Ancestors(agenda[j].node)) \/ Is(j, "setUp", h)
      BY <3>0, Zenon DEF j
    <3>8. \E k \in j + 1..Len(agenda) : Is(k, "tearDown", h)
      BY <3>6, <3>7, Zenon DEF Shape, TearDownComes
    <3>1. PICK k \in i - m + 1 + 1..Len(agenda) : Is(k, "tearDown", h)
      BY <3>8, Zenon DEF j
    <3>2. k \in 2..Len(agenda)
      BY <1>3, <1>5, <1>9, <2>2
    <3>3. k + m - 1 \in i + 1..Len(agenda') /\ agenda'[k + m - 1] = agenda[k]
      <4>1. k + m - 1 \in m + 1..Len(agenda') /\ agenda'[k + m - 1] = agenda[k]
        BY <1>10, <3>2
      <4>2. k + m - 1 \geq i + 1
        BY <1>3, <1>5, <2>2
      <4>. QED BY <1>5, <4>1, <4>2
    <3>. QED BY <3>1, <3>3 DEF Is
  <2>. QED BY <1>11, <2>1, <2>2
<1>15. OpenMayRun'
  <2>. SUFFICES ASSUME NEW i \in 1..Len(agenda')
                PROVE  /\ Open(i)' => MayRun(Ancestors(agenda'[i].node))
                       /\ ~Entry(i)' => MayRun({agenda'[i].node} \cup Ancestors(agenda'[i].node))
    BY <1>3 DEF OpenMayRun, MayRun
  <2>1. CASE i \in 1..m
    <3>1. ~s => MayRun({g} \cup Ancestors(g))
      BY <1>3, <1>4 DEF Shape, OpenMayRun, MayRun
    <3>. QED BY <1>6, <1>8, <2>1, <3>1 DEF Open
  <2>2. CASE i \in m + 1..Len(agenda')
    BY <1>9, <2>2 DEF Shape, OpenMayRun
  <2>. QED BY <1>11, <2>1, <2>2
<1>16. SetUpDone'
  <2>0. \A h : Ready(h)' <=> Ready(h)
    BY <1>3 DEF Ready, Reported
  <2>. SUFFICES ASSUME NEW i \in 1..Len(agenda'), Open(i)',
                       NEW h \in Ancestors(agenda'[i].node) \cap SetUpOf, ~Ready(h)
                PROVE  \E j \in 1..i - 1 : Is(j, "setUp", h)'
    BY <2>0 DEF SetUpDone
  <2>1. CASE i \in 1..m
    <3>1. /\ i \in a + 1..a + n /\ ~s /\ m # 0 /\ h \in {g} \cup Ancestors(g)
      BY <1>6, <1>8, <2>1 DEF Open
    <3>2. ~(h \in Ancestors(g))
      <4>1. h \in Ancestors(g) => Ready(h) \/ \E j \in 1..1 - 1 : Is(j, "setUp", h)
        BY <1>3, <1>4, <3>1 DEF SetUpDone
      <4>. QED BY <4>1
    <3>3. h = g /\ a = 1 /\ agenda'[1] = Call("setUp", g, FALSE)
      BY <1>2, <3>1, <3>2 DEF VisitedEach
    <3>4. 1 \in 1..i - 1
      BY <1>5, <3>1, <3>3
    <3>. QED BY <3>3, <3>4 DEF Is, Call
  <2>2. CASE i \in m + 1..Len(agenda')
    <3>1. PICK j \in 1..(i - m + 1) - 1 : Is(j, "setUp", h)
      BY <1>9, <2>2 DEF SetUpDone
    <3>2. j # 1
      BY <1>3, <3>1 DEF Is
    <3>3. j \in 2..Len(agenda) /\ j + m - 1 \in 1..i - 1
      BY <1>3, <1>5, <1>9, <2>2, <3>2
    <3>. QED BY <1>10, <3>1, <3>3 DEF Is
  <2>. QED BY <1>11, <2>1, <2>2
<1>17. Owed'
  <2>1. \A h : Touched(h)' <=> Touched(h)
    BY <1>3 DEF Touched
  <2>2. ASSUME NEW h, NEW k \in 1..Len(agenda), Is(k, "tearDown", h)
        PROVE  \E j \in 1..Len(agenda') : Is(j, "tearDown", h)'
    <3>1. k \in 2..Len(agenda)
      BY <1>3, <2>2 DEF Is
    <3>2. k + m - 1 \in 1..Len(agenda') /\ agenda'[k + m - 1] = agenda[k]
      BY <1>5, <1>10, <3>1
    <3>. QED BY <2>2, <3>2 DEF Is
  <2>. QED BY <1>3, <2>1, <2>2 DEF Owed
<1>. QED BY <1>12, <1>13, <1>14, <1>15, <1>16, <1>17 DEF Shape

(* A run that has not been started stays so, and one that is over stays over. *)
BodiesStay == \A r \in Runs : /\ body'[r] = "idle" <=> body[r] = "idle"
                              /\ body[r] = "over" => body'[r] = "over"

LEMMA HookNames ==
    /\ \A g \in SetUpOf : <<"setUp", g>> \in Runs
    /\ \A g \in TearDownOf : <<"tearDown", g>> \in Runs
    /\ \A t \in Leaves : <<"test", t>> \in Runs
BY DEF Runs

LEMMA StayTouched ==
    ASSUME BodiesStay
    PROVE  /\ \A g : Touched(g)' <=> Touched(g)
           /\ \A g \in TearDownOf : body'[<<"tearDown", g>>] = "idle" <=>
                                    body[<<"tearDown", g>>] = "idle"
           /\ SkippedNeverRuns /\ opts' = opts => SkippedNeverRuns'
<1>1. \A r \in Runs : body'[r] = "idle" <=> body[r] = "idle"
  BY DEF BodiesStay
<1>2. ASSUME NEW g
      PROVE  Touched(g)' <=> Touched(g)
  <2>1. /\ g \in SetUpOf => (body'[<<"setUp", g>>] = "idle" <=> body[<<"setUp", g>>] = "idle")
        /\ \A t \in Leaves : body'[<<"test", t>>] = "idle" <=> body[<<"test", t>>] = "idle"
    BY <1>1, HookNames, Zenon
  <2>. QED BY <2>1, Zenon DEF Touched
<1>3. \A g \in TearDownOf : body'[<<"tearDown", g>>] = "idle" <=>
                            body[<<"tearDown", g>>] = "idle"
  BY <1>1, HookNames, Zenon
<1>4. SkippedNeverRuns /\ opts' = opts => SkippedNeverRuns'
  BY <1>1 DEF SkippedNeverRuns
<1>. QED BY <1>2, <1>3, <1>4, Zenon

(* A step that leaves the agenda and the report as they are. *)
LEMMA SameHooks ==
    ASSUME TypeOK, Shape, SetUpDone, Owed, SkippedNeverRuns, BodiesStay,
           UNCHANGED <<opts, agenda, cases>>
    PROVE  Shape' /\ SetUpDone' /\ Owed' /\ SkippedNeverRuns'
<1>1. \A i \in 1..Len(agenda) : \A kind, g :
         /\ Is(i, kind, g)' <=> Is(i, kind, g)
         /\ Entry(i)' <=> Entry(i)
         /\ Open(i)' <=> Open(i)
  BY DEF Is, Entry, Open
<1>2. Shape'
  <2>1. agenda \in Seq(Item) /\ agenda' \in Seq(Item) /\ 0 \in Nat
    BY DEF TypeOK
  <2>2. Drops(0)
    BY <2>1, LenProperties DEF Drops
  <2>. QED BY <2>1, <2>2, DropsShape
<1>3. \A g \in SetUpOf : Ready(g) => Ready(g)'
  BY HookNames DEF Ready, Reported, BodiesStay
<1>4. SetUpDone'
  BY <1>3 DEF SetUpDone, Is, Entry, Open
<1>5. Owed'
  BY StayTouched DEF Owed, Is
<1>. QED BY <1>2, <1>4, <1>5, StayTouched

(* A step that leaves the first m calls: a setUpAll that ran and its group's entries, or
   one call. *)
LEMMA DropHooks ==
    ASSUME TypeOK, TypeOK', Shape, SetUpDone, Owed, SkippedNeverRuns, agenda # <<>>,
           opts' = opts, body' = body, NEW m \in Nat \ {0}, Drops(m),
           NEW h, h = Current.node,
           \A i \in 2..m : Entry(i),
           \A r : Reported(r)' => Reported(r) \/ r = NameOf(Current),
           Current.kind = "tearDown" => body[NameOf(Current)] # "idle",
           Current.kind = "setUp" => \/ m = 1 /\ Ready(h)'
                                     \/ m = 1 + Len(Entries[Current.node])
    PROVE  Shape' /\ SetUpDone' /\ Owed' /\ SkippedNeverRuns'
<1>1. /\ Len(agenda) \in Nat /\ Len(agenda') \in Nat /\ Len(agenda) = Len(agenda') + m
      /\ \A i \in 1..Len(agenda') : /\ i + m \in 1..Len(agenda) /\ i + m # 1
                                    /\ agenda'[i] = agenda[i + m]
      /\ Current = agenda[1] /\ 1 \in 1..Len(agenda)
  BY LenProperties DEF Drops, Current, TypeOK
<1>2. Shape'
  <2>1. agenda \in Seq(Item) /\ agenda' \in Seq(Item)
    BY DEF TypeOK
  <2>. QED BY <2>1, DropsShape
<1>3. ASSUME NEW j \in 2..Len(agenda), NEW kind \in {"setUp", "tearDown"}, NEW g,
             Is(j, kind, g)
      PROVE  j - m \in 1..Len(agenda') /\ Is(j - m, kind, g)'
  <2>1. j \notin 2..m
    BY <1>3 DEF Is, Entry
  <2>2. j - m \in 1..Len(agenda') /\ (j - m) + m = j
    BY <1>1, <2>1
  <2>3. agenda'[j - m] = agenda[j]
    BY <1>1, <2>2
  <2>. QED BY <1>3, <2>2, <2>3 DEF Is
<1>4. SetUpDone'
  <2>. SUFFICES ASSUME NEW i \in 1..Len(agenda'), Open(i)',
                       NEW g \in Ancestors(agenda'[i].node) \cap SetUpOf
                PROVE  Ready(g)' \/ \E j \in 1..i - 1 : Is(j, "setUp", g)'
    BY DEF SetUpDone
  <2>1. i + m \in 1..Len(agenda) /\ Open(i + m) /\ g \in Ancestors(agenda[i + m].node)
    BY <1>1 DEF Open, Entry
  <2>2. CASE Is(1, "setUp", g)
    <3>1. Current.kind = "setUp" /\ Current.node = g
      BY <1>1, <2>2 DEF Is
    <3>2. CASE Ready(h)'
      BY <3>1, <3>2
    <3>3. CASE m = 1 + Len(Entries[Current.node])
      <4>. DEFINE n == Len(Entries[g])
      <4>1. n \in Nat /\ m = 1 + n
        <5>1. Current \in Item
          BY <1>1 DEF TypeOK
        <5>2. g \in Groups
          BY <3>1, <5>1, SuiteAssumption DEF Item
        <5>. QED BY <3>1, <3>3, <5>2, SuiteAssumption
      <4>2. \A k \in 1 + n + 1..Len(agenda) : Entry(k) => g \notin Ancestors(agenda[k].node)
        BY <1>1, <3>1 DEF Shape, SetUpLeads
      <4>. HIDE DEF n
      <4>3. i + m \in 1 + n + 1..Len(agenda)
        BY <1>1, <4>1
      <4>. QED BY <2>1, <4>2, <4>3 DEF Open
    <3>. QED BY <3>1, <3>2, <3>3
  <2>3. CASE ~Is(1, "setUp", g)
    <3>1. CASE Ready(g)
      <4>1. NameOf(Current) # <<"setUp", g>>
        BY <1>1, <2>3 DEF NameOf, Is
      <4>. QED BY <3>1, <4>1 DEF Ready
    <3>2. CASE ~Ready(g)
      <4>1. PICK j \in 1..(i + m) - 1 : Is(j, "setUp", g)
        BY <2>1, <3>2 DEF SetUpDone
      <4>2. j # 1
        BY <2>3, <4>1
      <4>3. j \in 2..Len(agenda)
        BY <1>1, <2>1, <4>2
      <4>4. j - m \in 1..Len(agenda') /\ Is(j - m, "setUp", g)'
        BY <1>3, <4>1, <4>3
      <4>5. j - m \in 1..i - 1
        BY <1>1, <4>4
      <4>. QED BY <4>4, <4>5
    <3>. QED BY <3>1, <3>2
  <2>. QED BY <2>2, <2>3
<1>5. BodiesStay
  BY DEF BodiesStay
<1>6. Owed'
  <2>. SUFFICES ASSUME NEW g \in TearDownOf, Touched(g), body[<<"tearDown", g>>] = "idle"
                PROVE  \E k \in 1..Len(agenda') : Is(k, "tearDown", g)'
    BY <1>5, StayTouched DEF Owed
  <2>1. PICK k \in 1..Len(agenda) : Is(k, "tearDown", g)
    BY DEF Owed
  <2>2. k # 1
    BY <1>1, <2>1 DEF Is, NameOf
  <2>3. k \in 2..Len(agenda)
    BY <1>1, <2>2
  <2>. QED BY <1>3, <2>1, <2>3
<1>. QED BY <1>2, <1>4, <1>5, <1>6, StayTouched

(* The start of a run: of a test that is not skipped, between the hooks of the groups that
   hold it, or of a hook. *)
LEMMA StartHooks ==
    ASSUME TypeOK, Once, Shape, SetUpDone, Owed, SkippedNeverRuns, StartRun
    PROVE  Shape' /\ SetUpDone' /\ Owed' /\ SkippedNeverRuns' /\ AtRun'
<1>. DEFINE r == NameOf(Current)
<1>1. /\ agenda # <<>> /\ pc = "step" /\ pc' = "drain" /\ ~IsSkipped(Current)
      /\ Current.kind \in {"test", "setUp", "tearDown"}
      /\ UNCHANGED <<opts, agenda, cases>>
      /\ body' = [body EXCEPT ![r] = "running"]
  BY DEF StartRun, AtCall, AtItem
<1>2. /\ Current = agenda[1] /\ 1 \in 1..Len(agenda) /\ Len(agenda) \in Nat
      /\ Current \in Item
  BY <1>1, LenProperties DEF Current, TypeOK
<1>3. r \in Runs /\ r[1] = Current.kind /\ r[2] = Current.node
  BY <1>1, <1>2, NameOfType DEF NameOf
<1>4. body[r] = "idle"
  <2>1. r \in RunsUnder(agenda[1]) /\ FreshFrom(1)
    BY <1>1, <1>2 DEF RunsUnder, Once
  <2>. QED BY <1>2, <2>1 DEF FreshFrom, Untouched
<1>5. \A q \in Runs : IF q = r THEN body'[q] # "idle" ELSE body'[q] = body[q]
  BY <1>1, <1>3 DEF TypeOK
<1>. HIDE DEF r
<1>6. Shape'
  <2>1. agenda \in Seq(Item) /\ agenda' \in Seq(Item) /\ 0 \in Nat
    BY <1>1 DEF TypeOK
  <2>2. Drops(0)
    BY <1>1, <2>1, LenProperties DEF Drops
  <2>. QED BY <1>1, <2>1, <2>2, DropsShape
<1>7. SetUpDone'
  <2>1. \A g \in SetUpOf : Ready(g) => Ready(g)'
    BY <1>1, <1>4, <1>5, HookNames DEF Ready, Reported
  <2>. QED BY <1>1, <2>1 DEF SetUpDone, Is, Entry, Open
<1>8. Current.kind = "test" => Open(1) /\ Current.node \notin opts.skip
  BY <1>1, <1>2 DEF IsSkipped, Open, Entry
<1>9. Owed'
  <2>. SUFFICES ASSUME NEW g \in TearDownOf, Touched(g)', body'[<<"tearDown", g>>] = "idle"
                PROVE  \E k \in 1..Len(agenda) : Is(k, "tearDown", g)
    BY <1>1 DEF Owed, Is
  <2>1. body[<<"tearDown", g>>] = "idle"
    BY <1>5, HookNames
  <2>2. CASE Touched(g)
    BY <2>1, <2>2 DEF Owed
  <2>3. CASE ~Touched(g)
    <3>1. Is(1, "setUp", g) \/ (Open(1) /\ g \in Ancestors(agenda[1].node))
      <4>1. CASE g \in SetUpOf /\ body'[<<"setUp", g>>] # "idle"
        <5>1. r = <<"setUp", g>>
          BY <1>5, <2>3, <4>1, HookNames DEF Touched
        <5>. QED BY <1>2, <5>1 DEF r, NameOf, Is
      <4>2. ASSUME NEW t \in Below[g] \cap Leaves, body'[<<"test", t>>] # "idle"
            PROVE  Open(1) /\ g \in Ancestors(agenda[1].node)
        <5>1. r = <<"test", t>>
          BY <1>5, <2>3, <4>2, HookNames DEF Touched
        <5>2. Current.kind = "test" /\ Current.node = t
          BY <1>3, <5>1
        <5>. QED BY <1>2, <1>8, <5>2, SuiteAssumption DEF Ancestors
      <4>. QED BY <4>1, <4>2 DEF Touched
    <3>2. PICK k \in 1 + 1..Len(agenda) : Is(k, "tearDown", g)
      BY <1>2, <3>1 DEF Shape, TearDownComes
    <3>3. k \in 1..Len(agenda)
      BY <1>2
    <3>. QED BY <3>2, <3>3
  <2>. QED BY <2>2, <2>3
<1>10. SkippedNeverRuns'
  <2>1. MayRun({Current.node} \cup Ancestors(Current.node))
    <3>1. CASE Current.kind = "test"
      BY <1>2, <1>8, <3>1 DEF Shape, OpenMayRun, MayRun
    <3>2. CASE Current.kind # "test"
      BY <1>1, <1>2, <3>2 DEF Shape, OpenMayRun, Entry
    <3>. QED BY <3>1, <3>2
  <2>. QED BY <1>1, <1>3, <1>5, <2>1 DEF SkippedNeverRuns, MayRun
<1>11. AtRun'
  <2>1. Current' = Current
    BY <1>1 DEF Current
  <2>. QED BY <1>1, <1>3, <1>5, <2>1 DEF AtRun, IsSkipped, r
<1>. QED BY <1>6, <1>7, <1>9, <1>10, <1>11

(* The first visit: nothing has run, and the root holds everything. *)
LEMMA LoadHooks ==
    ASSUME TypeOK, TypeOK', Once, SkippedNeverRuns, LoadSucceeds
    PROVE  Shape' /\ SetUpDone' /\ Owed' /\ SkippedNeverRuns'
<1>1. /\ opts' = opts /\ body' = body
      /\ agenda' = << [kind |-> "group", node |-> Root, skip |-> ~opts.testOn] >>
      /\ \A q \in Runs : body[q] = "idle"
  BY DEF LoadSucceeds, listenVars, Once, Untouched
<1>2. Len(agenda') = 1 /\ agenda'[1].kind = "group" /\ agenda'[1].node = Root
      /\ agenda'[1].skip = ~opts.testOn /\ opts.testOn \in BOOLEAN
      /\ \A i \in 1..1 : i = 1
  BY <1>1, CoreAssumption DEF TypeOK
<1>3. Ancestors(Root) = {}
  BY RootHoldsAll, TreeAssumption, SuiteAssumption DEF Ancestors
<1>4. Apart' /\ SetUpLeads'
  BY <1>2 DEF Apart, SetUpLeads
<1>5. TearDownComes'
  BY <1>2, <1>3 DEF TearDownComes, Open, Is
<1>6. OpenMayRun'
  BY <1>1, <1>2, <1>3 DEF OpenMayRun, Open, Entry, MayRun
<1>7. SetUpDone'
  BY <1>2, <1>3 DEF SetUpDone, Open
<1>8. BodiesStay
  BY <1>1 DEF BodiesStay
<1>9. \A g \in TearDownOf : ~Touched(g)
  BY <1>1, HookNames DEF Touched
<1>. QED BY <1>1, <1>4, <1>5, <1>6, <1>7, <1>8, <1>9, StayTouched DEF Shape, Owed

LEMMA TailDrops ==
    ASSUME NEW S, agenda \in Seq(S), agenda # <<>>, agenda' = Tail(agenda)
    PROVE  Drops(1)
BY DEF Drops

LEMMA SubSeqDrops ==
    ASSUME NEW S, agenda \in Seq(S), NEW n \in Nat, 1 + n \leq Len(agenda),
           agenda' = SubSeq(agenda, 2 + n, Len(agenda))
    PROVE  Drops(1 + n)
<1>1. Len(agenda) \in Nat
  BY LenProperties
<1>2. Len(agenda') = Len(agenda) - (1 + n)
  BY <1>1
<1>3. \A i \in 1..Len(agenda') : agenda'[i] = agenda[i + (1 + n)]
  BY <1>1, <1>2
<1>. QED BY <1>2, <1>3 DEF Drops

LEMMA CoreStepHooks ==
    ASSUME IInv, HooksInv, CoreStep
    PROVE  HooksInv'
<1>1. TypeOK /\ TypeOK' /\ Busy /\ Once /\ EndsOver
  BY CoreStepType DEF IInv
<1>2. Shape /\ SetUpDone /\ Owed /\ AtRun /\ SkippedNeverRuns
  BY DEF HooksInv
<1>3. ASSUME agenda # <<>>
      PROVE  Current \in Item /\ Current = agenda[1]
  BY <1>1, <1>3 DEF TypeOK, Current
<1>4. CASE LoadPrint \/ DrainText \/ DrainState \/ DrainUnknown \/ DrainSpawn
           \/ DrainComplete \/ Dropped \/ AllVisited
  <2>1. UNCHANGED <<opts, agenda, cases, body>>
    BY <1>4 DEF LoadPrint, DrainText, DrainState, DrainUnknown, DrainSpawn,
                DrainComplete, Dropped, AllVisited, Drains, coreVars, listenVars
  <2>2. /\ pc' \in {"drain", "end"} => pc \in {"drain", "end"}
        /\ pc' \in {"load", "complete", "done"} =>
              pc \in {"load", "complete", "done"} \/ agenda = <<>>
    BY <1>4 DEF LoadPrint, DrainText, DrainState, DrainUnknown, DrainSpawn,
                DrainComplete, Dropped, AllVisited, Drains, WriteThen, coreVars
  <2>3. BodiesStay
    BY <2>1 DEF BodiesStay
  <2>4. AtRun'
    <3>1. Current' = Current
      BY <2>1 DEF Current
    <3>. QED BY <1>2, <2>1, <2>2, <3>1 DEF AtRun, IsSkipped
  <2>. QED BY <1>1, <1>2, <2>1, <2>3, <2>4, SameHooks DEF HooksInv
<1>5. CASE LoadFails
  <2>1. /\ UNCHANGED <<opts, agenda, body>> /\ agenda = <<>>
        /\ pc' \in {"complete", "dead"}
    BY <1>1, <1>5 DEF LoadFails, Finish, WriteThen, listenVars, Once
  <2>2. /\ Len(agenda') = 0 /\ 1..0 = {} /\ Len(agenda) = 0
    BY <2>1
  <2>3. Shape' /\ SetUpDone'
    BY <2>2 DEF Shape, Apart, SetUpLeads, TearDownComes, OpenMayRun, SetUpDone
  <2>4. BodiesStay
    BY <2>1 DEF BodiesStay
  <2>5. Owed'
    BY <1>2, <2>1, <2>2, <2>4, StayTouched DEF Owed
  <2>. QED BY <1>2, <2>1, <2>3, <2>4, <2>5, StayTouched DEF HooksInv, AtRun
<1>6. CASE LoadSucceeds
  <2>1. pc' = "step"
    BY <1>6 DEF LoadSucceeds
  <2>. QED BY <1>1, <1>2, <1>6, <2>1, LoadHooks DEF HooksInv, AtRun
<1>7. CASE VisitGroup
  <2>1. pc' = "step" /\ UNCHANGED <<opts, body>> /\ agenda' \in Seq(Item)
    BY <1>1, <1>7 DEF VisitGroup, AtItem, listenVars, TypeOK
  <2>2. BodiesStay
    BY <2>1 DEF BodiesStay
  <2>3. Shape' /\ SetUpDone' /\ Owed'
    BY <1>1, <1>2, <1>7, <2>1, VisitShape
  <2>. QED BY <1>2, <2>1, <2>2, <2>3, StayTouched DEF HooksInv, AtRun
<1>8. CASE PassOver \/ SkipTest \/ TestEnds
  <2>1. /\ agenda # <<>> /\ agenda' = Tail(agenda) /\ UNCHANGED <<opts, body>>
        /\ Current.kind = "test" /\ pc' \in {"step", "dead"}
    BY <1>1, <1>8 DEF PassOver, SkipTest, TestEnds, AtCall, AtItem, AtEnd, Busy, Finish,
                WriteThen, AgendaAfterTest, listenVars
  <2>2. \A r : Reported(r)' => Reported(r) \/ r = NameOf(Current)
    <3>1. CASE PassOver
      BY <3>1 DEF PassOver, Reported
    <3>2. CASE SkipTest \/ TestEnds
      <4>1. \E o, p : Finish(NameOf(Current), o, p)
        BY <3>2 DEF SkipTest, TestEnds
      <4>. QED BY <1>1, <4>1, AppendReports
    <3>. QED BY <1>8, <3>1, <3>2
  <2>3. Drops(1) /\ 1 \in Nat \ {0} /\ 2..1 = {}
    BY <1>1, <2>1, TailDrops DEF TypeOK
  <2>4. Shape' /\ SetUpDone' /\ Owed' /\ SkippedNeverRuns'
    BY <1>1, <1>2, <2>1, <2>2, <2>3, DropHooks
  <2>. QED BY <2>1, <2>4 DEF HooksInv, AtRun
<1>9. CASE StartRun
  BY <1>1, <1>2, <1>9, StartHooks DEF HooksInv
<1>10. CASE HookSucceeds
  <2>1. /\ agenda # <<>> /\ agenda' = Tail(agenda) /\ UNCHANGED <<opts, body, cases>>
        /\ Current.kind \in {"setUp", "tearDown"} /\ pc' = "step"
        /\ pc = "end" /\ result = "success"
    BY <1>1, <1>10 DEF HookSucceeds, AtEnd, Busy, listenVars
  <2>2. \A r : Reported(r)' <=> Reported(r)
    BY <2>1 DEF Reported
  <2>3. Drops(1) /\ 1 \in Nat \ {0} /\ 2..1 = {}
    BY <1>1, <2>1, TailDrops DEF TypeOK
  <2>4. PICK h : h = Current.node
    OBVIOUS
  <2>5. Current.kind = "setUp" => Ready(h)'
    <3>1. body[NameOf(Current)] = "over" /\ ~Reported(NameOf(Current))
      BY <1>1, <2>1 DEF EndsOver, Once
    <3>2. Current.kind = "setUp" => NameOf(Current) = <<"setUp", h>>
      BY <2>4 DEF NameOf
    <3>. QED BY <2>1, <2>2, <3>1, <3>2 DEF Ready
  <2>6. body[NameOf(Current)] # "idle"
    BY <1>2, <2>1 DEF AtRun
  <2>7. Shape' /\ SetUpDone' /\ Owed' /\ SkippedNeverRuns'
    BY <1>1, <1>2, <2>1, <2>2, <2>3, <2>4, <2>5, <2>6, DropHooks
  <2>. QED BY <2>1, <2>7 DEF HooksInv, AtRun
<1>11. CASE HookFails
  <2>1. /\ agenda # <<>> /\ agenda' = AgendaAfterFailure /\ UNCHANGED <<opts, body>>
        /\ Current.kind \in {"setUp", "tearDown"} /\ pc' \in {"step", "dead"}
        /\ pc = "end" /\ \E o, p : Finish(NameOf(Current), o, p)
    BY <1>1, <1>11 DEF HookFails, AtEnd, Busy, Finish, WriteThen, listenVars
  <2>2. \A r : Reported(r)' => Reported(r) \/ r = NameOf(Current)
    BY <1>1, <2>1, AppendReports
  <2>3. body[NameOf(Current)] # "idle"
    BY <1>2, <2>1 DEF AtRun
  <2>4. CASE Current.kind = "tearDown"
    <3>1. Drops(1) /\ 1 \in Nat \ {0} /\ 2..1 = {}
      BY <1>1, <2>1, <2>4, TailDrops DEF TypeOK, AgendaAfterFailure
    <3>2. Shape' /\ SetUpDone' /\ Owed' /\ SkippedNeverRuns'
      BY <1>1, <1>2, <2>1, <2>2, <2>3, <2>4, <3>1, DropHooks
    <3>. QED BY <2>1, <3>2 DEF HooksInv, AtRun
  <2>5. CASE Current.kind = "setUp"
    <3>. DEFINE n == Len(Entries[Current.node])
    <3>1. n \in Nat
      <4>1. Current.node \in Groups
        BY <1>3, <2>1, <2>5, SuiteAssumption DEF Item
      <4>. QED BY <4>1, SuiteAssumption
    <3>2. 1 + n \leq Len(agenda) /\ \A i \in 1 + 1..1 + n : Entry(i)
      <4>1. 1 \in 1..Len(agenda)
        BY <1>1, <2>1 DEF TypeOK
      <4>. QED BY <1>2, <1>3, <2>1, <2>5, <4>1 DEF Shape, SetUpLeads
    <3>3. agenda' = SubSeq(agenda, 2 + n, Len(agenda))
      BY <2>1, <2>5 DEF AgendaAfterFailure
    <3>4. \A h : h = Current.node => 1 + n = 1 + Len(Entries[Current.node])
      OBVIOUS
    <3>. HIDE DEF n
    <3>5. Drops(1 + n) /\ 1 + n \in Nat \ {0} /\ \A i \in 2..1 + n : Entry(i)
      BY <1>1, <3>1, <3>2, <3>3, SubSeqDrops DEF TypeOK
    <3>6. PICK h : h = Current.node
      OBVIOUS
    <3>7. Shape' /\ SetUpDone' /\ Owed' /\ SkippedNeverRuns'
      BY <1>1, <1>2, <2>1, <2>2, <2>5, <3>4, <3>5, <3>6, DropHooks
    <3>. QED BY <2>1, <3>7 DEF HooksInv, AtRun
  <2>. QED BY <2>1, <2>4, <2>5
<1>. QED BY <1>4, <1>5, <1>6, <1>7, <1>8, <1>9, <1>10, <1>11 DEF CoreStep

LEMMA ListenerHooks ==
    ASSUME IInv, HooksInv, Listener
    PROVE  HooksInv'
<1>1. UNCHANGED <<opts, pc, agenda, cases>>
  BY DEF Listener, DeclarationPrints, SuiteAnswers, RootStrays, BodyChangesState,
         BodySays, BodyCompletes, coreVars
<1>2. BodiesStay
  BY DEF Listener, DeclarationPrints, SuiteAnswers, RootStrays, BodyChangesState,
         BodySays, BodyCompletes, IInv, TypeOK, BodiesStay
<1>3. AtRun'
  <2>1. pc \in {"drain", "end"} => NameOf(Current) \in Runs
    <3>1. pc \in {"drain", "end"} => Current \in Item /\ Current.kind # "group"
      BY DEF IInv, Busy, TypeOK, Current
    <3>. QED BY <3>1, NameOfType
  <2>2. Current' = Current
    BY <1>1 DEF Current
  <2>. QED BY <1>1, <1>2, <2>1, <2>2 DEF HooksInv, AtRun, IsSkipped, BodiesStay
<1>. QED BY <1>1, <1>2, <1>3, SameHooks DEF HooksInv, IInv

LEMMA InitHooks == Init => HooksInv
<1>. SUFFICES ASSUME Init PROVE HooksInv
  OBVIOUS
<1>1. /\ agenda = <<>> /\ Len(agenda) = 0 /\ 1..0 = {} /\ pc = "load"
      /\ \A r \in Runs : body[r] = "idle"
  BY DEF Init
<1>2. Shape /\ SetUpDone
  BY <1>1 DEF Shape, Apart, SetUpLeads, TearDownComes, OpenMayRun, SetUpDone
<1>3. Owed
  BY <1>1, HookNames DEF Owed, Touched
<1>4. AtRun /\ SkippedNeverRuns
  BY <1>1 DEF AtRun, SkippedNeverRuns
<1>. QED BY <1>2, <1>3, <1>4 DEF HooksInv

LEMMA NextHooks == IInv /\ HooksInv /\ [Next]_vars => HooksInv'
<1>. SUFFICES ASSUME IInv, HooksInv, [Next]_vars PROVE HooksInv'
  OBVIOUS
<1>1. CASE UNCHANGED vars \/ OnComplete
  <2>1. /\ UNCHANGED <<opts, agenda, cases, body>>
        /\ pc' = pc \/ (pc = "complete" /\ pc' = "done")
    BY <1>1 DEF vars, coreVars, listenVars, OnComplete
  <2>2. BodiesStay /\ Current' = Current
    BY <2>1 DEF BodiesStay, Current
  <2>3. AtRun'
    BY <2>1, <2>2 DEF HooksInv, AtRun, IsSkipped
  <2>. QED BY <2>1, <2>2, <2>3, SameHooks DEF HooksInv, IInv
<1>. QED BY <1>1, CoreStepHooks, ListenerHooks DEF Next

LEMMA HooksFollow == IInv /\ HooksInv => HooksBracket
<1>. SUFFICES ASSUME IInv, HooksInv PROVE HooksBracket
  OBVIOUS
<1>1. HooksAround
  <2>. SUFFICES ASSUME NEW t \in Leaves, IsCurrent(<<"test", t>>), NEW g \in Ancestors(t)
                PROVE  /\ g \in SetUpOf => Ready(g)
                       /\ g \in TearDownOf => body[<<"tearDown", g>>] = "idle"
    BY DEF HooksAround, Ready
  <2>1. /\ pc \in {"drain", "end"} /\ agenda # <<>> /\ Current = agenda[1]
        /\ 1 \in 1..Len(agenda) /\ Len(agenda) \in Nat
        /\ Current.kind = "test" /\ Current.node = t
    BY LenProperties DEF IsCurrent, IInv, Busy, TypeOK, Current, NameOf
  <2>2. Open(1)
    BY <2>1 DEF HooksInv, AtRun, IsSkipped, Open, Entry
  <2>3. g \in SetUpOf => Ready(g)
    <3>1. g \in SetUpOf => Ready(g) \/ \E j \in 1..1 - 1 : Is(j, "setUp", g)
      BY <2>1, <2>2 DEF HooksInv, SetUpDone
    <3>. QED BY <3>1
  <2>4. ASSUME g \in TearDownOf
        PROVE  body[<<"tearDown", g>>] = "idle"
    <3>1. PICK k \in 1 + 1..Len(agenda) : Is(k, "tearDown", g)
      BY <2>1, <2>2, <2>4 DEF HooksInv, Shape, TearDownComes
    <3>2. <<"tearDown", g>> \in RunsUnder(agenda[k])
      BY <3>1 DEF Is, RunsUnder, NameOf
    <3>3. k \in 2..Len(agenda) /\ FreshFrom(2)
      BY <2>1, <3>1 DEF IInv, Once
    <3>. QED BY <3>2, <3>3 DEF FreshFrom, Untouched
  <2>. QED BY <2>3, <2>4
<1>2. TearDownsOwed
  <2>. SUFFICES ASSUME pc \in {"complete", "done"}, NEW g \in TearDownOf
                PROVE  body[<<"tearDown", g>>] # "idle" \/ ~Touched(g)
    BY DEF TearDownsOwed, Touched
  <2>1. Len(agenda) = 0 /\ 1..0 = {}
    BY DEF HooksInv, AtRun
  <2>. QED BY <2>1 DEF HooksInv, Owed
<1>. QED BY <1>1, <1>2 DEF HooksBracket

(* For every suite: a test runs after the setUpAll of every group that holds it and before
   their tearDownAll, and a group of which anything ran has its tearDownAll run. *)
THEOREM HooksBracketCorrect == Spec => []HooksBracket
<1>. QED BY InitInv, NextInv, InitHooks, NextHooks, HooksFollow, PTL DEF Spec
=============================================================================
