----------------------------- MODULE KernelProofs -----------------------------
(* The kernel of a test, with and without the worker.

   PruneSound for every set of sources, every import graph and every history of
   edits and builds.  The compile's reads are a closure of the import relation;
   the heart of the proof is that two states which agree on the files one of
   them reads have the same closure (SameReach), and that the unused list names
   none of those files (ReadIsKeyed).

   Hermetic for every set of paths, bases and keys, with failing operations and
   kills at every step.  The argument is about the two records of the view: the
   worker's own, _links, is always what the file system holds (LinksAreReal),
   so deleting what _links holds and the request does not, and adding what the
   request holds and _links does not, leaves exactly the request's inputs.    *)
EXTENDS KernelAction, KernelWorker, TLAPS

Disks == [Kept \cup Prunable \cup {Dill} -> Versions]

(* The entry is what a successful run of a past state leaves. *)
EntryOK ==
    entry # None =>
        /\ entry.kind = "entry"
        /\ entry.declared \in SUBSET Prunable
        /\ entry.disk \in Disks
        /\ entry.unused = Unused(entry.declared, entry.disk)
        /\ entry.output = Output(entry.declared, entry.disk)
        /\ Compiles(entry.declared, entry.disk)

ActionInv ==
    /\ disk \in Disks
    /\ declared \in SUBSET Prunable
    /\ EntryOK
    /\ PruneSound

-----------------------------------------------------------------------------
(* A library that is read has its file among the inputs. *)
LEMMA ReadFileIsInput ==
    ASSUME NEW decl \in SUBSET Prunable, NEW u \in Uris, IsRead(u, decl)
    PROVE  FileOf(u, decl) \in Inputs(decl) /\ FileOf(u, decl) \in Files
<1>1. FileOf(u, decl) \in Inputs(decl)
  BY DEF IsRead, Resolves, FileOf, Roots
<1>2. FileOf(u, decl) \in Files
  BY DEF FileOf, Files, Roots
<1> QED BY <1>1, <1>2

(* What a file that is read imports are URIs. *)
LEMMA ImportsAreUris ==
    ASSUME NEW decl \in SUBSET Prunable, NEW d \in Disks,
           NEW u \in Uris, IsRead(u, decl)
    PROVE  Imports[FileOf(u, decl)][d[FileOf(u, decl)]] \subseteq Uris
<1> DEFINE f == FileOf(u, decl)
<1>1. f \in Inputs(decl) /\ f \in Files
  BY ReadFileIsInput
<1> HIDE DEF f
<1>2. d[f] \in Versions
  BY <1>1 DEF Disks, Inputs
<1>3. Imports[f][d[f]] \subseteq Uris
  BY <1>1, <1>2, ActionAssumption
<1> QED BY <1>3 DEF f

(* What the compile reaches is closed under its imports. *)
LEMMA ReachIsClosed ==
    ASSUME NEW decl \in SUBSET Prunable, NEW d \in Disks
    PROVE  Closed(Reach(decl, d), decl, d)
<1>1. Entry \in Reach(decl, d)
  BY ActionAssumption DEF Reach, Closed
<1>2. ASSUME NEW u \in Reach(decl, d), IsRead(u, decl),
             NEW v \in Imports[FileOf(u, decl)][d[FileOf(u, decl)]]
      PROVE  v \in Reach(decl, d)
  <2>1. u \in Uris
    BY <1>2 DEF Reach
  <2>2. v \in Uris
    BY <1>2, <2>1, ImportsAreUris
  <2>3. ASSUME NEW S \in SUBSET Uris, Closed(S, decl, d)
        PROVE  v \in S
    <3>1. u \in S
      BY <1>2, <2>3 DEF Reach
    <3> QED BY <3>1, <1>2, <2>3 DEF Closed
  <2> QED BY <2>2, <2>3 DEF Reach
<1> QED BY <1>1, <1>2 DEF Closed

(* Two disks that agree on what a compile of the first reads have one closure. *)
LEMMA SameReach ==
    ASSUME NEW decl \in SUBSET Prunable, NEW d \in Disks, NEW e \in Disks,
           \A u \in ReadUris(decl, d) : d[FileOf(u, decl)] = e[FileOf(u, decl)]
    PROVE  Reach(decl, d) = Reach(decl, e)
<1> DEFINE R == Reach(decl, d)
<1>0. R \in SUBSET Uris
  BY DEF Reach
<1>1. Closed(R, decl, d)
  BY ReachIsClosed
<1>2. \A u \in R : IsRead(u, decl) => d[FileOf(u, decl)] = e[FileOf(u, decl)]
  BY DEF ReadUris
<1>3. Closed(R, decl, e)
  BY <1>1, <1>2 DEF Closed
<1>4. Reach(decl, e) \subseteq R
  BY <1>0, <1>3 DEF Reach
<1>5. ASSUME NEW S \in SUBSET Uris, Closed(S, decl, e)
      PROVE  R \subseteq S
  <2>1. Closed(S \cap R, decl, d)
    BY <1>1, <1>2, <1>5 DEF Closed
  <2>2. S \cap R \in SUBSET Uris
    OBVIOUS
  <2>3. R \subseteq S \cap R
    BY <2>1, <2>2 DEF Reach
  <2> QED BY <2>3
<1>6. R \subseteq Reach(decl, e)
  BY <1>0, <1>5 DEF Reach
<1> QED BY <1>4, <1>6

(* ... and so the same result, given the same import dill. *)
LEMMA SameOutput ==
    ASSUME NEW decl \in SUBSET Prunable, NEW d \in Disks, NEW e \in Disks,
           d[Dill] = e[Dill],
           \A u \in ReadUris(decl, d) : d[FileOf(u, decl)] = e[FileOf(u, decl)]
    PROVE  Output(decl, d) = Output(decl, e)
<1>1. Reach(decl, d) = Reach(decl, e)
  BY SameReach
<1>2. Compiles(decl, d) <=> Compiles(decl, e)
  BY <1>1 DEF Compiles
<1>3. ReadFiles(decl, d) = ReadFiles(decl, e)
  BY <1>1 DEF ReadFiles, ReadUris
<1>4. \A f \in ReadFiles(decl, d) : d[f] = e[f]
  BY DEF ReadFiles
<1>5. {<<f, d[f]>> : f \in ReadFiles(decl, d)} = {<<f, e[f]>> : f \in ReadFiles(decl, e)}
  <2> DEFINE F == ReadFiles(decl, d)
  <2>1. \A f \in F : d[f] = e[f]
    BY <1>4
  <2> HIDE DEF F
  <2>2. {<<f, d[f]>> : f \in F} = {<<f, e[f]>> : f \in F}
    BY <2>1
  <2> QED BY <2>2, <1>3 DEF F
<1> QED BY <1>2, <1>5 DEF Output

(* A file the compile reads is an input that the unused list does not name. *)
LEMMA ReadIsKeyed ==
    ASSUME NEW decl \in SUBSET Prunable, NEW d \in Disks, NEW u \in ReadUris(decl, d)
    PROVE  FileOf(u, decl) \in Inputs(decl) \ Unused(decl, d)
<1>1. u \in Uris /\ u \in Reach(decl, d) \ InSeed /\ Resolves(u, decl) /\ IsRead(u, decl)
  BY DEF ReadUris, Reach, IsRead
<1>2. FileOf(u, decl) \in Inputs(decl)
  BY <1>1, ReadFileIsInput
<1>3. FileOf(u, decl) \in Attributed(u, decl)
  BY <1>1 DEF Attributed
<1>4. FileOf(u, decl) \notin Unused(decl, d)
  BY <1>1, <1>3 DEF Unused
<1> QED BY <1>2, <1>4

(* The import dill is always keyed. *)
LEMMA DillIsKeyed ==
    ASSUME NEW decl \in SUBSET Prunable, NEW d \in Disks
    PROVE  Dill \in (Inputs(decl) \cup {Dill}) \ Unused(decl, d)
<1>1. Dill \notin Files
  BY DEF Dill, Files, Roots
<1>2. Unused(decl, d) \subseteq Files
  BY ActionAssumption DEF Unused
<1> QED BY <1>1, <1>2

-----------------------------------------------------------------------------
(* What Bazel takes for up to date is what a compile would write now. *)
LEMMA UpToDateIsCurrent ==
    ASSUME ActionInv, UpToDate
    PROVE  entry.output = Output(declared, disk)
<1> DEFINE e == entry.disk
<1>1. /\ declared \in SUBSET Prunable /\ disk \in Disks /\ e \in Disks
      /\ entry.declared = declared
      /\ entry.unused = Unused(declared, e)
      /\ entry.output = Output(declared, e)
  BY DEF ActionInv, EntryOK, UpToDate
<1>2. \A f \in (Inputs(declared) \cup {Dill}) \ Unused(declared, e) : disk[f] = e[f]
  BY <1>1 DEF UpToDate
<1> HIDE DEF e
<1>3. \A u \in ReadUris(declared, e) : e[FileOf(u, declared)] = disk[FileOf(u, declared)]
  BY <1>1, <1>2, ReadIsKeyed
<1>4. e[Dill] = disk[Dill]
  BY <1>1, <1>2, DillIsKeyed
<1> QED BY <1>1, <1>3, <1>4, SameOutput

LEMMA ActionInit == Init => ActionInv
  BY DEF Init, ActionInv, EntryOK, PruneSound, Disks

LEMMA ActionStep == ActionInv /\ [Next]_actionVars => ActionInv'
<1> SUFFICES ASSUME ActionInv, [Next]_actionVars PROVE ActionInv'
  OBVIOUS
<1> USE DEF ActionInv
<1>1. CASE Edit
  <2>1. disk' \in Disks
    BY <1>1 DEF Edit, Disks
  <2>2. EntryOK' /\ PruneSound'
    BY <1>1 DEF Edit, EntryOK, PruneSound
  <2> QED BY <1>1, <2>1, <2>2 DEF Edit
<1>2. CASE Declare
  BY <1>2 DEF Declare, EntryOK, PruneSound
<1>3. CASE Remove
  BY <1>3 DEF Remove, EntryOK, PruneSound
<1>4. CASE BuildUpToDate
  <2>1. entry.output = Output(declared, disk)
    BY <1>4, UpToDateIsCurrent DEF BuildUpToDate
  <2>2. Output(declared, disk)' = Output(declared, disk)
    BY <1>4 DEF BuildUpToDate, Output, Compiles, Reach, ReadFiles, ReadUris, Closed
  <2> QED BY <1>4, <2>1, <2>2 DEF BuildUpToDate, EntryOK, PruneSound
<1>5. CASE BuildRuns
  <2>1. declared' = declared /\ disk' = disk
    BY <1>5 DEF BuildRuns
  <2>2. Output(declared, disk)' = Output(declared, disk)
    BY <2>1 DEF Output, Compiles, Reach, ReadFiles, ReadUris, Closed
  <2>3. PruneSound'
    BY <1>5, <2>2 DEF BuildRuns, PruneSound
  <2>4. EntryOK'
    <3>1. CASE Compiles(declared, disk)
      BY <1>5, <3>1 DEF BuildRuns, EntryOK
    <3>2. CASE ~Compiles(declared, disk)
      BY <1>5, <3>2 DEF BuildRuns, EntryOK
    <3> QED BY <3>1, <3>2
  <2> QED BY <2>1, <2>3, <2>4
<1>6. CASE UNCHANGED actionVars
  BY <1>6 DEF actionVars, EntryOK, PruneSound
<1> QED BY <1>1, <1>2, <1>3, <1>4, <1>5, <1>6 DEF Next

THEOREM ActionInvariant == Spec => []ActionInv
  BY ActionInit, ActionStep, PTL DEF Spec

(* The state keeps its types: what the action cache holds is what a compile that
   succeeded left, and it never calls a file unused that was not its input. *)
THEOREM ActionTypeCorrect == Spec => []ActionTypeOK
<1>1. ActionInv => ActionTypeOK
  <2> SUFFICES ASSUME ActionInv, entry # None
               PROVE  /\ entry.kind = "entry" /\ entry.declared \subseteq Prunable
                      /\ entry.disk \in Disks /\ entry.unused \subseteq entry.declared
                      /\ entry.output.kind = "dill"
    BY DEF ActionInv, ActionTypeOK, Disks
  <2>1. /\ entry.kind = "entry" /\ entry.declared \in SUBSET Prunable
        /\ entry.disk \in Disks
        /\ entry.unused = Unused(entry.declared, entry.disk)
        /\ entry.output = Output(entry.declared, entry.disk)
        /\ Compiles(entry.declared, entry.disk)
    BY DEF ActionInv, EntryOK
  <2>2. entry.unused \subseteq entry.declared
    BY <2>1 DEF Unused
  <2>3. entry.output.kind = "dill"
    BY <2>1 DEF Output
  <2> QED BY <2>1, <2>2, <2>3
<1> QED BY <1>1, ActionInvariant, PTL

(* Pruning changes no result: whatever is edited between builds, an output that
   Bazel takes for up to date is the one the compile would write. *)
THEOREM PruneIsSound == Spec => []PruneSound
<1>1. ActionInv => PruneSound
  BY DEF ActionInv
<1> QED BY <1>1, ActionInvariant, PTL

(* An input that is keyed and neither kept nor the dill was read. *)
LEMMA KeyedIsRead ==
    ASSUME NEW decl \in SUBSET Prunable, NEW d \in Disks,
           NEW f \in decl \ Unused(decl, d)
    PROVE  f \in ReadFiles(decl, d)
<1>1. PICK u \in Reach(decl, d) \ InSeed : f \in Attributed(u, decl)
  BY DEF Unused
<1>2. Resolves(u, decl) /\ f = FileOf(u, decl)
  BY <1>1 DEF Attributed
<1>3. u \in ReadUris(decl, d)
  BY <1>1, <1>2 DEF ReadUris, IsRead, Reach
<1> QED BY <1>2, <1>3 DEF ReadFiles

(* A test's kernel is compiled again only for what its last compile read. *)
THEOREM PruneIsPrecise == Spec => PrunePrecise
<1>1. ActionInv /\ [Next]_actionVars =>
        [entry # None /\ BuildRuns =>
           \/ declared # entry.declared
           \/ \E f \in Kept \cup {Dill} \cup ReadFiles(entry.declared, entry.disk) :
                 disk[f] # entry.disk[f]]_actionVars
  <2> SUFFICES ASSUME ActionInv, BuildRuns, entry # None, declared = entry.declared
               PROVE  \E f \in Kept \cup {Dill} \cup ReadFiles(entry.declared, entry.disk) :
                         disk[f] # entry.disk[f]
    OBVIOUS
  <2>1. PICK f \in (Inputs(declared) \cup {Dill}) \ entry.unused : disk[f] # entry.disk[f]
    BY DEF BuildRuns, UpToDate
  <2>2. /\ entry.declared \in SUBSET Prunable /\ entry.disk \in Disks
        /\ entry.unused = Unused(entry.declared, entry.disk)
    BY DEF ActionInv, EntryOK
  <2>3. CASE f \in Kept \cup {Dill}
    BY <2>1, <2>3
  <2>4. CASE f \in declared
    <3>1. f \in ReadFiles(entry.declared, entry.disk)
      BY <2>1, <2>2, <2>4, KeyedIsRead
    <3> QED BY <2>1, <3>1
  <2> QED BY <2>1, <2>3, <2>4 DEF Inputs
<1> QED BY <1>1, ActionInvariant, PTL DEF Spec, PrunePrecise

-----------------------------------------------------------------------------
(* The worker. *)
Unlinked == \A p \in Paths : links[p] = NoBase

(* What is linked once the stale links are gone, and once all inputs are. *)
OnlyInputs ==
    \A p \in Paths : links[p] # NoBase => p \in request.inputs /\ links[p] = request.base
AllInputs == \A p \in request.inputs : links[p] # NoBase

ViewInv ==
    /\ links \in [Paths -> Bases \cup {NoBase}]
    /\ fs \in [Nodes -> Bases \cup {"none", "dir"}]
    /\ request \in Requests
    /\ LinksAreReal
    /\ view = NoTemp => Unlinked
    /\ pc \in {"create", "start"} => view = NoTemp
    /\ pc = "start" => starting # NoTemp
    /\ pc \in {"unlink", "link"} => view # NoTemp
    /\ pc \in {"link", "seed", "compile"} => OnlyInputs
    /\ pc \in {"seed", "compile"} => AllInputs
    /\ Hermetic

LEMMA EmptyView ==
    /\ Empty \in [Nodes -> Bases \cup {"none", "dir"}]
    /\ \A p \in Paths : Empty[p] \notin Bases
  BY WorkerAssumption DEF Empty, Nodes

(* Making directories touches no link and makes none. *)
LEMMA MadeKeepsLinks ==
    ASSUME ViewInv, NEW p \in Paths
    PROVE  /\ Made(p) \in [Nodes -> Bases \cup {"none", "dir"}]
           /\ \A q \in Paths : /\ links[q] # NoBase => Made(p)[q] = links[q]
                               /\ Made(p)[q] \in Bases => links[q] = Made(p)[q]
<1>1. Made(p) \in [Nodes -> Bases \cup {"none", "dir"}]
  BY DEF ViewInv, Made
<1>2. ASSUME NEW q \in Paths, links[q] # NoBase
      PROVE  Made(p)[q] = links[q]
  <2>1. fs[q] = links[q] /\ links[q] \in Bases /\ q \in Nodes
    BY <1>2 DEF ViewInv, LinksAreReal, Nodes
  <2>2. fs[q] # "none"
    BY <2>1, WorkerAssumption
  <2> QED BY <2>1, <2>2 DEF Made
<1>3. ASSUME NEW q \in Paths, Made(p)[q] \in Bases
      PROVE  links[q] = Made(p)[q]
  <2>1. q \in Nodes /\ Made(p)[q] # "dir"
    BY <1>3, WorkerAssumption DEF Nodes
  <2>2. Made(p)[q] = fs[q]
    BY <2>1 DEF Made
  <2> QED BY <1>3, <2>2 DEF ViewInv, LinksAreReal
<1> QED BY <1>1, <1>2, <1>3

(* The compile finds the request's inputs and nothing else. *)
LEMMA ReadIsInputs ==
    ASSUME ViewInv, pc = "compile"
    PROVE  ReadInView = request.inputs \X {request.base}
<1>1. request.inputs \subseteq Paths /\ request.base \in Bases
  BY DEF ViewInv, Requests, InputSets
<1>2. \A q \in Paths : fs[q] \in Bases <=> q \in request.inputs
  <2> TAKE q \in Paths
  <2>1. fs[q] \in Bases => q \in request.inputs
    BY WorkerAssumption DEF ViewInv, LinksAreReal, OnlyInputs
  <2>2. q \in request.inputs => fs[q] \in Bases
    BY <1>1 DEF ViewInv, LinksAreReal, AllInputs
  <2> QED BY <2>1, <2>2
<1>3. \A q \in request.inputs : fs[q] = request.base
  BY <1>1 DEF ViewInv, LinksAreReal, AllInputs, OnlyInputs
<1>4. ReadInView = {<<p, fs[p]>> : p \in request.inputs}
  BY <1>1, <1>2 DEF ReadInView
<1>5. {<<p, fs[p]>> : p \in request.inputs} = {<<p, request.base>> : p \in request.inputs}
  BY <1>3
<1>6. {<<p, request.base>> : p \in request.inputs} = request.inputs \X {request.base}
  OBVIOUS
<1> QED BY <1>4, <1>5, <1>6

-----------------------------------------------------------------------------
LEMMA ViewInit == WorkerInit => ViewInv
<1> SUFFICES ASSUME WorkerInit PROVE ViewInv
  OBVIOUS
<1>1. LinksAreReal
  BY EmptyView DEF WorkerInit, LinksAreReal
<1> QED BY <1>1, EmptyView DEF WorkerInit, ViewInv, Unlinked, Hermetic, Errors

(* A step that leaves the request and the view alone, and answers, if at all,
   with an error. *)
LEMMA QuietStep ==
    ASSUME ViewInv,
           request' = request, links' = links, fs' = fs, view' = view,
           pc' = "start" => starting' # NoTemp,
           pc' \in {"unlink", "link"} => view # NoTemp,
           answer' \in {answer, Pending, Errors, Broken},
           pc' \in {"create", "start"} => view = NoTemp,
           pc' \in {"link", "seed", "compile"} => OnlyInputs,
           pc' \in {"seed", "compile"} => AllInputs
    PROVE  ViewInv'
<1>1. LinksAreReal' /\ (OnlyInputs' <=> OnlyInputs) /\ (AllInputs' <=> AllInputs)
      /\ (Unlinked' <=> Unlinked)
  BY DEF ViewInv, LinksAreReal, OnlyInputs, AllInputs, Unlinked
<1>2. Hermetic'
  BY DEF ViewInv, Hermetic, Pending, Errors, Broken
<1> QED BY <1>1, <1>2 DEF ViewInv

LEMMA ViewStep == ViewInv /\ [WorkerNext]_vars => ViewInv'
<1> SUFFICES ASSUME ViewInv, [WorkerNext]_vars PROVE ViewInv'
  OBVIOUS
<1>1. ASSUME NEW r \in Requests, Receive(r) PROVE ViewInv'
  <2>1. /\ links' = links /\ fs' = fs /\ view' = view /\ request' = r
        /\ answer' \in {Pending, Errors}
        /\ pc' \in {"idle", "create", "unlink"}
        /\ (pc' = "create" => view = NoTemp) /\ (pc' = "unlink" => view # NoTemp)
    BY <1>1 DEF Receive, Reply, process
  <2>2. LinksAreReal' /\ (Unlinked' <=> Unlinked) /\ Hermetic'
    BY <2>1 DEF ViewInv, LinksAreReal, Unlinked, Hermetic, Pending, Errors
  <2> QED BY <2>1, <2>2 DEF ViewInv
<1>2. CASE CreateView
  BY <1>2, QuietStep, WorkerAssumption DEF CreateView, process, ViewInv
<1>3. CASE StartRemover
  <2>1. /\ links' = links /\ fs' = Empty /\ request' = request /\ answer' = answer
        /\ pc' = "unlink" /\ Unlinked /\ view' # NoTemp
    BY <1>3 DEF StartRemover, ViewInv
  <2>2. LinksAreReal' /\ Unlinked' /\ Hermetic'
    BY <2>1, EmptyView DEF ViewInv, LinksAreReal, Unlinked, Hermetic
  <2> QED BY <2>1, <2>2, EmptyView DEF ViewInv
<1>4. CASE RemoverFails
  BY <1>4, QuietStep DEF RemoverFails, Reply, process, ViewInv
<1>5. CASE Unlink
  <2>1. /\ request' = request /\ answer' = answer /\ view' = view /\ pc' = "link"
        /\ view # NoTemp
        /\ links' = [p \in Paths |-> IF Stale(p) THEN NoBase ELSE links[p]]
        /\ fs' = [n \in Nodes |-> IF n \in Paths /\ Stale(n) THEN "none" ELSE fs[n]]
    BY <1>5 DEF Unlink, ViewInv
  <2>2. /\ links' \in [Paths -> Bases \cup {NoBase}]
        /\ fs' \in [Nodes -> Bases \cup {"none", "dir"}]
    BY <2>1 DEF ViewInv
  <2>3. LinksAreReal'
    <3>1. \A p \in Paths : p \in Nodes
      BY DEF Nodes
    <3> QED BY <2>1, <3>1, WorkerAssumption DEF ViewInv, LinksAreReal
  <2>4. OnlyInputs'
    BY <2>1 DEF OnlyInputs, Stale
  <2>5. Hermetic' /\ (view' = NoTemp => Unlinked')
    BY <2>1 DEF ViewInv, Hermetic, Unlinked
  <2> QED BY <2>1, <2>2, <2>3, <2>4, <2>5 DEF ViewInv
<1>6. ASSUME NEW p \in Paths, LinkInput(p) PROVE ViewInv'
  <2>1. /\ request' = request /\ answer' = answer /\ view' = view
        /\ pc' = pc /\ pc = "link"
        /\ fs' = [Made(p) EXCEPT ![p] = request.base]
        /\ links' = [links EXCEPT ![p] = request.base]
        /\ p \in request.inputs
    BY <1>6 DEF LinkInput, ToLink
  <2>2. request.base \in Bases /\ p \in Nodes
    BY DEF ViewInv, Requests, Nodes
  <2>3. /\ links' \in [Paths -> Bases \cup {NoBase}]
        /\ fs' \in [Nodes -> Bases \cup {"none", "dir"}]
    BY <2>1, <2>2, MadeKeepsLinks DEF ViewInv
  <2>4. LinksAreReal'
    BY <2>1, <2>2, MadeKeepsLinks DEF ViewInv, LinksAreReal, Nodes
  <2>5. OnlyInputs'
    BY <2>1, <2>2 DEF ViewInv, OnlyInputs
  <2>6. Hermetic'
    BY <2>1 DEF ViewInv, Hermetic
  <2>7. view # NoTemp
    BY <2>1 DEF ViewInv
  <2> QED BY <2>1, <2>2, <2>3, <2>4, <2>5, <2>6, <2>7 DEF ViewInv
<1>7. ASSUME NEW p \in Paths, CannotLink(p) PROVE ViewInv'
  <2>1. /\ request' = request /\ links' = links /\ view' = view
        /\ pc' = "idle" /\ answer' = Broken /\ fs' = Made(p)
    BY <1>7 DEF CannotLink, Reply
  <2>2. LinksAreReal' /\ (Unlinked' <=> Unlinked) /\ Hermetic'
    BY <2>1, MadeKeepsLinks DEF ViewInv, LinksAreReal, Unlinked, Hermetic, Broken
  <2> QED BY <2>1, <2>2, MadeKeepsLinks DEF ViewInv
<1>8. ASSUME NEW p \in Paths, CannotMake(p) PROVE ViewInv'
  BY <1>8, QuietStep DEF CannotMake, Reply
<1>9. CASE Mirrored
  <2>1. AllInputs /\ OnlyInputs
    BY <1>9 DEF Mirrored, ToLink, AllInputs, ViewInv, Requests, InputSets
  <2> QED BY <1>9, <2>1, QuietStep DEF Mirrored, process
<1>10. CASE UseSeed
  BY <1>10, QuietStep DEF UseSeed, ViewInv
<1>11. CASE SeedFails
  BY <1>11, QuietStep DEF SeedFails, Reply, process
<1>12. CASE Compile
  <2>1. CASE answer' = Errors
    BY <1>12, <2>1, QuietStep DEF Compile, Reply, process
  <2>2. CASE answer' = Ok(ReadInView)
    <3>1. /\ request' = request /\ links' = links /\ fs' = fs /\ view' = view
          /\ pc' = "idle" /\ pc = "compile"
      BY <1>12 DEF Compile, Reply, process
    <3>2. Hermetic'
      BY <2>2, <3>1, ReadIsInputs DEF Hermetic, Ok
    <3>3. LinksAreReal' /\ (Unlinked' <=> Unlinked)
      BY <3>1 DEF ViewInv, LinksAreReal, Unlinked
    <3> QED BY <3>1, <3>2, <3>3 DEF ViewInv
  <2> QED BY <1>12, <2>1, <2>2 DEF Compile, Reply
<1>13. CASE Ends
  <2>1. /\ request' = request /\ answer' = Errors /\ pc' = "off"
        /\ links' = [p \in Paths |-> NoBase] /\ fs' = Empty
    BY <1>13 DEF Ends
  <2>2. LinksAreReal' /\ Unlinked' /\ Hermetic'
    BY <2>1, EmptyView DEF LinksAreReal, Unlinked, Hermetic, Errors
  <2> QED BY <2>1, <2>2, EmptyView DEF ViewInv
<1>14. CASE Starts
  BY <1>14, QuietStep DEF Starts, process
<1>15. ASSUME NEW t \in Temps, RemoverRuns(t) PROVE ViewInv'
  BY <1>15, QuietStep DEF RemoverRuns, process, ViewInv
<1>16. CASE UNCHANGED vars
  BY <1>16, QuietStep DEF vars, ViewInv
<1> QED
  BY <1>1, <1>2, <1>3, <1>4, <1>5, <1>6, <1>7, <1>8, <1>9, <1>10, <1>11, <1>12,
     <1>13, <1>14, <1>15, <1>16 DEF WorkerNext, WorkerStep

THEOREM ViewInvariant == WorkerSpec => []ViewInv
  BY ViewInit, ViewStep, PTL DEF WorkerSpec

(* A compile that succeeds has read exactly its request's inputs. *)
THEOREM WorkerIsHermetic == WorkerSpec => []Hermetic
<1>1. ViewInv => Hermetic
  BY DEF ViewInv
<1> QED BY <1>1, ViewInvariant, PTL

(* The worker's record of the view is the view, after every failure too. *)
THEOREM LinksStayReal == WorkerSpec => []LinksAreReal
<1>1. ViewInv => LinksAreReal
  BY DEF ViewInv
<1> QED BY <1>1, ViewInvariant, PTL

-----------------------------------------------------------------------------
(* The types, and the seeds.  The seed of the last compile is the last one held: a hit
   moves its seed there, a load puts it there, and what is dropped is the first.       *)

SeedsInv ==
    /\ \A i, j \in 1..Len(seeds) : i # j => seeds[i] # seeds[j]
    /\ used # NoKey => Len(seeds) # 0 /\ seeds[Len(seeds)] = used

(* A directory that no remover watches yet stays; a request that is served has a seed. *)
StartInv ==
    /\ starting # NoTemp => starting \in temps \ watched
    /\ pc \notin {"off", "idle"} => request.key \in Keys

WorkerInv == ViewInv /\ WorkerTypeOK /\ SeedsInv /\ StartInv

LEMMA Joined ==
    ASSUME NEW S, NEW A \in Seq(S), NEW B \in Seq(S)
    PROVE  /\ A \o B \in Seq(S) /\ Len(A \o B) = Len(A) + Len(B)
           /\ \A i \in 1..Len(A) : (A \o B)[i] = A[i]
           /\ \A i \in Len(A) + 1..Len(A) + Len(B) : (A \o B)[i] = B[i - Len(A)]
OBVIOUS

(* Where the seed at i was before the hit of the one at h. *)
Was(i, j, h) == /\ i = Len(seeds) => j = h
                /\ i < h => j = i
                /\ i \in h..Len(seeds) - 1 => j = i + 1

LEMMA HitSeeds ==
    ASSUME seeds \in Seq(Keys), SeedsInv, NEW k \in Held
    PROVE  /\ Hit(k) \in Seq(Keys) /\ Len(Hit(k)) = Len(seeds) /\ Len(seeds) \in Nat \ {0}
           /\ Hit(k)[Len(seeds)] = k
           /\ \A i, j \in 1..Len(seeds) : i # j => Hit(k)[i] # Hit(k)[j]
           /\ \A i \in 1..Len(seeds) : \E j \in 1..Len(seeds) : Hit(k)[j] = seeds[i]
<1>. DEFINE h == HitAt(k)
            n == Len(seeds)
            rest == Seqs!RemoveAt(seeds, h)
<1>1. h \in 1..n /\ seeds[h] = k /\ n \in Nat \ {0} /\ k \in Keys
  <2>1. \E i \in 1..n : seeds[i] = k
    BY DEF Held
  <2>2. h \in 1..n /\ seeds[h] = k
    BY <2>1 DEF HitAt
  <2>. QED BY <2>2
<1>. HIDE DEF h
<1>2. /\ rest \in Seq(Keys) /\ Len(rest) = n - 1
      /\ \A i \in 1..h - 1 : rest[i] = seeds[i]
      /\ \A i \in h..n - 1 : rest[i] = seeds[i + 1]
  <2>. DEFINE A == SubSeq(seeds, 1, h - 1)
              B == SubSeq(seeds, h + 1, n)
  <2>1. /\ A \in Seq(Keys) /\ Len(A) = h - 1 /\ \A i \in 1..h - 1 : A[i] = seeds[i]
        /\ B \in Seq(Keys) /\ Len(B) = n - h /\ \A i \in 1..n - h : B[i] = seeds[i + h]
    BY <1>1
  <2>2. rest = A \o B
    BY DEF Seqs!RemoveAt
  <2>. HIDE DEF A, B
  <2>3. /\ A \o B \in Seq(Keys) /\ Len(A \o B) = (h - 1) + (n - h)
        /\ \A i \in 1..h - 1 : (A \o B)[i] = A[i]
        /\ \A i \in h..n - 1 : (A \o B)[i] = B[i - (h - 1)]
    <3>1. \A i \in h..n - 1 : i \in Len(A) + 1..Len(A) + Len(B) /\ i - (h - 1) = i - Len(A)
      BY <1>1, <2>1
    <3>2. /\ A \o B \in Seq(Keys) /\ Len(A \o B) = Len(A) + Len(B)
          /\ \A i \in 1..Len(A) : (A \o B)[i] = A[i]
          /\ \A i \in Len(A) + 1..Len(A) + Len(B) : (A \o B)[i] = B[i - Len(A)]
      BY <2>1, Joined
    <3>. QED BY <2>1, <3>1, <3>2
  <2>4. \A i \in h..n - 1 : i - (h - 1) \in 1..n - h /\ i - (h - 1) + h = i + 1
    BY <1>1
  <2>5. \A i \in h..n - 1 : B[i - (h - 1)] = seeds[i + 1]
    BY <2>1, <2>4
  <2>. QED BY <1>1, <2>1, <2>2, <2>3, <2>5
<1>. HIDE DEF rest
<1>3. /\ Hit(k) \in Seq(Keys) /\ Len(Hit(k)) = n /\ Hit(k)[n] = k
      /\ \A i \in 1..n - 1 : Hit(k)[i] = rest[i]
  <2>1. Hit(k) = Append(rest, k)
    BY DEF Hit, h, rest
  <2>. QED BY <1>1, <1>2, <2>1
<1>4. \A i \in 1..n : \E j \in 1..n : Hit(k)[i] = seeds[j] /\ Was(i, j, h)
  <2>. TAKE i \in 1..n
  <2>1. CASE i = n
    <3>1. h \in 1..n /\ Hit(k)[i] = seeds[h] /\ Was(i, h, h)
      BY <1>1, <1>3, <2>1 DEF Was
    <3>. QED BY <3>1
  <2>2. CASE i # n /\ i < h
    <3>1. i \in 1..h - 1 /\ i \in 1..n - 1
      BY <1>1, <2>2
    <3>2. Hit(k)[i] = seeds[i] /\ Was(i, i, h)
      BY <1>1, <1>2, <1>3, <2>2, <3>1 DEF Was
    <3>. QED BY <3>2
  <2>3. CASE i # n /\ ~(i < h)
    <3>1. i \in h..n - 1 /\ i \in 1..n - 1 /\ i + 1 \in 1..n
      BY <1>1, <2>3
    <3>2. Hit(k)[i] = seeds[i + 1] /\ Was(i, i + 1, h)
      BY <1>1, <1>2, <1>3, <2>3, <3>1 DEF Was
    <3>. QED BY <3>1, <3>2
  <2>. QED BY <2>1, <2>2, <2>3
<1>5. ASSUME NEW i \in 1..n, NEW j \in 1..n, i # j
      PROVE  Hit(k)[i] # Hit(k)[j]
  <2>1. PICK a \in 1..n : Hit(k)[i] = seeds[a] /\ Was(i, a, h)
    BY <1>4
  <2>2. PICK b \in 1..n : Hit(k)[j] = seeds[b] /\ Was(j, b, h)
    BY <1>4
  <2>3. a # b
    BY <1>1, <1>5, <2>1, <2>2 DEF Was
  <2>. QED BY <2>1, <2>2, <2>3 DEF SeedsInv
<1>6. ASSUME NEW i \in 1..n
      PROVE  \E j \in 1..n : Hit(k)[j] = seeds[i]
  <2>1. CASE i = h
    BY <1>1, <1>3, <2>1
  <2>2. CASE i < h
    <3>1. i \in 1..h - 1 /\ i \in 1..n - 1
      BY <1>1, <2>2
    <3>2. Hit(k)[i] = seeds[i]
      BY <1>2, <1>3, <3>1
    <3>. QED BY <3>2
  <2>3. CASE i > h
    <3>1. i - 1 \in h..n - 1 /\ i - 1 \in 1..n - 1 /\ i - 1 \in 1..n /\ (i - 1) + 1 = i
      BY <1>1, <2>3
    <3>2. Hit(k)[i - 1] = seeds[i]
      BY <1>2, <1>3, <3>1
    <3>. QED BY <3>1, <3>2
  <2>. QED BY <1>1, <2>1, <2>2, <2>3
<1>. QED BY <1>1, <1>3, <1>5, <1>6

LEMMA MissSeeds ==
    ASSUME seeds \in Seq(Keys), Len(seeds) \leq SeedLimit, SeedsInv, NEW k \in Keys \ Held,
           NEW new, new = Trimmed(Append(seeds, k))
    PROVE  /\ new \in Seq(Keys) /\ Len(new) \in 1..SeedLimit /\ new[Len(new)] = k
           /\ \A i, j \in 1..Len(new) : i # j => new[i] # new[j]
           /\ SeedLimit > 1 /\ Len(seeds) # 0 =>
                 \E i \in 1..Len(new) : new[i] = seeds[Len(seeds)]
<1>. DEFINE more == Append(seeds, k)
            n == Len(seeds)
<1>1. /\ more \in Seq(Keys) /\ Len(more) = n + 1 /\ more[n + 1] = k /\ n \in Nat
      /\ \A i \in 1..n : more[i] = seeds[i]
  OBVIOUS
<1>2. \A i, j \in 1..n + 1 : i # j => more[i] # more[j]
  <2>. SUFFICES ASSUME NEW i \in 1..n + 1, NEW j \in 1..n + 1, i # j
                PROVE  more[i] # more[j]
    OBVIOUS
  <2>1. \A l \in 1..n : seeds[l] # k
    BY DEF Held
  <2>2. (i \in 1..n \/ i = n + 1) /\ (j \in 1..n \/ j = n + 1)
    BY <1>1
  <2>. QED BY <1>1, <2>1, <2>2 DEF SeedsInv
<1>. HIDE DEF more
<1>3. SeedLimit \in Nat \ {0}
  BY WorkerAssumption
<1>4. CASE n + 1 > SeedLimit
  <2>1. new = Tail(more) /\ n = SeedLimit
    BY <1>1, <1>3, <1>4 DEF Trimmed, more
  <2>2. /\ new \in Seq(Keys) /\ Len(new) = n
        /\ \A i \in 1..n : new[i] = more[i + 1]
    BY <1>1, <2>1
  <2>3. \A i \in 1..n : i + 1 \in 1..n + 1
    BY <1>1
  <2>4. new[n] = k
    BY <1>1, <1>3, <2>1, <2>2
  <2>5. \A i, j \in 1..n : i # j => new[i] # new[j]
    BY <1>1, <1>2, <2>2, <2>3
  <2>6. SeedLimit > 1 => n - 1 \in 1..n /\ new[n - 1] = seeds[n]
    BY <1>1, <1>3, <2>1, <2>2
  <2>. QED BY <1>1, <1>3, <2>1, <2>2, <2>4, <2>5, <2>6
<1>5. CASE ~(n + 1 > SeedLimit)
  <2>1. new = more
    BY <1>1, <1>5 DEF Trimmed, more
  <2>2. n # 0 => n \in 1..n + 1 /\ new[n] = seeds[n]
    BY <1>1, <2>1
  <2>. QED BY <1>1, <1>2, <1>3, <1>5, <2>1, <2>2
<1>. QED BY <1>4, <1>5

LEMMA WorkerInitInv == WorkerInit => WorkerInv
<1> SUFFICES ASSUME WorkerInit PROVE WorkerInv
  OBVIOUS
<1>1. ViewInv
  BY ViewInit
<1>2. seeds \in Seq(Keys) /\ Len(seeds) = 0 /\ 0 \leq SeedLimit /\ 1..0 = {}
  BY WorkerAssumption DEF WorkerInit
<1>3. WorkerTypeOK
  BY <1>1, <1>2 DEF WorkerInit, WorkerTypeOK, ViewInv
<1> QED BY <1>1, <1>2, <1>3 DEF WorkerInit, WorkerInv, SeedsInv, StartInv

(* The seeds after a compile has taken its own. *)
LEMMA SeedStep ==
    ASSUME WorkerInv, UseSeed
    PROVE  /\ SeedsInv' /\ seeds' \in Seq(Keys) /\ Len(seeds') \leq SeedLimit
           /\ used # NoKey /\ SeedLimit > 1 => \E i \in 1..Len(seeds') : seeds'[i] = used
<1>1. /\ seeds \in Seq(Keys) /\ Len(seeds) \leq SeedLimit /\ SeedsInv
      /\ request.key \in Keys /\ NoKey \notin Keys /\ used' = request.key
  BY WorkerAssumption DEF WorkerInv, WorkerTypeOK, StartInv, UseSeed
<1>2. used # NoKey => Len(seeds) # 0 /\ Len(seeds) \in Nat /\ seeds[Len(seeds)] = used
  BY <1>1 DEF SeedsInv
<1>3. CASE request.key \in Held
  <2>1. seeds' = Hit(request.key)
    BY <1>3 DEF UseSeed
  <2>2. /\ Hit(request.key) \in Seq(Keys) /\ Len(Hit(request.key)) = Len(seeds)
        /\ Len(seeds) \in Nat \ {0} /\ Hit(request.key)[Len(seeds)] = request.key
        /\ \A i, j \in 1..Len(seeds) : i # j => Hit(request.key)[i] # Hit(request.key)[j]
        /\ \A i \in 1..Len(seeds) : \E j \in 1..Len(seeds) : Hit(request.key)[j] = seeds[i]
    BY <1>1, <1>3, HitSeeds
  <2>3. used # NoKey => \E i \in 1..Len(seeds') : seeds'[i] = used
    <3>1. Len(seeds) \in 1..Len(seeds)
      BY <2>2
    <3>. QED BY <1>2, <2>1, <2>2, <3>1
  <2>. QED BY <1>1, <2>1, <2>2, <2>3 DEF SeedsInv
<1>4. CASE request.key \notin Held
  <2>1. seeds' = Trimmed(Append(seeds, request.key))
    BY <1>4 DEF UseSeed
  <2>2. /\ seeds' \in Seq(Keys) /\ Len(seeds') \in 1..SeedLimit
        /\ seeds'[Len(seeds')] = request.key
        /\ \A i, j \in 1..Len(seeds') : i # j => seeds'[i] # seeds'[j]
        /\ SeedLimit > 1 /\ Len(seeds) # 0 =>
              \E i \in 1..Len(seeds') : seeds'[i] = seeds[Len(seeds)]
    BY <1>1, <1>4, <2>1, MissSeeds
  <2>3. Len(seeds') # 0 /\ Len(seeds') \leq SeedLimit
    BY <2>2, WorkerAssumption
  <2>. QED BY <1>1, <1>2, <2>2, <2>3 DEF SeedsInv
<1>. QED BY <1>3, <1>4

LEMMA WorkerStepInv == WorkerInv /\ [WorkerNext]_vars => WorkerInv'
<1> SUFFICES ASSUME WorkerInv, [WorkerNext]_vars PROVE WorkerInv'
  OBVIOUS
<1>0. /\ WorkerTypeOK /\ SeedsInv /\ StartInv
      /\ ViewInv' /\ links' \in [Paths -> Bases \cup {NoBase}]
      /\ fs' \in [Nodes -> Bases \cup {"none", "dir"}] /\ request' \in Requests
  BY ViewStep DEF WorkerInv, ViewInv
<1>1. UNCHANGED <<seeds, used>> => SeedsInv' /\ seeds' \in Seq(Keys) /\ Len(seeds') <= SeedLimit
                                   /\ used' \in Keys \cup {NoKey}
  BY <1>0 DEF SeedsInv, WorkerTypeOK
<1>2. \A p \in Paths : Parent(p) \in {Parent(q) : q \in Paths}
  OBVIOUS
<1>3. ASSUME NEW r \in Requests, Receive(r) PROVE WorkerInv'
  <2>1. r.key \in Keys \cup {NoKey}
    BY DEF Requests
  <2>2. /\ UNCHANGED <<seeds, used, made, view, starting, temps, watched>>
        /\ request' = r /\ faulted' \in BOOLEAN /\ answer' \in {Pending, Errors}
        /\ pc' \in {"idle", "create", "unlink"} /\ (pc' # "idle" => r.key # NoKey)
    BY <1>3 DEF Receive, Reply, process
  <2> QED BY <1>0, <1>1, <2>1, <2>2 DEF WorkerInv, WorkerTypeOK, StartInv
<1>4. CASE CreateView
  <2>1. PICK t \in Temps \ temps : starting' = t /\ temps' = temps \cup {t}
    BY <1>4 DEF CreateView
  <2>2. /\ UNCHANGED <<seeds, used, made, view, watched, request, answer, faulted>>
        /\ pc = "create" /\ pc' = "start"
    BY <1>4 DEF CreateView, process
  <2> QED BY <1>0, <1>1, <2>1, <2>2 DEF WorkerInv, WorkerTypeOK, StartInv
<1>5. CASE StartRemover
  <2>1. /\ UNCHANGED <<seeds, used, made, temps, request, answer, faulted>>
        /\ pc = "start" /\ pc' = "unlink" /\ watched' = watched \cup {starting}
        /\ view' = starting /\ starting' = NoTemp /\ starting # NoTemp
    BY <1>5 DEF StartRemover, WorkerInv, ViewInv
  <2> QED BY <1>0, <1>1, <2>1 DEF WorkerInv, WorkerTypeOK, StartInv
<1>6. CASE RemoverFails
  <2>1. /\ UNCHANGED <<seeds, used, made, view, temps, watched, request>>
        /\ pc' = "idle" /\ answer' = Broken /\ starting' = NoTemp /\ faulted' \in BOOLEAN
    BY <1>6 DEF RemoverFails, Reply, process
  <2> QED BY <1>0, <1>1, <2>1 DEF WorkerInv, WorkerTypeOK, StartInv
<1>7. CASE Unlink \/ Mirrored
  <2>1. /\ UNCHANGED <<seeds, used, made, view, starting, temps, watched, request, answer,
                       faulted>>
        /\ pc \in {"unlink", "link"} /\ pc' \in {"link", "seed"}
    BY <1>7 DEF Unlink, Mirrored, process
  <2> QED BY <1>0, <1>1, <2>1 DEF WorkerInv, WorkerTypeOK, StartInv
<1>8. ASSUME NEW p \in Paths, LinkInput(p) \/ CannotLink(p) \/ CannotMake(p)
      PROVE  WorkerInv'
  <2>1. /\ UNCHANGED <<seeds, used, view, starting, temps, watched, request>>
        /\ pc = "link" /\ made' = made \cup {Parent(p)}
        /\ \/ pc' = "link" /\ answer' = answer /\ faulted' = faulted
           \/ pc' = "idle" /\ answer' = Broken /\ faulted' \in BOOLEAN
    BY <1>0, <1>8 DEF LinkInput, CannotLink, CannotMake, Reply, WorkerTypeOK
  <2> QED BY <1>0, <1>1, <1>2, <2>1 DEF WorkerInv, WorkerTypeOK, StartInv
<1>9. CASE UseSeed
  <2>1. /\ UNCHANGED <<made, view, starting, temps, watched, request, answer, faulted>>
        /\ pc = "seed" /\ pc' = "compile" /\ used' = request.key
    BY <1>9 DEF UseSeed
  <2>2. SeedsInv' /\ seeds' \in Seq(Keys) /\ Len(seeds') \leq SeedLimit
    BY <1>9, SeedStep
  <2> QED BY <1>0, <2>1, <2>2 DEF WorkerInv, WorkerTypeOK, StartInv
<1>10. CASE SeedFails \/ Compile
  <2>1. /\ UNCHANGED <<seeds, used, made, view, starting, temps, watched, request, faulted>>
        /\ pc' = "idle" /\ answer' \in {Errors, Ok(ReadInView)}
    BY <1>10 DEF SeedFails, Compile, Reply, process
  <2>2. Ok(ReadInView) \in [kind : {"ok"}, read : SUBSET (Paths \X Bases)]
    BY DEF Ok, ReadInView
  <2> QED BY <1>0, <1>1, <2>1, <2>2 DEF WorkerInv, WorkerTypeOK, StartInv
<1>11. CASE Ends
  <2>1. /\ UNCHANGED <<temps, watched, request>> /\ pc' = "off" /\ answer' = Errors
        /\ made' = {} /\ seeds' = <<>> /\ used' = NoKey /\ view' = NoTemp
        /\ starting' = NoTemp /\ faulted' = FALSE
    BY <1>11 DEF Ends
  <2>2. seeds' \in Seq(Keys) /\ Len(seeds') = 0 /\ 0 \leq SeedLimit /\ 1..0 = {}
    BY <2>1, WorkerAssumption
  <2> QED BY <1>0, <2>1, <2>2 DEF WorkerInv, WorkerTypeOK, StartInv, SeedsInv
<1>12. CASE Starts
  <2>1. /\ UNCHANGED <<seeds, used, made, view, starting, temps, watched, request, answer,
                       faulted>>
        /\ pc' = "idle"
    BY <1>12 DEF Starts, process
  <2> QED BY <1>0, <1>1, <2>1 DEF WorkerInv, WorkerTypeOK, StartInv
<1>13. ASSUME NEW t \in Temps, RemoverRuns(t) PROVE WorkerInv'
  <2>1. /\ UNCHANGED <<pc, seeds, used, made, view, starting, request, answer, faulted>>
        /\ t \in watched /\ t # view /\ temps' = temps \ {t} /\ watched' = watched \ {t}
    BY <1>13 DEF RemoverRuns, process
  <2> QED BY <1>0, <1>1, <2>1 DEF WorkerInv, WorkerTypeOK, StartInv
<1>14. CASE UNCHANGED vars
  BY <1>0, <1>1, <1>14 DEF vars, WorkerInv, WorkerTypeOK, StartInv
<1> QED
  BY <1>3, <1>4, <1>5, <1>6, <1>7, <1>8, <1>9, <1>10, <1>11, <1>12, <1>13, <1>14
     DEF WorkerNext, WorkerStep

(* Every variable of the worker keeps its type: the seeds never pass their limit, what a
   remover watches exists, and a view is there as long as the worker uses it. *)
THEOREM WorkerTypeCorrect == WorkerSpec => []WorkerTypeOK
<1>1. WorkerInv => WorkerTypeOK
  BY DEF WorkerInv
<1> QED BY <1>1, WorkerInitInv, WorkerStepInv, PTL DEF WorkerSpec

(* The seed of the last compile is still held when the next compile takes its own. *)
THEOREM LastSeedStaysCorrect == WorkerSpec => LastSeedStays
<1>1. WorkerInv /\ [WorkerNext]_vars =>
         [UseSeed /\ used # NoKey /\ SeedLimit > 1 =>
             \E i \in 1..Len(seeds') : seeds'[i] = used]_vars
  BY SeedStep
<1> QED BY <1>1, WorkerInitInv, WorkerStepInv, PTL DEF WorkerSpec, LastSeedStays
=============================================================================
