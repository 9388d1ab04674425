----------------------------- MODULE KernelWorker -----------------------------
(* The persistent test-kernel worker (test_kernel_driver/driver.dart, class
   Driver): one process that serves compile requests in turn and keeps between
   them a view, a directory of links to the inputs of the last request, and the
   seeds, the loaded import dills of the last requests.

   A path is a sequence of names; a request names the directory its inputs are
   under (the sandbox of the action, or the execroot) and the import dill it
   compiles against.  What a compile reads is what the view holds when it runs:
   the file system roots of the front end all resolve inside the view.

   The process may be killed at any step, and a new one started; a remover, a
   process of its own, deletes the view when its worker has ended.            *)
EXTENDS Integers, Sequences, FiniteSets

Seqs == INSTANCE SequencesExt

CONSTANTS
    Paths,       \* paths of inputs, nonempty sequences of names
    Bases,       \* the directories requests resolve against
    Keys,        \* import dill digests, with the options of the seed's key
    Temps,       \* names of temporary directories
    NoKey, NoBase, NoTemp,
    SeedLimit,   \* _seedLimit
    IoMayFail,   \* a directory, link or process may fail to be made
    MayKill      \* Bazel may kill the worker at any step

Prefixes(p) == {SubSeq(p, 1, n) : n \in 1..(Len(p) - 1)}
Dirs  == UNION {Prefixes(p) : p \in Paths}
Nodes == Paths \cup Dirs

ASSUME WorkerAssumption ==
    /\ Paths \subseteq Seq(STRING) \ {<<>>}
    /\ NoKey \notin Keys /\ NoBase \notin Bases /\ NoTemp \notin Temps
    /\ "none" \notin Bases /\ "dir" \notin Bases
    /\ NoBase \notin {"none", "dir"}
    /\ SeedLimit \in Nat \ {0}
    /\ IoMayFail \in BOOLEAN /\ MayKill \in BOOLEAN

VARIABLES
    pc,          \* off, idle, or the step the worker is at in a request
    request,     \* the request being served, or served last
    answer,      \* the answer to it
    links,       \* _links: the base each path is linked to, or NoBase
    made,        \* _dirs: the directories the worker takes for made
    seeds,       \* the keys of _seeds, the one used last at the end
    used,        \* the seed of the last compile, or NoKey
    view,        \* _view: its directory, or NoTemp
    starting,    \* the directory _startView has created, until it returns
    fs,          \* what the view really holds: a link's base, a directory, none
    temps,       \* the temporary directories that exist
    watched,     \* those that have a remover
    faulted      \* whether an operation failed in this request

vars == <<pc, request, answer, links, made, seeds, used, view, starting, fs, temps,
          watched, faulted>>
process == <<links, made, seeds, used, view>>

Pending == [kind |-> "pending"]
Errors  == [kind |-> "errors"]      \* the compile's diagnostics
Broken  == [kind |-> "broken"]      \* a worker error
Ok(read) == [kind |-> "ok", read |-> read]

(* No input is a directory of another: inputs are files. *)
InputSets ==
    {S \in SUBSET Paths : \A p, q \in S : p \notin Prefixes(q)}
Requests ==
    [base : Bases, inputs : InputSets, key : Keys \cup {NoKey}]

Empty == [n \in Nodes |-> "none"]

WorkerInit ==
    /\ pc = "idle"
    /\ request \in Requests /\ answer = Errors
    /\ links = [p \in Paths |-> NoBase] /\ made = {} /\ seeds = <<>> /\ used = NoKey
    /\ view = NoTemp /\ starting = NoTemp /\ fs = Empty
    /\ temps = {} /\ watched = {}
    /\ faulted = FALSE

-----------------------------------------------------------------------------
(* Answers.  The worker reads the next request once it has answered this one. *)
Reply(a) ==
    /\ pc' = "idle"
    /\ answer' = a

Receive(r) ==
    /\ pc = "idle"
    /\ request' = r
    /\ faulted' = FALSE
    /\ IF r.key = NoKey
       THEN Reply(Errors)           \* the import dill must be a declared input
       ELSE /\ pc' = IF view = NoTemp THEN "create" ELSE "unlink"
            /\ answer' = Pending
    /\ UNCHANGED <<process, starting, fs, temps, watched>>

(* _startView: the directory, then, across an await, its remover. *)
CreateView ==
    /\ pc = "create"
    /\ \E t \in Temps \ temps :
          /\ starting' = t
          /\ temps' = temps \cup {t}
    /\ pc' = "start"
    /\ UNCHANGED <<request, answer, process, fs, watched, faulted>>

StartRemover ==
    /\ pc = "start"
    /\ watched' = watched \cup {starting}
    /\ view' = starting /\ starting' = NoTemp
    /\ fs' = Empty
    /\ pc' = "unlink"
    /\ UNCHANGED <<request, answer, links, made, seeds, used, temps, faulted>>

(* The remover cannot be started: _view stays unset and the directory stays.
   Bound: another name is left.  Mutant: the worker tries again. *)
RemoverRetried ==
    /\ pc = "start" /\ IoMayFail
    /\ starting' = NoTemp /\ temps' = temps \ {starting}
    /\ pc' = "create"
    /\ UNCHANGED <<request, answer, process, fs, watched, faulted>>
RemoverFails ==
    /\ pc = "start" /\ IoMayFail
    /\ temps # Temps
    /\ starting' = NoTemp
    /\ faulted' = TRUE
    /\ Reply(Broken)
    /\ UNCHANGED <<request, process, fs, temps, watched>>

-----------------------------------------------------------------------------
(* _mirrorView.  Stale links go first; mutant: those of other paths only. *)
StalePath(p) == links[p] # NoBase /\ p \notin request.inputs
Stale(p) ==
    /\ links[p] # NoBase
    /\ (p \notin request.inputs \/ links[p] # request.base)

Unlink ==
    /\ pc = "unlink"
    /\ links' = [p \in Paths |-> IF Stale(p) THEN NoBase ELSE links[p]]
    /\ fs' = [n \in Nodes |->
                 IF n \in Paths /\ Stale(n) THEN "none" ELSE fs[n]]
    /\ pc' = "link"
    /\ UNCHANGED <<request, answer, made, seeds, used, view, starting, temps,
                   watched, faulted>>

Parent(p)  == SubSeq(p, 1, Len(p) - 1)
ToLink(p)  == p \in request.inputs /\ links[p] = NoBase
ToMake(p)  == Parent(p) \notin made
(* createSync(recursive: true) makes the parents that are missing. *)
Made(p)    == [n \in Nodes |->
                 IF n \in Prefixes(p) /\ ToMake(p) /\ fs[n] = "none"
                 THEN "dir" ELSE fs[n]]
Linkable(p, f) == f[p] = "none" /\ \A q \in Prefixes(p) : f[q] = "dir"

(* A link takes a free name in a directory that exists. *)
LinkInput(p) ==
    /\ pc = "link" /\ ToLink(p)
    /\ Linkable(p, Made(p))
    /\ fs' = [Made(p) EXCEPT ![p] = request.base]
    /\ links' = [links EXCEPT ![p] = request.base]
    /\ made' = made \cup {Parent(p)}
    /\ UNCHANGED <<pc, request, answer, seeds, used, view, starting, temps, watched,
                   faulted>>

(* A link that cannot be made, after the directory was: it throws.  Mutant: the
   loop goes on to the next input with the link taken for made. *)
CannotLinkSkipped(p) ==
    /\ pc = "link" /\ ToLink(p)
    /\ (~Linkable(p, Made(p)) \/ IoMayFail)
    /\ made' = made \cup {Parent(p)}
    /\ fs' = Made(p)
    /\ links' = [links EXCEPT ![p] = request.base]
    /\ UNCHANGED <<pc, request, answer, seeds, used, view, starting, temps, watched,
                   faulted>>
CannotLink(p) ==
    /\ pc = "link" /\ ToLink(p)
    /\ (~Linkable(p, Made(p)) \/ IoMayFail)
    /\ faulted' = (faulted \/ Linkable(p, Made(p)))
    /\ made' = made \cup {Parent(p)}
    /\ fs' = Made(p)
    /\ Reply(Broken)
    /\ UNCHANGED <<request, links, seeds, used, view, starting, temps, watched>>

(* A directory that cannot be made: _dirs holds it already. *)
CannotMake(p) ==
    /\ pc = "link" /\ ToLink(p) /\ ToMake(p)
    /\ IoMayFail
    /\ faulted' = TRUE
    /\ made' = made \cup {Parent(p)}
    /\ Reply(Broken)
    /\ UNCHANGED <<request, links, seeds, used, view, starting, fs, temps, watched>>

Mirrored ==
    /\ pc = "link"
    /\ \A p \in Paths : ~ToLink(p)
    /\ pc' = "seed"
    /\ UNCHANGED <<request, answer, process, starting, fs, temps, watched,
                   faulted>>

-----------------------------------------------------------------------------
(* _seedFor: a hit moves the seed to the end, a load drops the oldest beyond
   the limit; a key is there once, so indexWhere finds the one.  Mutants: a hit
   leaves the seed where it is; the limit is tested before the load. *)
HitAt(k) == CHOOSE i \in 1..Len(seeds) : seeds[i] = k
Held == {seeds[i] : i \in 1..Len(seeds)}
TrimmedLate(s) == IF Len(s) > SeedLimit + 1 THEN Tail(s) ELSE s
Trimmed(s) == IF Len(s) > SeedLimit THEN Tail(s) ELSE s

HitInPlace(k) == seeds
Hit(k) == Append(Seqs!RemoveAt(seeds, HitAt(k)), k)

UseSeed ==
    /\ pc = "seed"
    /\ seeds' = IF request.key \in Held THEN Hit(request.key)
                ELSE Trimmed(Append(seeds, request.key))
    /\ used' = request.key
    /\ pc' = "compile"
    /\ UNCHANGED <<request, answer, links, made, view, starting, fs, temps,
                   watched, faulted>>

(* An import dill that cannot be read, or is of another SDK. *)
SeedFails ==
    /\ pc = "seed"
    /\ request.key \notin Held
    /\ Reply(Errors)
    /\ UNCHANGED <<request, process, starting, fs, temps, watched, faulted>>

(* What the front end finds under its roots: the links of the view. *)
ReadInView == {<<p, fs[p]>> : p \in {q \in Paths : fs[q] \in Bases}}

Compile ==
    /\ pc = "compile"
    /\ \/ Reply(Ok(ReadInView))
       \/ Reply(Errors)
    /\ UNCHANGED <<request, process, starting, fs, temps, watched, faulted>>

-----------------------------------------------------------------------------
(* The process ends, killed by Bazel or at the end of its stdin, and a new one
   starts.  Bound: Bazel starts one only while a temporary name is left. *)
Ends ==
    /\ pc # "off"
    /\ (MayKill \/ pc = "idle")
    /\ pc' = "off" /\ answer' = Errors
    /\ links' = [p \in Paths |-> NoBase] /\ made' = {}
    /\ seeds' = <<>> /\ used' = NoKey
    /\ view' = NoTemp /\ starting' = NoTemp /\ fs' = Empty
    /\ faulted' = FALSE
    /\ UNCHANGED <<request, temps, watched>>

Starts ==
    /\ pc = "off" /\ temps # Temps
    /\ pc' = "idle"
    /\ UNCHANGED <<request, answer, process, starting, fs, temps, watched,
                   faulted>>

(* The remover of a view reads to the end of the worker's pipe, then removes
   the view. *)
RemoverRuns(t) ==
    /\ t \in watched /\ t # view
    /\ temps' = temps \ {t} /\ watched' = watched \ {t}
    /\ UNCHANGED <<pc, request, answer, process, starting, fs, faulted>>

WorkerStep ==
    \/ CreateView \/ StartRemover \/ RemoverFails \/ Unlink
    \/ \E p \in Paths : LinkInput(p) \/ CannotLink(p) \/ CannotMake(p)
    \/ Mirrored \/ UseSeed \/ SeedFails \/ Compile

WorkerNext ==
    \/ \E r \in Requests : Receive(r)
    \/ WorkerStep
    \/ Ends \/ Starts
    \/ \E t \in Temps : RemoverRuns(t)

WorkerSpec == WorkerInit /\ [][WorkerNext]_vars

(* The worker's own steps run to their end; nothing says when Bazel asks. *)
WorkerFairSpec ==
    WorkerSpec /\ WF_vars(WorkerStep) /\ \A t \in Temps : WF_vars(RemoverRuns(t))

-----------------------------------------------------------------------------
WorkerTypeOK ==
    /\ pc \in {"off", "idle", "create", "start", "unlink", "link", "seed", "compile"}
    /\ request \in Requests
    /\ answer \in {Pending, Errors, Broken}
                  \cup [kind : {"ok"}, read : SUBSET (Paths \X Bases)]
    /\ links \in [Paths -> Bases \cup {NoBase}]
    /\ made \subseteq {Parent(p) : p \in Paths}
    /\ seeds \in Seq(Keys) /\ Len(seeds) <= SeedLimit
    /\ used \in Keys \cup {NoKey}
    /\ view \in temps \cup {NoTemp} /\ starting \in temps \cup {NoTemp}
    /\ fs \in [Nodes -> Bases \cup {"none", "dir"}]
    /\ temps \subseteq Temps /\ watched \subseteq temps
    /\ faulted \in BOOLEAN

(* A request reads only its declared inputs (the header of driver.dart): a
   compile that succeeds has read exactly the request's inputs, each from the
   request's own base, whatever earlier requests left in the view. *)
Hermetic ==
    answer.kind = "ok" => answer.read = request.inputs \X {request.base}

(* _links is what the view holds, also after a request that broke half-way:
   the next one deletes and adds by it. *)
LinksAreReal ==
    \A p \in Paths : /\ (links[p] # NoBase => fs[p] = links[p])
                     /\ (fs[p] \in Bases => links[p] = fs[p])

(* The seed of a compile outlives the load of the next one's ("up to two seeds
   stay loaded between requests"): two import dills that alternate are each
   loaded once. *)
LastSeedStays ==
    [][UseSeed /\ used # NoKey /\ SeedLimit > 1 =>
           \E i \in 1..Len(seeds') : seeds'[i] = used]_vars

(* Every request is answered, unless the worker is killed first. *)
RequestAnswered == (answer = Pending) ~> (answer # Pending)

(* The mirror makes any view ("Makes the view hold exactly [inputs]"): a request
   in which every operation works is not answered with a worker error. *)
MirrorMakesView == answer = Broken => faulted
=============================================================================
