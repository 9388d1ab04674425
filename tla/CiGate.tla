-------------------------------- MODULE CiGate --------------------------------
(* The example matrix of ci.yml and matrix_gate.py, its gate job: one job per OS and
   example builds on that OS, uploads the digests of its test kernels and checks its
   APK rows against that OS's table; the gate runs when all jobs have ended, however
   they ended, and reads the workflow, both tables and the uploaded digests.

   The name of an OS or an example is the sequence of its parts between hyphens. *)
EXTENDS ApkRows, FiniteSets

CONSTANTS
    Pipelines,      \* [oses, examples, table, tables, built, kernels]: a commit and
                    \* what each OS builds of it
    NoDigests

(* No name is empty, and Nothing is none: it stands for an --only that is not given.
   The OSes of the tables are OSes of the matrix: matrix_gate.py names the two tables
   itself, and nothing in it holds them against the matrix's own list of OSes. *)
ASSUME CiAssumption ==
    \A c \in Pipelines :
        /\ \A n \in c.oses \cup c.examples : IsAList(n) /\ n # <<>> /\ n # Nothing
        /\ IsAList(c.table)
        /\ DOMAIN c.tables \subseteq c.oses
        /\ \A os \in DOMAIN c.tables : IsAList(c.tables[os])

VARIABLES
    pipeline,
    jobs,           \* how the job of each OS and example stands
    artifacts,      \* what is uploaded: [artifact name -> digests]
    gate            \* [step, failed]

ciVars == <<pipeline, jobs, artifacts, gate>>

Matrix(c) == c.oses \X c.examples

CiStart(c) ==
    /\ pipeline = c
    /\ jobs = [j \in Matrix(c) |-> "queued"]
    /\ artifacts = [a \in {} |-> {}]
    /\ gate = [step |-> "waits", failed |-> FALSE]
CiInit == \E c \in Pipelines : CiStart(c)

ArtifactOf(j) == j[1] \o j[2]

\* artifact_key: the name is split at its last hyphen.
ArtifactKey(a) == <<Front(a), <<Last(a)>>>>

Uploaded(a, digests) ==
    artifacts' = [b \in DOMAIN artifacts \cup {a} |->
                     IF b = a THEN digests ELSE artifacts[b]]

Upload(j) ==
    IF pipeline.kernels[j] = NoDigests THEN UNCHANGED artifacts
    ELSE Uploaded(ArtifactOf(j), pipeline.kernels[j])

\* The rows of EXAMPLES that a job's name selects, and what its check says of them.
RowsMatch(j) ==
    /\ j[2] \in Names(pipeline.table)
    /\ TableMatches(pipeline.table, pipeline.tables[j[1]], j[2], pipeline.built[j])

\* The kernel step and the APK gate passed, or one of them, a build or a test failed;
\* the upload is made always, of the digests that there are: none of a kernel step
\* that a job has not come to.
JobEnds(j) ==
    /\ jobs[j] = "queued"
    /\ \E how \in {"success", "failure"} :
          /\ how = "success" => RowsMatch(j) /\ pipeline.kernels[j] # NoDigests
          /\ jobs' = [jobs EXCEPT ![j] = how]
    /\ \/ Upload(j)
       \/ jobs'[j] = "failure" /\ UNCHANGED artifacts
    /\ UNCHANGED <<pipeline, gate>>

\* A job that is cancelled or times out may have uploaded nothing.
JobIsCancelled(j) ==
    /\ jobs[j] = "queued"
    /\ jobs' = [jobs EXCEPT ![j] = "cancelled"]
    /\ Upload(j) \/ UNCHANGED artifacts
    /\ UNCHANGED <<pipeline, gate>>

Hyphenated(names) == \E n \in names : Len(n) > 1

ReadsMatrix == pipeline.examples # {} /\ pipeline.oses # {} /\ ~Hyphenated(pipeline.examples)

RecordedExamples(rows) == {rows[i].example : i \in DOMAIN rows}

RowsClaimed ==
    /\ \A os \in DOMAIN pipeline.tables :
          RecordedExamples(pipeline.tables[os]) \subseteq pipeline.examples
    /\ \A s, t \in DOMAIN pipeline.tables :
          RecordedExamples(pipeline.tables[s]) = RecordedExamples(pipeline.tables[t])

\* What is found under a key: one value, as the matrix has no hyphenated example.
Found(k) == {artifacts[a] : a \in {b \in DOMAIN artifacts : ArtifactKey(b) = k}}

KernelsAgree ==
    /\ \A j \in Matrix(pipeline) : Found(j) # {}
    /\ \A j, k \in Matrix(pipeline) : j[2] = k[2] => Found(j) = Found(k)

GateStep(from, to, ok) ==
    /\ gate.step = from /\ ~gate.failed
    /\ gate' = [step |-> to, failed |-> ~ok]
    /\ UNCHANGED <<pipeline, jobs, artifacts>>

GateRows ==
    /\ \A j \in DOMAIN jobs : jobs[j] # "queued"
    /\ GateStep("waits", "rows", ReadsMatrix /\ RowsClaimed)
GateKernels == GateStep("rows", "kernels", ReadsMatrix /\ KernelsAgree)

(* Mutant: the gate job reports its own steps only. *)
AnyResult == TRUE

MatrixSucceeded == \A j \in DOMAIN jobs : jobs[j] = "success"

GateResult == GateStep("kernels", "done", MatrixSucceeded)

CiNext ==
    \/ \E j \in DOMAIN jobs : JobEnds(j) \/ JobIsCancelled(j)
    \/ GateRows \/ GateKernels \/ GateResult

CiSpec == CiInit /\ [][CiNext]_ciVars

-----------------------------------------------------------------------------
(* The state keeps its types, and the gate reads what the jobs leave once all of them
   have ended. *)
CiTypeOK ==
    /\ jobs \in [Matrix(pipeline) -> {"queued", "success", "failure", "cancelled"}]
    /\ DOMAIN artifacts \subseteq {ArtifactOf(j) : j \in {k \in DOMAIN jobs : jobs[k] # "queued"}}
    /\ gate.step \in {"waits", "rows", "kernels", "done"}
    /\ gate.step # "waits" => \A j \in DOMAIN jobs : jobs[j] # "queued"

Green == gate.step = "done" /\ ~gate.failed

(* A green pipeline has built, on every OS that has a table, every row that any of
   the tables records, and built it as that OS's table says: no row is left to no
   job, and no job that failed or was cancelled is overlooked (check_rows, the gate
   job's last step). *)
GreenBuiltEveryRow ==
    Green => \A os \in DOMAIN pipeline.tables, t \in DOMAIN pipeline.tables :
        \A i \in DOMAIN pipeline.tables[t] :
            LET row == pipeline.tables[t][i]
                job == <<os, row.example>>
            IN  /\ job \in DOMAIN jobs
                /\ \E k \in DOMAIN pipeline.built[job] :
                      /\ pipeline.built[job][k].key = row.key
                      /\ t = os => pipeline.built[job][k] = row

(* A green pipeline has test kernels of every example on every OS, the same on all of
   them (check_kernel_digests, artifact_key). *)
GreenKernelsAgree ==
    Green => \A j, k \in DOMAIN jobs :
        pipeline.kernels[j] # NoDigests
            /\ (j[2] = k[2] => pipeline.kernels[j] = pipeline.kernels[k])

(* A green pipeline has waited for every job, and means every row on every OS and the
   same kernels everywhere. *)
GreenMeansIt == CiTypeOK /\ GreenBuiltEveryRow /\ GreenKernelsAgree
=============================================================================
