---------------------------- MODULE DeviceDecoder -----------------------------
(* The device stream (frame.dart) and its decoder (device_decoder.dart) as
   operators on a capture.  The decoder drops the lines of other runs and equal
   copies of a frame and reads the rest in any order, so a capture is a set of
   lines:

     frame   one chunk of an event: run, sequence number, index, count and the
             piece, which the capture may have cut short
     footer  the run and its status
     broken  a line of a run that was cut in its header, or in its footer

   An event is a record; what it says is compared whole.  A frame's length is
   in module DeviceFrames: here a chunk is of full length or short.           *)
EXTENDS Integers, Sequences, FiniteSets

(* Lines. *)
Frame(e, i, n)  == [kind |-> "frame", run |-> e.run, seq |-> e.seq, i |-> i,
                    n |-> n, event |-> e, whole |-> TRUE]
Footer(run, s)  == [kind |-> "footer", run |-> run, status |-> s]
BrokenLine(run) == [kind |-> "broken", run |-> run]
Short(l)        == [l EXCEPT !.whole = FALSE]

FramesOf(e, n) == {Frame(e, i, n) : i \in 0..(n - 1)}

Failed == [ok |-> FALSE]

(* _onlyRun and its candidates: every run id a line of the capture begins with. *)
RunIdsIn(log) == {l.run : l \in log}

FramesIn(log, run)  == {l \in log : l.kind = "frame" /\ l.run = run}
StatusesIn(log, run) == {l.status : l \in {f \in log : f.kind = "footer" /\ f.run = run}}
Seqs(F)       == {f.seq : f \in F}
ChunksOf(F, s) == {f \in F : f.seq = s}

(* decodeTransport, the checks of one line ... *)
WellFormed(log, run) == BrokenLine(run) \notin log

(* Every chunk but the last has the encoder's full length.  Mutant: unchecked. *)
AnyChunkFits(f) == TRUE
ChunkFits(f) == f.whole \/ f.i = f.n - 1

(* ... of the frames of one event, which agree on their count and their copies ... *)
Agree(F) ==
    \A f, g \in F : f.seq = g.seq => /\ f.n = g.n
                                     /\ f.i = g.i => f = g

(* ... of the footers, and of the whole: no event and no chunk is missing. *)
OneFooter(log, run) == Cardinality(StatusesIn(log, run)) = 1

NothingMissing(F) ==
    /\ F # {}
    /\ Seqs(F) = 0..(Cardinality(Seqs(F)) - 1)
    /\ \A f \in F : {g.i : g \in ChunksOf(F, f.seq)} = 0..(f.n - 1)

TransportOk(log, run) ==
    LET F == FramesIn(log, run) IN
    /\ WellFormed(log, run)
    /\ \A f \in F : ChunkFits(f)
    /\ Agree(F)
    /\ OneFooter(log, run)
    /\ NothingMissing(F)

(* _parseEvent.  A cut last chunk never parses; where an earlier chunk was cut,
   the text may parse and say something else. *)
Parses(F, s)  == \A f \in ChunksOf(F, s) : f.i = f.n - 1 => f.whole
Garbled(e)    == [e EXCEPT !.body = "garbled"]
EventAt(F, s) ==
    LET f == CHOOSE g \in ChunksOf(F, s) : TRUE IN
    IF \A g \in ChunksOf(F, s) : g.whole THEN f.event ELSE Garbled(f.event)

(* decodeStream *)
Payloads(F) == [k \in 1..Cardinality(Seqs(F)) |-> EventAt(F, k - 1)]
(* The loop over the events: the cases of the first n of them. *)
CasesUpTo(es) ==
    LET upTo[n \in 0..Len(es)] ==
            IF n = 0 THEN <<>>
            ELSE IF es[n].type = "case" THEN Append(upTo[n - 1], es[n].body)
            ELSE upTo[n - 1]
    IN upTo
CasesIn(es) == CasesUpTo(es)[Len(es)]
IsFailing(o) == o \in {"fail", "error"}
StatusOf(cases) == IF \E k \in 1..Len(cases) : IsFailing(cases[k]) THEN 1 ELSE 0

(* Exactly one complete event, the last, that counts the cases and names the
   status of the footer and of the cases. *)
Consistent(es, status) ==
    LET cases == CasesIn(es) IN
    /\ {k \in 1..Len(es) : es[k].type = "complete"} = {Len(es)}
    /\ es[Len(es)].body = <<Len(cases), status>>
    /\ StatusOf(cases) = status

DecodeRun(log, run) ==
    LET F  == FramesIn(log, run)
        es == Payloads(F)
        st == CHOOSE s \in StatusesIn(log, run) : TRUE
    IN IF /\ TransportOk(log, run)
          /\ \A s \in Seqs(F) : Parses(F, s)
          /\ Consistent(es, st)
       THEN [ok |-> TRUE, run |-> run, cases |-> CasesIn(es), status |-> st]
       ELSE Failed

(* Without --run, the capture must carry exactly one run. *)
DecodeOnly(log) ==
    IF Cardinality(RunIdsIn(log)) = 1
    THEN DecodeRun(log, CHOOSE r \in RunIdsIn(log) : TRUE)
    ELSE Failed
=============================================================================
