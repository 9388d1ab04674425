----------------------------- MODULE DeviceFrames -----------------------------
(* How an event is split into frames (frame.dart, encodeEvent).  A frame is at
   most FrameMax characters with its header, and the header holds the number of
   frames, which depends on how much the header leaves: the loop looks for a
   count that agrees with itself.  Text is its length; a chunk is the interval
   of the text it carries.                                                     *)
EXTENDS Integers, Sequences

CONSTANTS
    FrameMax,       \* frameMaxChars
    RunLengths,     \* lengths of run ids
    EventNumbers,   \* event numbers
    Lengths         \* lengths of escaped payloads; JSON text is never empty

ASSUME FramesAssumption ==
    /\ FrameMax \in Nat
    /\ RunLengths \subseteq Nat \ {0} /\ EventNumbers \subseteq Nat
    /\ Lengths \subseteq Nat \ {0}

VARIABLES
    event,      \* the run id's length, the event's number and its text's length
    count,      \* of frames
    frames,     \* what is printed
    stage       \* count, split, done, or error

frameVars == <<event, count, frames, stage>>

(* How many digits a number is written with. *)
Digits[n \in Nat] == IF n < 10 THEN 1 ELSE 1 + Digits[n \div 10]

(* "RFT|<run>|<seq>|<i>/<n>|" *)
HeaderLength(e, i, n) == 8 + e.run + Digits[e.seq] + Digits[i] + Digits[n]

(* chunkBudget: by the longest header of the event. *)
ChunkBudget(e, n) == FrameMax - HeaderLength(e, n - 1, n)

(* Mutant: one frame too many for a text of whole chunks. *)
NeededAndOne(e, n) == e.length \div ChunkBudget(e, n) + 1
Needed(e, n) == (e.length + ChunkBudget(e, n) - 1) \div ChunkBudget(e, n)

FramesInit ==
    /\ event \in [run : RunLengths, seq : EventNumbers, length : Lengths]
    /\ count = 1 /\ frames = <<>> /\ stage = "count"

HeaderTooLong ==
    /\ stage = "count" /\ ChunkBudget(event, count) <= 0
    /\ stage' = "error"
    /\ UNCHANGED <<event, count, frames>>

Recount ==
    /\ stage = "count" /\ ChunkBudget(event, count) > 0
    /\ Needed(event, count) # count
    /\ count' = Needed(event, count)
    /\ UNCHANGED <<event, frames, stage>>

(* Mutant: off by one. *)
CountedLess ==
    /\ stage = "count" /\ ChunkBudget(event, count) > 0
    /\ Needed(event, count) = count - 1
    /\ stage' = "split"
    /\ UNCHANGED <<event, count, frames>>
Counted ==
    /\ stage = "count" /\ ChunkBudget(event, count) > 0
    /\ Needed(event, count) = count
    /\ stage' = "split"
    /\ UNCHANGED <<event, count, frames>>

ChunkOf(i) ==
    LET budget == ChunkBudget(event, count)
        start  == i * budget
    IN [start |-> start,
        end   |-> IF start + budget < event.length THEN start + budget
                                                   ELSE event.length]

PrintFrame ==
    /\ stage = "split" /\ Len(frames) < count
    /\ frames' = Append(frames, ChunkOf(Len(frames)))
    /\ UNCHANGED <<event, count, stage>>

AllPrinted ==
    /\ stage = "split" /\ Len(frames) = count
    /\ stage' = "done"
    /\ UNCHANGED <<event, count, frames>>

FramesNext == HeaderTooLong \/ Recount \/ Counted \/ PrintFrame \/ AllPrinted

FramesSpec == FramesInit /\ [][FramesNext]_frameVars /\ WF_frameVars(FramesNext)

-----------------------------------------------------------------------------
Size(k) == frames[k].end - frames[k].start

FramesTypeOK ==
    /\ stage \in {"count", "split", "done", "error"}
    /\ count \in Nat \ {0} /\ Len(frames) <= count
    /\ \A k \in 1..Len(frames) : 0 <= frames[k].start /\ frames[k].end <= event.length

(* No frame is longer than frameMaxChars, whatever its index. *)
FramesFit ==
    \A k \in 1..Len(frames) : HeaderLength(event, k - 1, count) + Size(k) <= FrameMax

(* What the decoder asks of the chunks of an event (device_decoder.dart): none
   is empty, all but the last have the length it computes from the header it
   reads, and joined they are the text. *)
FramesDecode ==
    stage = "done" =>
        /\ \A k \in 1..count : Size(k) > 0
        /\ \A k \in 1..(count - 1) : Size(k) = ChunkBudget(event, count)
        /\ frames[1].start = 0 /\ frames[count].end = event.length
        /\ \A k \in 1..(count - 1) : frames[k].end = frames[k + 1].start

(* The frames are of their types, fit and decode. *)
FramesSafe == FramesTypeOK /\ FramesFit /\ FramesDecode

(* The loop ends: it finds a count, or no header fits. *)
EncodeEnds == <>(stage \in {"done", "error"})
=============================================================================
