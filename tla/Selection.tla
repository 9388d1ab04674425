------------------------------ MODULE Selection ------------------------------
(* A filter of a list: the elements that lie in a set, in the order of the list.

   It is what SelectSeq of the standard module computes for the test "lies in the
   set", written as a recursive function, which can be reasoned about.          *)
EXTENDS Integers, Sequences, SequencesExt

IsAList(s) == s \in Seq(ToSet(s))

Filtered(s, wanted) ==
    LET upTo[i \in 0..Len(s)] ==
            IF i = 0 THEN <<>>
            ELSE IF s[i] \in wanted THEN Append(upTo[i - 1], s[i]) ELSE upTo[i - 1]
    IN  upTo[Len(s)]
=============================================================================
