------------------------------ MODULE MCApkTable ------------------------------
(* example_hashes.py and its probe: two invocations, three rows of three examples, and
   tables that are whole, short, out of order, with a row twice, of a ghost, or without
   a key; and an EXAMPLES that is short, doubled, or says what it does not build. *)
EXTENDS ApkTable

MCAbis == {"arm", "x86"}
Flags(mode, abi) ==
    [compile |-> IF mode = "release" THEN "opt" ELSE "fastbuild", flutter |-> <<mode>>,
     platforms |-> <<IF abi = "fat" THEN MCAbis ELSE {abi}>>]
Configured(example, module, target, mode, abi) ==
    [example |-> example, module |-> module, target |-> target, mode |-> mode, abi |-> abi,
     flags |-> Flags(mode, abi)]
Row1 == Configured("demo", "m1", "app", "release", "arm")
Row2 == Configured("demo_debug", "m1", "app", "debug", "fat")
Row3 == Configured("other", "m2", "host", "release", "fat")
MislabelledRow2 == [Row2 EXCEPT !.flags = [@ EXCEPT !.flutter = <<"debug", "release">>]]
Source1 == [version |-> 1, abis |-> MCAbis]
Source2 == [Source1 EXCEPT !.version = 2]
Source3 == [version |-> 3, abis |-> {"arm"}]
MCSources == {Source1, Source2, Source3}
Rec(r) == RecordedRow(r, [src |-> 1, mode |-> r.mode, abis |-> SelectedAbis(r.abi)])
Whole == <<Rec(Row1), Rec(Row2), Rec(Row3)>>
Other == [Rec(Row1) EXCEPT !.apk = [@ EXCEPT !.src = 0]]
Ghost == [Rec(Row1) EXCEPT !.key = <<"demo", "ghost", "release", "arm">>]
Keyless == [Rec(Row1) EXCEPT !.key = Nothing]
MCCheckouts ==
    [table : {<<Row1, Row2, Row3>>}, upsets : {1},
     golden : {Nothing, <<Rec(Row1), Rec(Row2)>>, <<Rec(Row3), Rec(Row1), Rec(Row2)>>}
              \cup {Append(Whole, row) : row \in {Other, Ghost, Keyless}}]
    \cup [table : {<<Row1, Row2>>, <<Row1, Row2, Row2>>, <<Row1, MislabelledRow2, Row3>>},
          upsets : {1}, golden : {Whole}]
    \cup [table : {<<Row1, Row2, Row3>>}, upsets : {2}, golden : {Whole}]
Command(record, only, build) == [record |-> record, only |-> only, build |-> build]
MCCommands ==
    { Command(FALSE, "demo", TRUE), Command(FALSE, Nothing, TRUE),
      Command(TRUE, "demo", TRUE), Command(TRUE, Nothing, TRUE),
      Command(TRUE, "demo_debug", FALSE), Command(FALSE, "dem", TRUE) }

\* Two invocations that record one example each.
MCRecorders == {Command(TRUE, "demo", TRUE), Command(TRUE, "other", TRUE)}
MCOneCheckout == {[table |-> <<Row1, Row2, Row3>>, golden |-> Whole, upsets |-> 1]}
=============================================================================
