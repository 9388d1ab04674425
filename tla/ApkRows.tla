-------------------------------- MODULE ApkRows --------------------------------
(* example_hashes.py, the parts without state: what a row of EXAMPLES has to say of
   itself, which rows a recorded table must hold, and how the rows of one example
   replace their own in a table.

   A configured row is [example, module, target, mode, abi, flags], its flags
   [compile, flutter, platforms], the last two sequences: an option may be given
   twice, and the last one counts.  A recorded row is [example, key, apk], where key
   is Nothing when row_key cannot read it, and example is its first word. *)
EXTENDS Selection

CONSTANTS
    Abis,           \* ANDROID_ABIS
    Fat,            \* the ABI selection for all of them
    RowCount,       \* how many rows EXAMPLES has to have
    Nothing

SelectedAbis(abi) == IF abi = Fat THEN Abis ELSE {abi}

KeyOf(r) == <<r.example, r.target, r.mode, r.abi>>

SaysWhatItBuilds(r) ==
    /\ r.mode \in {"release", "debug"}
    /\ r.abi \in Abis \cup {Fat}
    /\ r.flags.compile = IF r.mode = "release" THEN "opt" ELSE "fastbuild"
    /\ r.flags.flutter = <<r.mode>>
    /\ r.flags.platforms = <<SelectedAbis(r.abi)>>

ValidTable(table) ==
    /\ Len(table) = RowCount
    /\ \A i, j \in DOMAIN table : KeyOf(table[i]) = KeyOf(table[j]) => i = j
    /\ \A i \in DOMAIN table : SaysWhatItBuilds(table[i])

RowKeys(table) == [i \in DOMAIN table |-> KeyOf(table[i])]
Names(table)   == {table[i].example : i \in DOMAIN table}

\* --only: without it, only is Nothing.
Selected(table, only) ==
    Filtered(table, {r \in ToSet(table) : only = Nothing \/ r.example = only})

\* What an APK built with a configured row's flags is.
ApkOf(r, src) ==
    [src   |-> src.version, mode |-> Last(r.flags.flutter),
     abis |-> Last(r.flags.platforms) \cap src.abis]

\* What a recorded row says of its APK is so.
WhatItSays(row) ==
    row.key # Nothing => row.apk.mode = row.key[3] /\ row.apk.abis = SelectedAbis(row.key[4])

RecordedRow(r, apk) == [example |-> r.example, key |-> KeyOf(r), apk |-> apk]

RowsCovered(rows, keys) ==
    /\ \A i \in DOMAIN rows : rows[i].key # Nothing
    /\ \A i, j \in DOMAIN rows : rows[i].key = rows[j].key => i = j
    /\ {rows[i].key : i \in DOMAIN rows} = {keys[i] : i \in DOMAIN keys}

(* Mutant: any table serves as a baseline. *)
AnyBaseline(table, existing) == existing # Nothing /\ ValidTable(table)

ValidBaseline(table, existing) ==
    existing # Nothing /\ ValidTable(table) /\ RowsCovered(existing, RowKeys(table))

RowFor(key, rows) == rows[CHOOSE i \in DOMAIN rows : rows[i].key = key]
HasRow(key, rows) == \E i \in DOMAIN rows : rows[i].key = key

MergeRows(table, existing, fresh) ==
    LET recorded == {k \in ToSet(RowKeys(table)) : HasRow(k, existing) \/ HasRow(k, fresh)}
        kept     == Filtered(RowKeys(table), recorded)
    IN  [i \in DOMAIN kept |->
            IF HasRow(kept[i], fresh) THEN RowFor(kept[i], fresh)
            ELSE RowFor(kept[i], existing)]

\* What --check compares the rows it built with, and whether it passes.
RowsExpected(golden, only) ==
    Filtered(golden, {row \in ToSet(golden) : only = Nothing \/ row.example = only})

(* Mutant: every row that was built is recorded, and what else is recorded is not asked. *)
RowsHeld(table, golden, only, rows) ==
    golden # Nothing /\ \A i \in DOMAIN rows : \E j \in DOMAIN golden : golden[j] = rows[i]

TableMatches(table, golden, only, rows) ==
    /\ golden # Nothing
    /\ only # Nothing => RowsExpected(golden, only) # <<>>
    /\ RowsCovered(RowsExpected(golden, only), RowKeys(Selected(table, only)))
    /\ RowsExpected(golden, only) = rows
=============================================================================
