---------------------------- MODULE MCLocations ----------------------------
(***************************************************************************)
(* Six executables for TLC.                                                *)
(*   Joined    two version 5 units of one file each, the second beginning  *)
(*             where the first ends; _main and _g in the first and second  *)
(*   Gapped    a version 4 unit with a header that is refused: _main with  *)
(*             a long row, a row without a line, then a gap and _g of one  *)
(*             line                                                        *)
(*   Inlined   a unit of version 3, then a version 5 unit of two files and *)
(*             directories with a header that ends in a special opcode     *)
(*   Swallowed a version 4 unit with a header that is accepted without its *)
(*             second file, _main of one line before _g; then a version 5  *)
(*             unit with its names in __debug_line_str                     *)
(*   Shifted   a version 4 unit whose program is entered a byte too early  *)
(*   Stripped  no line table                                               *)
(***************************************************************************)
EXTENDS Locations, MCHeaders, TLC

Row(a, l, f) == [address |-> a, line |-> l, file |-> f, end |-> FALSE]
EndRow(a, l) == [address |-> a, line |-> l, file |-> 1, end |-> TRUE]
Sym(a, t, n) == [address |-> a, type |-> t, name |-> n, sect |-> t \notin {"U"}]

AC == <<"src", "a.c">>
BAC == <<"src", "ba.c">>
IncH == <<"inc", "a.h">>

Text(g) == <<Sym(0, "U", "_printf"), Sym(10, "T", "__mh_execute_header"),
             Sym(12, "T", "_main"), Sym(16, "t", "Ltmp0"), Sym(g, "t", "_g"),
             Sym(40, "D", "_x")>>

\* A unit with the header that the compiler writes for dirs and files.
Names == {Name("src", 3, 0), Name("inc", 3, 4), Name("a.c", 3, 8), Name("ba.c", 4, 12),
          Name("a.h", 3, 17), Name("assert1.h", 9, 21), Name("inttypes9.h", 11, 31)}
NameOf(t) == CHOOSE n \in Names : n.text = t

\* Directories by their text, files as <<text, directory index>>.
UnitOf(layout, dirTexts, fileTexts, rows, astray) ==
    LET dirs == [i \in DOMAIN dirTexts |-> NameOf(dirTexts[i])]
        files == [i \in DOMAIN fileTexts |->
                     [name |-> NameOf(fileTexts[i][1]), dir |-> fileTexts[i][2]]]
        made == HeaderOf(layout, dirs, files, Names)
    IN  [version |-> layout.version, bytes |-> made.bytes, text |-> made.text,
         strs |-> made.strs, dirs |-> dirTexts,
         files |-> [i \in DOMAIN files |-> PathOf(layout, dirs, files[i])],
         rows |-> rows, astray |-> astray]

Joined ==
    [units |-> <<UnitOf(V5Checksum(1), <<"src">>, <<<<"a.c", 0>>, <<"a.c", 0>>>>,
                        <<Row(12, 3, 1), Row(14, 5, 1), Row(20, 2, 1), EndRow(24, 2)>>, {}),
                 UnitOf(V5Checksum(1), <<"src">>, <<<<"ba.c", 0>>, <<"ba.c", 0>>>>,
                        <<Row(24, 1, 1), Row(26, 3, 1), EndRow(28, 3)>>, {})>>,
     section |-> TRUE, base |-> 10, limit |-> 30,
     objects |-> <<Text(24), Text(24)>>,
     functions |-> {[name |-> "_main", from |-> 12, to |-> 24, unit |-> 1],
                    [name |-> "_g", from |-> 24, to |-> 28, unit |-> 2]}]

Gapped ==
    [units |-> <<UnitOf(V4, <<"src">>, <<<<"a.c", 1>>>>,
                        <<Row(12, 2, 1), Row(14, 3, 1), Row(22, 0, 1), EndRow(24, 0),
                          Row(26, 5, 1), EndRow(28, 5)>>, {})>>,
     section |-> TRUE, base |-> 10, limit |-> 30,
     objects |-> <<Text(26)>>,
     functions |-> {[name |-> "_main", from |-> 12, to |-> 24, unit |-> 1],
                    [name |-> "_g", from |-> 26, to |-> 28, unit |-> 1]}]

Inlined ==
    [units |-> <<UnitOf(V3, <<"src">>, <<<<"ba.c", 1>>>>,
                        <<Row(12, 1, 1), Row(14, 2, 1), EndRow(16, 2)>>, {}),
                 UnitOf(V5Checksum(15), <<"src", "inc">>,
                        <<<<"a.c", 0>>, <<"a.c", 0>>, <<"a.h", 1>>>>,
                        <<Row(16, 1, 1), Row(18, 4, 2), Row(20, 2, 1), EndRow(22, 2)>>, {})>>,
     section |-> TRUE, base |-> 10, limit |-> 30,
     objects |-> <<Text(16)>>,
     functions |-> {[name |-> "_main", from |-> 12, to |-> 16, unit |-> 1],
                    [name |-> "_g", from |-> 16, to |-> 22, unit |-> 2]}]

Swallowed ==
    [units |-> <<UnitOf(V4, <<"src">>, <<<<"a.c", 1>>, <<"assert1.h", 0>>>>,
                        <<Row(12, 3, 1), Row(16, 5, 1), Row(18, 4, 2), Row(20, 6, 1), EndRow(22, 6)>>,
                        {}),
                 UnitOf(V5Offsets(1), <<"src">>, <<<<"ba.c", 0>>, <<"ba.c", 0>>>>,
                        <<Row(22, 1, 1), Row(24, 3, 1), EndRow(26, 3)>>, {})>>,
     section |-> TRUE, base |-> 10, limit |-> 30,
     objects |-> <<Text(16)>>,
     functions |-> {[name |-> "_main", from |-> 12, to |-> 16, unit |-> 1],
                    [name |-> "_g", from |-> 16, to |-> 22, unit |-> 1]}]

\* The header's last byte makes an opcode of no length of the first
\* DW_LNE_set_address; its operand and what follows become two rows, or a
\* length that leaves the unit.
Shifted ==
    [units |-> <<UnitOf(V4, <<"src">>, <<<<"a.c", 1>>, <<"inttypes9.h", 0>>>>,
                        <<Row(12, 2, 1), Row(14, 3, 1), EndRow(24, 3)>>,
                        {[ok |-> TRUE, rows |-> <<[address |-> 3074, line |-> 1, file |-> 1],
                                                  [address |-> 2, line |-> 2, file |-> 1]>>],
                         [ok |-> FALSE, rows |-> <<>>]})>>,
     section |-> TRUE, base |-> 10, limit |-> 30,
     objects |-> <<Text(24)>>,
     functions |-> {[name |-> "_main", from |-> 12, to |-> 24, unit |-> 1]}]

Stripped ==
    [units |-> <<>>, section |-> FALSE, base |-> 10, limit |-> 30,
     objects |-> <<Text(24)>>,
     functions |-> {[name |-> "_main", from |-> 12, to |-> 24, unit |-> 1],
                    [name |-> "_g", from |-> 24, to |-> 28, unit |-> 1]}]

MCImages == {Joined, Gapped, Inlined, Swallowed, Shifted, Stripped}
MCPcs == {50 + 2 * n : n \in 0 .. 9}
MCTargets ==
    {[kind |-> "fileline", file |-> f, line |-> n] :
        f \in {<<"", "a.c">>, <<"", "ba.c">>}, n \in {1, 2, 3, 5}}
    \cup {[kind |-> "number", line |-> n] : n \in {2, 3, 54}}
    \cup {[kind |-> "name", name |-> n] : n \in {"_main", "_g", "_printf", "_none"}}
MCLineBase == -1
MCSubstrings == {<<BAC, <<"", "a.c">>>>}

\* Beside the debugger, a compiler that writes headers to be read back.
MCInit == Init /\ written = NothingWritten
MCNext ==
    \/ written = NothingWritten /\ Next /\ UNCHANGED written
    \/ /\ image = Stripped /\ source = "none" /\ out = Silent
       /\ WriteHeader \/ Forget
       /\ UNCHANGED vars
MCSpec == MCInit /\ [][MCNext]_<<vars, written>>

\* The symbols of the images name the functions and their rows are a linker's:
\* what the theorems about frames and breakpoints are proved under.
ASSUME MCSymbolsTell == SymbolsTell
ASSUME MCRowsTell == RowsTell
ASSUME MCNamesTell == NamesTell
=============================================================================
