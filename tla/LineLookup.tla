----------------------------- MODULE LineLookup -----------------------------
(***************************************************************************)
(* The queries of lineno.c on the loaded table.  A table is a record       *)
(*   entries  the rows [address, line, file] in the order they were read,  *)
(*            which need not be the order of their addresses               *)
(*   slide    run-time address minus link-time address                     *)
(* A query returns the index of a row, or NoRow where the C code returns   *)
(* NULL.  Every scan of the C code keeps the first of several best rows.   *)
(***************************************************************************)
EXTENDS Integers, Sequences, SequencesExt

CONSTANTS
    RowReach,       \* how far a row is trusted past its address (128 bytes)
    Substrings      \* pairs <<path, filter>>: strstr(path, filter) finds it

NoRow == 0
AnyFile == <<"", "">>       \* a NULL or empty filter

\* cdbg_lineno_runtime_addr
RuntimeAddr(ln, i) == ln.entries[i].address + ln.slide

\* file_matches: a path is <<directory, name>>, and so is a filter.
FileMatches(file, filter) ==
    \/ filter \in {AnyFile, file, <<"", file[2]>>}
    \/ <<file, filter>> \in Substrings

\* The first row of rows with the lowest address, and with the highest one.
LowestOf(ln, rows) ==
    IF rows = {} THEN NoRow
    ELSE CHOOSE i \in rows : \A j \in rows \ {i} :
            \/ RuntimeAddr(ln, i) < RuntimeAddr(ln, j)
            \/ RuntimeAddr(ln, i) = RuntimeAddr(ln, j) /\ i < j

HighestOf(ln, rows) ==
    IF rows = {} THEN NoRow
    ELSE CHOOSE i \in rows : \A j \in rows \ {i} :
            \/ RuntimeAddr(ln, i) > RuntimeAddr(ln, j)
            \/ RuntimeAddr(ln, i) = RuntimeAddr(ln, j) /\ i < j

-----------------------------------------------------------------------------
\* Mutation: a row does not hold its own first address.
LookupPcAbove(ln, pc) ==
    HighestOf(ln, {i \in DOMAIN ln.entries : RuntimeAddr(ln, i) < pc})

\* cdbg_lineno_lookup_pc
LookupPc(ln, pc) ==
    HighestOf(ln, {i \in DOMAIN ln.entries : RuntimeAddr(ln, i) <= pc})

\* lineno_entry_at_pc: the row must have a line, and no row may begin
\* between it and the pc, nor the pc be farther from it than RowReach.
EntryAtPc(ln, pc) ==
    LET e == LookupPc(ln, pc)
    IN  IF \/ e = NoRow
           \/ ln.entries[e].line = 0
           \/ pc > RuntimeAddr(ln, e) + RowReach
           \/ \E i \in DOMAIN ln.entries :
                RuntimeAddr(ln, e) < RuntimeAddr(ln, i) /\ RuntimeAddr(ln, i) <= pc
        THEN NoRow ELSE e

\* cdbg_lineno_line_at_pc: the file and the line, NoPlace on failure.
NoPlace == [file |-> AnyFile, line |-> 0]

PlaceOf(ln, i) ==
    IF i = NoRow THEN NoPlace
    ELSE [file |-> ln.entries[i].file, line |-> ln.entries[i].line]

LineAtPc(ln, pc) == PlaceOf(ln, EntryAtPc(ln, pc))

\* Mutation: the last row of the line, which may end a sequence.
LookupLineLast(ln, filter, line) ==
    HighestOf(ln, {i \in DOMAIN ln.entries : /\ ln.entries[i].line = line
                                             /\ FileMatches(ln.entries[i].file, filter)})

\* cdbg_lineno_lookup_line
LookupLine(ln, filter, line) ==
    LowestOf(ln, {i \in DOMAIN ln.entries : /\ ln.entries[i].line = line
                                            /\ FileMatches(ln.entries[i].file, filter)})

\* cdbg_lineno_lookup_line_unique: NULL as soon as two files have the line.
LookupLineUnique(ln, line) ==
    LET rows == {i \in DOMAIN ln.entries : ln.entries[i].line = line}
    IN  IF \E i, j \in rows : ln.entries[i].file # ln.entries[j].file
        THEN NoRow ELSE LowestOf(ln, rows)

\* Mutation: the farthest other line.
NextLineFarthest(ln, pc) ==
    LET cur == LookupPc(ln, pc)
    IN  IF cur = NoRow THEN NoRow
        ELSE HighestOf(ln, {i \in DOMAIN ln.entries :
                            /\ RuntimeAddr(ln, i) > pc
                            /\ ln.entries[i].file = ln.entries[cur].file
                            /\ ln.entries[i].line # ln.entries[cur].line})

\* cdbg_lineno_lookup_next_line_after_pc
NextLineAfterPc(ln, pc) ==
    LET cur == LookupPc(ln, pc)
    IN  IF cur = NoRow THEN NoRow
        ELSE LowestOf(ln, {i \in DOMAIN ln.entries :
                            /\ RuntimeAddr(ln, i) > pc
                            /\ ln.entries[i].file = ln.entries[cur].file
                            /\ ln.entries[i].line # ln.entries[cur].line})

\* The rows at or after an address (resolve_entry_stop_addr's own scan).
FirstFrom(ln, addr) ==
    LowestOf(ln, {i \in DOMAIN ln.entries : RuntimeAddr(ln, i) >= addr})

\* cdbg_lineno_print_source_at_line: the one file of the table that matches
\* is shown, whether or not it has code for the line.
SourceFile(ln, filter) ==
    LET files == {ln.entries[i].file : i \in {j \in DOMAIN ln.entries :
                                        FileMatches(ln.entries[j].file, filter)}}
    IN  IF \E f \in files : files = {f} THEN CHOOSE f \in files : TRUE
        ELSE NoPlace.file
=============================================================================
