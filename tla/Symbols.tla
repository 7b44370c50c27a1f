------------------------------ MODULE Symbols ------------------------------
(***************************************************************************)
(* syms.c: the symbol table.  A table is a record of                       *)
(*   entries  a sequence of [address, type, name]                          *)
(*   slide    run-time address minus link-time address                     *)
(* and is read from `nm -n` of the executable, then of its dSYM; when      *)
(* neither command succeeds, from the Mach-O symbol tables themselves.     *)
(*                                                                         *)
(* An object is a sequence of [address, type, name, sect], in the order of *)
(* `nm -n`; sect tells the symbols that live in a section (N_SECT), which  *)
(* the Mach-O reader calls text whatever the section is.                   *)
(***************************************************************************)
EXTENDS Integers, Sequences, SequencesExt

CONSTANTS
    HiddenNames,     \* names beginning with "." or "L": assembler labels
    MaxSymbolOffset  \* CDBG_MAX_SYMBOL_OFFSET

NoSym == 0
Undefined == {"U", "u"}
TextTypes == {"T", "t"}


\* The letters of nm: a capital for a global symbol.
SymTypes == {"T", "t", "D", "d", "B", "b", "S", "s", "A", "a", "C", "c", "U", "u", "I", "i", "?", "-"}
SymEntry == [address : Nat, type : SymTypes, name : STRING]
Symbol == [address : Nat, type : SymTypes, name : STRING, sect : BOOLEAN]

\* Mutation: assembler labels are kept.
AnyName(sym) == sym.type \notin {"?", "-"}

\* sym_name_interesting, syms_push
Interesting(sym) == sym.name \notin HiddenNames /\ sym.type \notin {"?", "-"}

Push(entries, sym) ==
    IF Interesting(sym)
    THEN Append(entries, [address |-> sym.address, type |-> sym.type, name |-> sym.name])
    ELSE entries

PushAll(entries, object) == FoldLeft(Push, entries, object)

\* nlist_type_char
NlistType(sym) ==
    IF sym.sect THEN (IF sym.type \in {"T", "D", "B", "S"} THEN "T" ELSE "t") ELSE sym.type

\* syms_load_macho
PushNlist(entries, object) ==
    PushAll(entries, [i \in DOMAIN object |-> [object[i] EXCEPT !.type = NlistType(object[i])]])

\* syms_load_from_nm on each object until one succeeds.  read[i] is the number
\* of lines that arrived from the i-th `nm`, ok[i] whether it exited with 0;
\* the lines of a command that failed are not removed.
NmRead(objects, read, ok) ==
    LET After[i \in 0 .. Len(objects)] ==
            IF i = 0 THEN [entries |-> <<>>, done |-> FALSE]
            ELSE IF After[i - 1].done THEN After[i - 1]
            ELSE LET e == PushAll(After[i - 1].entries, SubSeq(objects[i], 1, read[i]))
                 IN  [entries |-> e, done |-> ok[i] /\ e # <<>>]
    IN  After[Len(objects)]

\* The fallback of cdbg_syms_load: the executable's table, and the dSYM's
\* after it when that pushed nothing.
NativeRead(objects) ==
    LET exe == PushNlist(<<>>, objects[1])
    IN  IF exe # <<>> \/ Len(objects) = 1 THEN exe ELSE PushNlist(exe, objects[2])

LoadedSyms(objects, read, ok) ==
    LET nm == NmRead(objects, read, ok)
    IN  IF nm.done THEN nm.entries ELSE NativeRead(objects)

-----------------------------------------------------------------------------
\* cdbg_syms_runtime_addr
SymAddr(syms, i) == syms.entries[i].address + syms.slide

\* cdbg_syms_lookup_name: the first entry of that name.
LookupName(syms, name) ==
    LET same == {i \in DOMAIN syms.entries : syms.entries[i].name = name}
    IN  IF same = {} THEN NoSym ELSE CHOOSE i \in same : \A j \in same : i <= j

\* The test of cmd_break, cmd_dis, cmd_list and resolve_entry_stop_addr.
IsDefined(syms, i) ==
    /\ i # NoSym
    /\ syms.entries[i].address # 0
    /\ syms.entries[i].type \notin Undefined

\* lookup_symbol_for_pc: the first of the closest text symbols below.
SymbolForPc(syms, pc) ==
    LET below == {i \in DOMAIN syms.entries : /\ syms.entries[i].address # 0
                                              /\ syms.entries[i].type \in TextTypes
                                              /\ SymAddr(syms, i) <= pc}
        best == CHOOSE i \in below : \A j \in below \ {i} :
                    \/ SymAddr(syms, i) > SymAddr(syms, j)
                    \/ SymAddr(syms, i) = SymAddr(syms, j) /\ i < j
    IN  IF below = {} THEN NoSym
        ELSE IF pc - SymAddr(syms, best) > MaxSymbolOffset THEN NoSym
        ELSE best
=============================================================================
