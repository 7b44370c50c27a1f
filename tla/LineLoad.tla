------------------------------ MODULE LineLoad ------------------------------
(***************************************************************************)
(* cdbg_lineno_load: how the line table of an executable gets into memory. *)
(* First the output of `dwarfdump --debug-line` is read; when that command *)
(* fails or prints no row, the rows read so far are freed and the          *)
(* __debug_line section is interpreted.                                    *)
(*                                                                         *)
(* An image is what the linker produced, [units, section, ...]: units is   *)
(* the sequence of its line-number units, and a unit                       *)
(*   version, bytes, text, strs   its header (LineHeader)                  *)
(*   dirs, files   the directories and the files, <<directory, name>>,     *)
(*             that the header stands for and dwarfdump prints; version 4  *)
(*             counts files from 1, version 5 from 0                       *)
(*   rows      the table the compiler meant, [address, line, file, end]    *)
(*   astray    what parse_line_program may make of the program if it is    *)
(*             entered elsewhere than at its beginning: [ok, rows]         *)
(* The assembler is free in how it encodes rows: every opcode that leads   *)
(* from the registers it has in mind (meant) towards the row due may come  *)
(* next, and parse_line_program does with its own registers (regs) what    *)
(* its case for that opcode does.                                          *)
(***************************************************************************)
EXTENDS LineLookup, LineHeader

CONSTANTS
    Images,
    MinInst, LineBase, LineRange, OpcodeBase, MaxOpcode   \* of the headers

VARIABLES
    image,      \* the executable that is being, or was last, loaded
    source,     \* "none", "loading", "dwarfdump", "program", "native", "failed"
    entries,    \* cdbg_lineno_t.entries
    at,         \* program: [unit, row], the row due; row 0 in a header
    regs,       \* program: line_state_t
    meant       \* program: what the assembler takes the registers to be

loadVars == <<image, source, entries, at, regs, meant>>

ResetRegs == [address |-> 0, line |-> 1, file |-> 1]

LineRow == [address : Nat, line : Nat, file : Nat, end : BOOLEAN]
AstrayRow == [address : Nat, line : Nat, file : Nat]
LineUnit == [version : Nat, bytes : Seq(Byte), text : Seq(STRING), strs : Seq(STRING),
             dirs : Seq(STRING), files : Seq(STRING \X STRING), rows : Seq(LineRow),
             astray : SUBSET [ok : BOOLEAN, rows : Seq(AstrayRow)]]

\* The row that ends a sequence has the line and the file of the one before.
EndRepeats(rows, k) ==
    LET before == IF k > 1 /\ ~ rows[k - 1].end THEN rows[k - 1] ELSE ResetRegs
    IN  rows[k].end => rows[k].line = before.line /\ rows[k].file = before.file

\* The rows of a unit are what a line-number program can say.  A version 5
\* header has a byte at least.
ASSUME LineLoadAssumption ==
    /\ MinInst \in Nat \ {0} /\ LineRange \in Nat \ {0}
    /\ LineBase \in Int /\ OpcodeBase \in Int /\ MaxOpcode \in Int
    /\ \A img \in Images :
         /\ img.units \in Seq(LineUnit)
         /\ \A u \in Range(img.units) :
              /\ Len(u.text) = Len(u.bytes)
              /\ u.version = 5 => u.bytes # <<>>
              /\ \A k \in DOMAIN u.rows :
                   u.rows[k].address % MinInst = 0 /\ EndRepeats(u.rows, k)
Header(n) == [unit |-> n, row |-> 0]

LoadInit ==
    /\ image \in Images
    /\ source = "none"
    /\ entries = <<>>
    /\ at = Header(1)
    /\ regs = ResetRegs
    /\ meant = ResetRegs

-----------------------------------------------------------------------------
(* dwarfdump                                                               *)

Unknown == <<"", "<unknown>">>

\* What dwarfdump prints of an image: of each unit the directories, the file
\* entries, then the rows, the ones that end a sequence included.
DumpOf(u) ==
    LET Tagged(k, s) == [i \in DOMAIN s |-> [kind |-> k, of |-> s[i]]]
    IN  Tagged("dir", u.dirs) \o Tagged("file", u.files) \o Tagged("row", u.rows)

DumpLines(img) == FlattenSeq([i \in DOMAIN img.units |-> DumpOf(img.units[i])])

\* Mutation: the first file name is kept.
ReadLineFirst(dump, l) ==
    CASE l.kind = "dir"  -> [dump EXCEPT !.dir = l.of]
      [] l.kind = "file" -> [dump EXCEPT !.name = IF @ = Unknown[2] THEN l.of[2] ELSE @]
      [] l.kind = "row"  ->
           [dump EXCEPT !.entries = Append(@, [address |-> l.of.address, line |-> l.of.line,
                file |-> IF dump.name = Unknown[2] THEN Unknown ELSE <<dump.dir, dump.name>>])]

\* One line: directories and file names are remembered, never per index, and
\* a row gets the ones remembered last.
ReadLine(dump, l) ==
    CASE l.kind = "dir"  -> [dump EXCEPT !.dir = l.of]
      [] l.kind = "file" -> [dump EXCEPT !.name = l.of[2]]
      [] l.kind = "row"  ->
           [dump EXCEPT !.entries = Append(@, [address |-> l.of.address, line |-> l.of.line,
                file |-> IF dump.name = Unknown[2] THEN Unknown ELSE <<dump.dir, dump.name>>])]

ReadLines(lines) ==
    FoldLeft(ReadLine, [dir |-> "", name |-> Unknown[2], entries |-> <<>>], lines).entries

\* lineno_load_from_dwarfdump: the command may end early, and its exit status
\* tells.  On failure cdbg_lineno_load frees the rows and starts over with the
\* section.
LoadDump ==
    /\ source = "loading"
    /\ \E n \in 0 .. Len(DumpLines(image)), ok \in BOOLEAN :
         /\ ok => n \in {0, Len(DumpLines(image))}
         /\ LET rows == ReadLines(SubSeq(DumpLines(image), 1, n))
            IN  IF ok /\ rows # <<>>
                THEN source' = "dwarfdump" /\ entries' = rows
                ELSE source' = "program" /\ entries' = <<>>
    /\ at' = Header(1)
    /\ regs' = ResetRegs
    /\ meant' = ResetRegs
    /\ UNCHANGED image

-----------------------------------------------------------------------------
(* parse_line_table: the headers                                           *)

Unit == image.units[at.unit]

Failed == source' = "failed" /\ entries' = <<>>

\* emit_row, entries_push: no row without a line or with a file index outside
\* the table.
HasRow(rg) == rg.line > 0 /\ rg.file \in DOMAIN FileTable(Unit)
LineEntry(rg) == [address |-> rg.address, line |-> rg.line, file |-> FileTable(Unit)[rg.file]]
Emitted(rg) == IF HasRow(rg) THEN Append(entries, LineEntry(rg)) ELSE entries

\* Mutation: the address advance forgets the minimum instruction length.
SpecialBytes(rg, opcode) ==
    LET adjusted == opcode - OpcodeBase
    IN  [rg EXCEPT !.line = @ + LineBase + (adjusted % LineRange),
                   !.address = @ + adjusted \div LineRange]

SpecialRegs(rg, opcode) ==
    LET adjusted == opcode - OpcodeBase
    IN  [rg EXCEPT !.line = @ + LineBase + (adjusted % LineRange),
                   !.address = @ + (adjusted \div LineRange) * MinInst]

Interpreting == source = "program" /\ at.unit <= Len(image.units)
InHeader == Interpreting /\ at.row = 0
InProgram == Interpreting /\ at.row \in 1 .. Len(Unit.rows)

\* The section is missing, or the file cannot be mapped.
NoSection ==
    /\ source = "program" /\ at = Header(1)
    /\ ~ image.section
    /\ Failed
    /\ UNCHANGED <<image, at, regs, meant>>

\* A unit of another version is skipped.
SkipUnit ==
    /\ InHeader /\ image.section
    /\ Unit.version \notin {4, 5}
    /\ at' = Header(at.unit + 1)
    /\ UNCHANGED <<image, source, entries, regs, meant>>

\* A header that is refused makes the whole load fail.
HeaderFails ==
    /\ InHeader /\ image.section
    /\ Unit.version \in {4, 5} /\ ~ Accepted(Unit)
    /\ Failed
    /\ UNCHANGED <<image, at, regs, meant>>

\* A version 4 header that was read to its end.
HeaderV4 ==
    /\ InHeader /\ image.section
    /\ Unit.version = 4 /\ Accepted(Unit) /\ ProgramAt(Unit) = End(Unit)
    /\ regs' = ResetRegs
    /\ meant' = ResetRegs
    /\ at' = [at EXCEPT !.row = 1]
    /\ UNCHANGED <<image, source, entries>>

\* The last byte of a version 5 header is executed as the first opcode of its
\* program: 1 (a directory index, say) is a copy, from OpcodeBase on it is a
\* special opcode.
LastByte(u) == u.bytes[Len(u.bytes)]
LastIsOpcode(u) == LastByte(u) = 1 \/ LastByte(u) >= OpcodeBase

HeaderV5 ==
    /\ InHeader /\ image.section
    /\ Unit.version = 5 /\ Accepted(Unit) /\ LastIsOpcode(Unit)
    /\ regs' = IF LastByte(Unit) = 1 THEN ResetRegs ELSE SpecialRegs(ResetRegs, LastByte(Unit))
    /\ meant' = ResetRegs
    /\ entries' = Emitted(regs')
    /\ at' = [at EXCEPT !.row = 1]
    /\ UNCHANGED <<image, source>>

\* Any other entry, in the header of version 4 or with a version 5 tail that
\* takes operands, makes other opcodes of the bytes of the program.
Astray ==
    /\ InHeader /\ image.section /\ Accepted(Unit)
    /\ \/ Unit.version = 4 /\ ProgramAt(Unit) # End(Unit)
       \/ Unit.version = 5 /\ ~ LastIsOpcode(Unit)
    /\ \E run \in Unit.astray :
         LET made == SelectSeq(run.rows, HasRow)
         IN  IF run.ok
             THEN /\ entries' = entries \o [i \in DOMAIN made |-> LineEntry(made[i])]
                  /\ at' = Header(at.unit + 1)
                  /\ UNCHANGED source
             ELSE Failed /\ UNCHANGED at
    /\ UNCHANGED <<image, regs, meant>>

-----------------------------------------------------------------------------
(* parse_line_program: an opcode each                                      *)

Due == Unit.rows[at.row]
ToGo == Due.address - meant.address
AtSequence == at.row > 1 => Unit.rows[at.row - 1].end
Placed == AtSequence => meant.address = Due.address

SetAddress ==
    /\ InProgram /\ AtSequence /\ ToGo # 0
    /\ meant' = [meant EXCEPT !.address = Due.address]
    /\ regs' = [regs EXCEPT !.address = Due.address]
    /\ UNCHANGED <<image, source, entries, at>>

AdvancePc ==
    /\ InProgram /\ ~ AtSequence /\ ToGo > 0
    /\ meant' = [meant EXCEPT !.address = Due.address]
    /\ regs' = [regs EXCEPT !.address = @ + (ToGo \div MinInst) * MinInst]
    /\ UNCHANGED <<image, source, entries, at>>

\* The advance of the special opcode 255.
ConstAddPc ==
    LET advance == ((MaxOpcode - OpcodeBase) \div LineRange) * MinInst
    IN  /\ InProgram /\ ~ AtSequence /\ 0 < advance /\ advance <= ToGo
        /\ meant' = [meant EXCEPT !.address = @ + advance]
        /\ regs' = [regs EXCEPT !.address = @ + advance]
        /\ UNCHANGED <<image, source, entries, at>>

FixedAdvancePc ==
    /\ InProgram /\ ~ AtSequence /\ ToGo > 0
    /\ meant' = [meant EXCEPT !.address = Due.address]
    /\ regs' = [regs EXCEPT !.address = @ + ToGo]
    /\ UNCHANGED <<image, source, entries, at>>

AdvanceLine ==
    /\ InProgram /\ Placed /\ ~ Due.end /\ meant.line # Due.line
    /\ meant' = [meant EXCEPT !.line = Due.line]
    /\ regs' = [regs EXCEPT !.line = @ + (Due.line - meant.line)]
    /\ UNCHANGED <<image, source, entries, at>>

SetFile ==
    /\ InProgram /\ Placed /\ ~ Due.end /\ meant.file # Due.file
    /\ meant' = [meant EXCEPT !.file = Due.file]
    /\ regs' = [regs EXCEPT !.file = Due.file]
    /\ UNCHANGED <<image, source, entries, at>>

RowDone(rg) ==
    /\ entries' = Emitted(rg)
    /\ at' = [at EXCEPT !.row = @ + 1]
    /\ UNCHANGED <<image, source>>

Copy ==
    /\ InProgram /\ ~ Due.end
    /\ meant = [address |-> Due.address, line |-> Due.line, file |-> Due.file]
    /\ RowDone(regs)
    /\ UNCHANGED <<meant, regs>>

\* The assembler may use a special opcode when the line moves by one of the
\* LineRange steps from LineBase on and the opcode fits in a byte.
Special ==
    LET step == Due.line - meant.line - LineBase
        opcode == step + LineRange * (ToGo \div MinInst) + OpcodeBase
    IN  /\ InProgram /\ Placed /\ ~ Due.end /\ meant.file = Due.file
        /\ step \in 0 .. LineRange - 1
        /\ ToGo >= 0 /\ opcode <= MaxOpcode
        /\ meant' = [meant EXCEPT !.address = Due.address, !.line = Due.line]
        /\ regs' = SpecialRegs(regs, opcode)
        /\ RowDone(regs')

EndSequence ==
    /\ InProgram /\ Due.end /\ ToGo = 0
    /\ meant' = ResetRegs
    /\ regs' = ResetRegs
    /\ RowDone(regs)

UnitDone ==
    /\ Interpreting /\ at.row = Len(Unit.rows) + 1
    /\ at' = Header(at.unit + 1)
    /\ UNCHANGED <<image, source, entries, meant, regs>>

\* No row at all is a failure.
TableDone ==
    /\ source = "program" /\ image.section
    /\ at.unit = Len(image.units) + 1
    /\ source' = IF entries = <<>> THEN "failed" ELSE "native"
    /\ UNCHANGED <<image, entries, at, meant, regs>>

LoadStep ==
    \/ LoadDump \/ NoSection
    \/ SkipUnit \/ HeaderFails \/ HeaderV4 \/ HeaderV5 \/ Astray
    \/ SetAddress \/ AdvancePc \/ ConstAddPc \/ FixedAdvancePc
    \/ AdvanceLine \/ SetFile \/ Copy \/ Special \/ EndSequence
    \/ UnitDone \/ TableDone
=============================================================================
