----------------------------- MODULE Locations -----------------------------
(***************************************************************************)
(* Where the debugger thinks code is: the line table and the symbol table  *)
(* loaded by run, the slides that relate them to the process, and the      *)
(* commands that turn a place into an address (break, dis, the stop before *)
(* main) or an address into a place (the stop location, bt, list).         *)
(*                                                                         *)
(* Besides what LineLoad needs an image has                                *)
(*   base, limit  its link-time address range                              *)
(*   objects      the symbols of the executable and, if there is one, of   *)
(*                its dSYM                                                 *)
(*   functions    what the compiler put where: [name, from, to, unit]      *)
(***************************************************************************)
EXTENDS LineLoad, Symbols

CONSTANTS
    Loads,          \* addresses an image may be loaded at (ASLR)
    OwnBase,        \* where cdbg itself is mapped
    Pcs,            \* run-time addresses a stopped thread may have
    Targets         \* what the user types after break, dis and list

ASSUME LocationsAssumption ==
    /\ RowReach \in Nat /\ MaxSymbolOffset \in Nat
    /\ Loads \subseteq Nat \ {0} /\ OwnBase \in Nat /\ Pcs \subseteq Nat
    /\ \A img \in Images :
         /\ img.base \in Nat /\ img.limit \in Nat
         /\ img.objects \in Seq(Seq(Symbol)) /\ Len(img.objects) \in {1, 2}
         /\ \A f \in img.functions : f.from \in Nat /\ f.to \in Nat

VARIABLES
    phase,      \* "prompt", "loading" (cdbg_load_symbols), "forked", "spawned"
    task,       \* task_for_pid works on this process
    loaded,     \* the address the image is mapped at, NoProcess without one
    slide,      \* cdbg_lineno_t.slide
    syms,       \* cdbg_syms_t: [entries, slide]
    out         \* the last answer: [cmd, target, pc, address, place, symbol]

vars == <<loadVars, phase, task, loaded, slide, syms, out>>

NoProcess == 0
NoAddress == 0
NoSyms == [entries |-> <<>>, slide |-> 0]
Silent == [cmd |-> "none", target |-> [kind |-> "none"], pc |-> 0,
           address |-> NoAddress, place |-> NoPlace, symbol |-> ""]

ln == [entries |-> entries, slide |-> slide]

Init ==
    /\ LoadInit
    /\ phase = "prompt"
    /\ task = TRUE
    /\ loaded = NoProcess
    /\ slide = 0
    /\ syms = NoSyms
    /\ out = Silent

-----------------------------------------------------------------------------
(* run                                                                     *)

\* cdbg_run kills the old process and cdbg_load_symbols frees both tables.
CmdRun ==
    /\ phase = "prompt"
    /\ phase' = "loading"
    /\ image' \in Images
    /\ source' = "loading"
    /\ entries' = <<>>
    /\ at' = Header(1) /\ regs' = ResetRegs /\ meant' = ResetRegs
    /\ task' \in BOOLEAN
    /\ loaded' = NoProcess
    /\ slide' = 0
    /\ syms' = NoSyms
    /\ out' = Silent

LoadLines ==
    /\ phase = "loading" /\ LoadStep
    /\ UNCHANGED <<phase, task, loaded, slide, syms, out>>

LinesLoaded == source \in {"dwarfdump", "native", "failed"}

\* cdbg_syms_load, whatever became of the line table; nm may be cut short.
LoadSymbols ==
    /\ phase = "loading" /\ LinesLoaded
    /\ \E read, ok \in [DOMAIN image.objects -> {0, 1, 2}] :
         /\ \A i \in DOMAIN read : ok[i] < 2 /\ (ok[i] = 1 => read[i] = 2)
         /\ syms' = [entries |-> LoadedSyms(image.objects,
                        [i \in DOMAIN read |->
                            CASE read[i] = 0 -> 0
                              [] read[i] = 1 -> Len(image.objects[i]) \div 2
                              [] read[i] = 2 -> Len(image.objects[i])],
                        [i \in DOMAIN ok |-> ok[i] = 1]),
                     slide |-> 0]
    /\ phase' = "forked"
    /\ UNCHANGED <<loadVars, task, loaded, slide, out>>

\* Mutation: a slide once found is kept.
SlidOnce(old, table, first) ==
    IF task /\ table # <<>> /\ old = 0 THEN first - image.base ELSE old

\* cdbg_lineno_update_slide, cdbg_syms_update_slide: the first region that can
\* be read and executed is taken for the image; nothing changes when the task
\* port is refused or the table is empty.
Slid(old, table, first) == IF task /\ table # <<>> THEN first - image.base ELSE old

\* cdbg_spawn asks at once, perhaps before the child has called exec, when it
\* is still a copy of cdbg.
Spawn ==
    /\ phase = "forked"
    /\ \E load \in Loads, first \in Loads \cup {OwnBase} :
         /\ first \in {load, OwnBase}
         /\ loaded' = load
         /\ slide' = Slid(slide, entries, first)
         /\ syms' = [syms EXCEPT !.slide = Slid(@, syms.entries, first)]
    /\ phase' = "spawned"
    /\ UNCHANGED <<loadVars, task, out>>

Mapped(addr) == loaded # NoProcess /\ addr \in loaded .. loaded + (image.limit - image.base) - 1

\* resolve_entry_stop_addr: the first line of main that is not its entry's,
\* else the first row from the entry on, else the entry.
EntryAddress(tab, sy) ==
    LET main == LookupName(sy, "_main")
        entry == SymAddr(sy, main)
        body == IF NextLineAfterPc(tab, entry) # NoRow THEN NextLineAfterPc(tab, entry)
                ELSE FirstFrom(tab, entry)
    IN  IF ~ IsDefined(sy, main) THEN NoAddress
        ELSE IF body # NoRow THEN RuntimeAddr(tab, body)
        ELSE entry

\* The rest of cdbg_run once the exec has been waited for: the slides again,
\* then run_to_entry_stop, which fails where no breakpoint can be written.
Started ==
    /\ phase = "spawned"
    /\ slide' = Slid(slide, entries, loaded)
    /\ syms' = [syms EXCEPT !.slide = Slid(@, syms.entries, loaded)]
    /\ LET addr == EntryAddress([entries |-> entries, slide |-> slide'], syms')
       IN  out' = [Silent EXCEPT !.cmd = "run",
                     !.address = IF Mapped(addr) THEN addr ELSE NoAddress]
    /\ phase' = "prompt"
    /\ UNCHANGED <<loadVars, task, loaded>>

\* execv failed and the child exited; the tables and slides stay.
ExecFailed ==
    /\ phase = "spawned"
    /\ loaded' = NoProcess
    /\ phase' = "prompt"
    /\ UNCHANGED <<loadVars, task, slide, syms, out>>

CmdKill ==
    /\ phase = "prompt" /\ loaded # NoProcess
    /\ loaded' = NoProcess
    /\ out' = Silent
    /\ UNCHANGED <<loadVars, phase, task, slide, syms>>

-----------------------------------------------------------------------------
(* From places to addresses                                                *)

\* resolve_break_line: with a file any match, without one only if no other
\* file has the line.
LineAddress(t) ==
    LET row == IF t.kind = "fileline" THEN LookupLine(ln, t.file, t.line)
               ELSE LookupLineUnique(ln, t.line)
    IN  IF row = NoRow THEN NoAddress ELSE RuntimeAddr(ln, row)

NameAddress(t) ==
    LET sym == LookupName(syms, t.name)
    IN  IF IsDefined(syms, sym) THEN SymAddr(syms, sym) ELSE NoAddress

\* cmd_break: a number that names no line is an address, and a function is
\* entered at its first other line.
BreakAddress(t) ==
    CASE t.kind = "fileline" -> LineAddress(t)
      [] t.kind = "number" -> IF LineAddress(t) # NoAddress THEN LineAddress(t) ELSE t.line
      [] t.kind = "name" ->
           LET next == NextLineAfterPc(ln, NameAddress(t))
           IN  IF NameAddress(t) = NoAddress THEN NoAddress
               ELSE IF next # NoRow THEN RuntimeAddr(ln, next) ELSE NameAddress(t)

CmdBreak(t) ==
    /\ phase = "prompt"
    /\ out' = [Silent EXCEPT !.cmd = "break", !.target = t,
                 !.address = IF Mapped(BreakAddress(t)) THEN BreakAddress(t) ELSE NoAddress]
    /\ UNCHANGED <<loadVars, phase, task, loaded, slide, syms>>

\* cmd_dis, resolve_dis_target: needs no process.
CmdDis(t) ==
    /\ phase = "prompt" /\ source # "none"
    /\ out' = [Silent EXCEPT !.cmd = "dis", !.target = t,
                 !.address = IF t.kind = "name" THEN NameAddress(t) ELSE LineAddress(t)]
    /\ UNCHANGED <<loadVars, phase, task, loaded, slide, syms>>

-----------------------------------------------------------------------------
(* From addresses to places                                                *)

\* cmd_list: a place stands for a file, shown around the line; a function's
\* file is looked up a second time by its path.
ListedPlace(t) ==
    LET place == LineAtPc(ln, NameAddress(t))
        filter == CASE t.kind = "fileline" -> t.file
                    [] t.kind = "number" -> AnyFile
                    [] t.kind = "name" -> place.file
        file == SourceFile(ln, filter)
    IN  IF \/ file = NoPlace.file
           \/ t.kind = "name" /\ (NameAddress(t) = NoAddress \/ place = NoPlace)
        THEN NoPlace
        ELSE [file |-> file, line |-> IF t.kind = "name" THEN place.line ELSE t.line]

CmdList(t) ==
    /\ phase = "prompt" /\ source # "none"
    /\ out' = [Silent EXCEPT !.cmd = "list", !.target = t, !.place = ListedPlace(t)]
    /\ UNCHANGED <<loadVars, phase, task, loaded, slide, syms>>

\* print_backtrace_frame, and the location printed at a stop.
ShowFrame(pc) ==
    /\ phase = "prompt" /\ loaded # NoProcess
    /\ LET sym == SymbolForPc(syms, pc)
       IN  out' = [Silent EXCEPT !.cmd = "frame", !.pc = pc, !.place = LineAtPc(ln, pc),
                     !.symbol = IF sym = NoSym THEN "" ELSE syms.entries[sym].name]
    /\ UNCHANGED <<loadVars, phase, task, loaded, slide, syms>>

-----------------------------------------------------------------------------
Next ==
    \/ CmdRun \/ LoadLines \/ LoadSymbols \/ Spawn \/ Started \/ ExecFailed \/ CmdKill
    \/ \E t \in Targets : CmdBreak(t) \/ CmdDis(t) \/ CmdList(t)
    \/ \E pc \in Pcs : ShowFrame(pc)

LocationsSpec == Init /\ [][Next]_vars

-----------------------------------------------------------------------------
(* What the compiler meant                                                 *)

\* The code of a row reaches to the next row of its sequence.
RangesOf(u) ==
    {[unit |-> u, from |-> u.rows[i].address, to |-> u.rows[i + 1].address,
      line |-> u.rows[i].line, file |-> u.rows[i].file] :
        i \in {k \in 1 .. Len(u.rows) - 1 : ~ u.rows[k].end}}

Units == Range(image.units)
Ranges == UNION {RangesOf(u) : u \in Units}

\* The units whose header is accepted and whose program is entered where it
\* begins, but for the copy that a last byte of 1 is; and the rows of them that
\* are not dropped.
Aligned(u) ==
    \/ u.version \notin {4, 5}
    \/ u.version = 4 /\ Accepted(u) /\ ProgramAt(u) = End(u)
    \/ u.version = 5 /\ Accepted(u) /\ LastByte(u) = 1
Keeps(u, r) == u.version \in {4, 5} /\ r.line > 0 /\ r.file \in DOMAIN FileTable(u)

Whole(r) ==
    \/ source = "dwarfdump"
    \/ source = "native" /\ (\A u \in Units : Aligned(u)) /\ Keeps(r.unit, r)

\* Between the start of r and addr no row begins but the one of r.
RowsIn(from, to) ==
    UNION {{<<i, k>> : k \in {n \in DOMAIN image.units[i].rows :
                                image.units[i].rows[n].address \in from .. to}} :
             i \in DOMAIN image.units}
Clear(r, addr) ==
    addr \in r.from .. r.to - 1 /\ \A x, y \in RowsIn(r.from, addr) : x = y

\* All of the unit is one file, its path is the one the reader of dwarfdump's
\* output puts together, and the header is read for the same path.
DumpedAlike(u) ==
    /\ u.dirs # <<>> /\ u.files # <<>>
    /\ u.files[1][2] # Unknown[2]
    /\ \A f \in Range(u.files) : f = <<Last(u.dirs), u.files[1][2]>>
ReadAlike(u) == \A f \in Range(FileTable(u)) : f = u.files[1]
OneFile(u) == DumpedAlike(u) /\ (source = "native" => ReadAlike(u))

\* No row is at address 0, nor is the image, and every sequence of rows has one
\* and ends where its last one is or later: what a linker writes.
RowsTell ==
    \A img \in Images :
        /\ img.base # 0
        /\ \A i \in DOMAIN img.units :
             LET rows == img.units[i].rows
             IN  /\ rows # <<>> => rows[Len(rows)].end
                 /\ \A k \in DOMAIN rows :
                      /\ rows[k].address # 0
                      /\ rows[k].end => /\ k > 1 /\ ~ rows[k - 1].end
                                        /\ rows[k - 1].address <= rows[k].address

True(addr) == addr - loaded + image.base       \* back to link time
LinesSlid == loaded # NoProcess /\ slide = loaded - image.base
SymsSlid == loaded # NoProcess /\ syms.slide = loaded - image.base

-----------------------------------------------------------------------------
(* Properties                                                              *)

\* The interpreter has, after every opcode, exactly the addresses and lines the
\* compiler meant, in order, whichever way they are encoded and whichever way
\* the reading of dwarfdump failed before; besides them only the row the last
\* byte of a version 5 header makes.  This is of images whose headers are all
\* accepted and whose programs are all entered where they begin.
Position(row) == [address |-> row.address, line |-> row.line]
Positions(rows) == [i \in DOMAIN rows |-> Position(rows[i])]

\* After k rows of a program: the row of the header byte and those kept.
Opening(u) ==
    IF u.version = 5 /\ FileTable(u) # <<>> THEN <<Position(ResetRegs)>> ELSE <<>>
Written(u) ==
    LET W[k \in 0 .. Len(u.rows)] ==
            IF k = 0 THEN Opening(u)
            ELSE IF Keeps(u, u.rows[k]) THEN Append(W[k - 1], Position(u.rows[k]))
            ELSE W[k - 1]
    IN  W
Expected(u) == IF u.version \in {4, 5} THEN Written(u)[Len(u.rows)] ELSE <<>>
ExpectedRows == FlattenSeq([i \in DOMAIN image.units |-> Expected(image.units[i])])
RowsDecoded ==
    (\A u \in Units : Aligned(u)) =>
        /\ source = "program" => IsPrefix(Positions(entries), ExpectedRows)
        /\ source = "native" => Positions(entries) = ExpectedRows

\* At the prompt both slides are those of the process that is there, or 0 when
\* its task port was refused: never those of the copy of cdbg that fork left,
\* nor those of the process before (cdbg_run, cdbg_spawn, update_slide).
SlidesCurrent ==
    phase = "prompt" /\ loaded # NoProcess =>
        /\ entries # <<>> => slide = IF task THEN loaded - image.base ELSE 0
        /\ syms.entries # <<>> => syms.slide = IF task THEN loaded - image.base ELSE 0

\* A pc inside the code of a row is shown with that row's line, or with none if
\* it is more than RowReach past the row's start; with that row's file too if
\* the unit has only one (cdbg_lineno_line_at_pc).  Where another row begins at
\* the same address the first in the table wins, and past the end of a sequence
\* its last line goes on: nothing is claimed there.
LocatesRow ==
    out.cmd = "frame" /\ LinesSlid =>
        \A r \in Ranges :
            Whole(r) /\ r.line > 0 /\ Clear(r, True(out.pc)) =>
                IF True(out.pc) - r.from > RowReach THEN out.place = NoPlace
                ELSE /\ out.place.line = r.line
                     /\ OneFile(r.unit) => out.place.file = r.unit.files[1]

\* A breakpoint that was written for a line is where code of that line begins,
\* never at an end of a sequence or in a row that does not exist, and the code
\* is of a file that was asked for (resolve_break_line).
BreakOnLine ==
    out.cmd = "break" /\ out.target.kind = "fileline" /\ out.address # NoAddress /\ LinesSlid
        /\ (source = "dwarfdump" \/ \A u \in Units : Aligned(u)) =>
            \E r \in Ranges :
                /\ r.from = True(out.address)
                /\ r.line = out.target.line
                /\ OneFile(r.unit) => FileMatches(r.unit.files[1], out.target.file)

\* A line with code has a breakpoint: break file:line is not refused for a line
\* of a row the loader keeps in a unit of one file, whichever unit that is.
\* Line 1 of the interpreter's table is left out: a row at address 0 may have it
\* (resolve_break_line).
LineFound ==
    out.cmd = "break" /\ out.target.kind = "fileline" /\ LinesSlid =>
        \A r \in Ranges :
            /\ r.line = out.target.line /\ FileMatches(r.unit.files[1], out.target.file)
            /\ Whole(r) /\ OneFile(r.unit)
            /\ source = "native" => r.line # ResetRegs.line
            => out.address # NoAddress

\* A breakpoint for a function, and the stop before main, is inside the
\* function, past its entry, provided the function has a second line and its
\* entry is not also the end of other code (cmd_break, resolve_entry_stop_addr).
BreakInBody ==
    \A f \in image.functions :
        LET own == {r \in Ranges : r.unit = image.units[f.unit] /\ r.from \in f.from .. f.to - 1}
        IN  /\ LinesSlid /\ SymsSlid /\ out.address # NoAddress
            /\ \/ out.cmd = "break" /\ out.target.kind = "name" /\ out.target.name = f.name
               \/ out.cmd = "run" /\ f.name = "_main"
            /\ \A r \in own : Whole(r) /\ OneFile(r.unit)
            /\ \E r \in own : Clear(r, f.from)
            /\ \E r, s \in own : r.line # s.line
            => True(out.address) \in f.from + 1 .. f.to - 1

\* The symbols of the executable, and those of its dSYM, name each function
\* where it begins and no other place in it, and it is not longer than the
\* lookup reaches.
Tells(object, f) ==
    LET named == {sym \in Range(object) : sym.name \notin HiddenNames}
    IN  /\ \E sym \in named : sym.type \in TextTypes /\ sym.address = f.from
        /\ \A sym \in named :
             sym.address \in f.from .. f.to - 1 /\ (sym.type \in TextTypes \/ sym.sect) =>
                 sym.address = f.from /\ sym.name = f.name
SymbolsTell ==
    \A img \in Images : \A f \in img.functions :
        /\ f.from # 0 /\ f.to - f.from <= MaxSymbolOffset + 1
        /\ \A i \in DOMAIN img.objects : Tells(img.objects[i], f)

\* No symbol has the name of a function and is elsewhere.
NamesTell ==
    \A img \in Images : \A f \in img.functions, i \in DOMAIN img.objects :
        \A sym \in Range(img.objects[i]) : sym.name = f.name => sym.address = f.from

\* A frame is given the name of the function its pc is in, whichever of nm, the
\* dSYM and the Mach-O table the symbols came from and however nm failed
\* (cdbg_syms_load, lookup_symbol_for_pc).
FrameNamed ==
    out.cmd = "frame" /\ SymsSlid =>
        \A f \in image.functions :
            True(out.pc) \in f.from .. f.to - 1 => out.symbol = f.name
=============================================================================
