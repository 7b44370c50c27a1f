----------------------------- MODULE Breakpoint -----------------------------
(***************************************************************************)
(* breakpoint.c: software breakpoints.  A breakpoint overwrites the        *)
(* instruction at its address with BRK #0 and keeps the word it replaced.  *)
(*                                                                         *)
(* The instruction word at an address only matters as "the program's own"  *)
(* or "BRK": a saved word is always written back to the address it was     *)
(* read from, so Insn has two values.                                      *)
(*                                                                         *)
(* The operators take the debuggee's text (a function from addresses to    *)
(* Insn) and the table of breakpoints (a sequence, index 0 of the C array  *)
(* being index 1 here) and return the new text or the new table.           *)
(***************************************************************************)
EXTENDS Naturals, Sequences

CONSTANT Addr     \* the instruction addresses of the debuggee

Insn == {"orig", "brk"}

\* cdbg_breakpoint_t
Bp == [addr : Addr, saved : Insn, enabled : BOOLEAN]

-----------------------------------------------------------------------------
\* cdbg_bp_enable: read the word, record it, write BRK #0 over it.
EnabledBp(text, a) == [addr |-> a, saved |-> text[a], enabled |-> TRUE]

WithTrap(text, a) == [text EXCEPT ![a] = "brk"]

\* cdbg_bp_disable: write the saved word back, unless the breakpoint is
\* not enabled.
DisabledBp(bp) == [bp EXCEPT !.enabled = FALSE]

WithoutTrap(text, bp) ==
    IF bp.enabled THEN [text EXCEPT ![bp.addr] = bp.saved] ELSE text

\* cdbg_bp_matches_pc
MatchesPc(a, bp) == bp.enabled /\ bp.addr = a

\* cdbg_bp_is_trap
IsTrap(a, bps) == \E i \in DOMAIN bps : MatchesPc(a, bps[i])

\* The first breakpoint that matches (the loop in report_stop), as a set of
\* at most one.
HitIndex(a, bps) ==
    {i \in DOMAIN bps : /\ MatchesPc(a, bps[i])
                        /\ \A j \in 1 .. (i - 1) : ~MatchesPc(a, bps[j])}

\* disabled_breakpoint_at_pc(dbg, pc) != NULL
DisabledAt(a, bps) == \E i \in DOMAIN bps : ~bps[i].enabled /\ bps[i].addr = a

-----------------------------------------------------------------------------
(* The loop of reenable_breakpoints_after_step: every disabled breakpoint  *)
(* whose address is not the pc is enabled again, in table order, so that   *)
(* a second breakpoint at one address reads the BRK of the first.          *)
Missing(bps, a, i) == ~bps[i].enabled /\ bps[i].addr # a

Reenabled(text, bps, a) ==
    [i \in DOMAIN bps |->
        IF Missing(bps, a, i)
        THEN [addr    |-> bps[i].addr,
              saved   |-> IF \E j \in DOMAIN bps :
                                /\ j < i
                                /\ Missing(bps, a, j)
                                /\ bps[j].addr = bps[i].addr
                          THEN "brk" ELSE text[bps[i].addr],
              enabled |-> TRUE]
        ELSE bps[i]]

ReenabledText(text, bps, a) ==
    [x \in DOMAIN text |->
        IF \E i \in DOMAIN bps : Missing(bps, a, i) /\ bps[i].addr = x
        THEN "brk" ELSE text[x]]

-----------------------------------------------------------------------------
\* The table without entry i: the later entries move down by one
\* (delete_breakpoint_at, delete_watchpoint_at).
Without(table, i) ==
    [k \in 1 .. (Len(table) - 1) |-> IF k < i THEN table[k] ELSE table[k + 1]]

(* The text after `del all`: the breakpoints are disabled from the last to *)
(* the first, so the word of the lowest enabled one at an address is what  *)
(* stays there.                                                            *)
WithoutTraps(text, bps) ==
    [a \in DOMAIN text |->
        IF HitIndex(a, bps) = {} THEN text[a]
        ELSE bps[CHOOSE i \in HitIndex(a, bps) : TRUE].saved]

\* report_process_exit and stop_debuggee: the process is gone, so the flags
\* are cleared and nothing is written back.
AllDisabled(table) ==
    [i \in DOMAIN table |-> [table[i] EXCEPT !.enabled = FALSE]]
=============================================================================
