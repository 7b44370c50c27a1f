------------------------------- MODULE Frames -------------------------------
(***************************************************************************)
(* The walk along the frame records: bt of debugger.c, which only reads,   *)
(* and up of regs.c, which makes the caller's registers the thread's.  A   *)
(* record lies at the frame pointer: the caller's frame pointer, then the  *)
(* return address.                                                         *)
(***************************************************************************)
EXTENDS Memory

CONSTANTS
    MinReturn,      \* return addresses below it are not believed (0x1000)
    MaxFrames       \* CDBG_MAX_BACKTRACE_FRAMES

SavedFp(m, fp) == ReadScalar(m, fp, WordSize)
SavedPc(m, fp) == ReadScalar(m, fp + WordSize, WordSize)

\* frame_record_next
HasCaller(m, fp) ==
    /\ SavedFp(m, fp).ok /\ SavedPc(m, fp).ok
    /\ SavedFp(m, fp).value > fp
    /\ SavedPc(m, fp).value >= MinReturn

\* cmd_backtrace: the frames it prints, the innermost first.
Backtrace(m, regs) ==
    LET walk[k \in 1 .. MaxFrames] ==
            IF k = 1 THEN <<[pc |-> regs.pc, fp |-> regs.fp]>>
            ELSE LET shown == walk[k - 1]
                     fp == shown[Len(shown)].fp
                 IN  IF Len(shown) = k - 1 /\ fp # 0 /\ HasCaller(m, fp)
                     THEN Append(shown, [pc |-> SavedPc(m, fp).value, fp |-> SavedFp(m, fp).value])
                     ELSE shown
    IN  walk[MaxFrames]

-----------------------------------------------------------------------------
\* unwind_from_stack_top: the link register is believed where there is no
\* record.
FromLinkRegister(m, regs) ==
    LET saved == SavedFp(m, regs.fp)
    IN  IF regs.lr < MinReturn THEN {}
        ELSE {[regs EXCEPT !.pc = regs.lr,
                           !.fp = IF regs.fp # 0 /\ saved.ok /\ saved.value > regs.fp
                                  THEN saved.value ELSE @,
                           !.sp = @ + 2 * WordSize]}

\* Mutation: the caller's stack is taken to begin at the record.
FrameUpAtRecord(m, regs) ==
    {[regs EXCEPT !.pc = SavedPc(m, regs.fp).value, !.fp = SavedFp(m, regs.fp).value,
                  !.sp = regs.fp]}

\* cdbg_regs_frame_up: the caller's registers, none when it fails.
FrameUp(m, regs) ==
    IF regs.fp # 0 /\ HasCaller(m, regs.fp)
    THEN {[regs EXCEPT !.pc = SavedPc(m, regs.fp).value,
                       !.fp = SavedFp(m, regs.fp).value,
                       !.sp = regs.fp + 2 * WordSize]}
    ELSE FromLinkRegister(m, regs)
=============================================================================
