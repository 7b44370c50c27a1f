----------------------------- MODULE ReplProofs -----------------------------
(***************************************************************************)
(* Theorems about the execution control of Repl, for every debuggee, every *)
(* set of commands and every bound.  The first part says what the          *)
(* operators of Breakpoint, MachThreads and Watchpoint return: the lemmas  *)
(* this proof and those of ControlProofs and TrapProofs rest on.           *)
(***************************************************************************)
EXTENDS Repl, TLAPS

(* A function on 1 .. n is a sequence.                                     *)
LEMMA SeqOfFunction ==
    ASSUME NEW S, NEW n \in Nat, NEW f \in [1 .. n -> S]
    PROVE  f \in Seq(S) /\ Len(f) = n /\ DOMAIN f = 1 .. n
    OBVIOUS

(* The domain and the entries of a table.                                  *)
LEMMA TableFacts ==
    ASSUME NEW S, NEW table \in Seq(S)
    PROVE  /\ Len(table) \in Nat
           /\ DOMAIN table = 1 .. Len(table)
           /\ \A i \in DOMAIN table : table[i] \in S
    OBVIOUS

(* Replacing an entry of a table.                                          *)
LEMMA UpdateType ==
    ASSUME NEW S, NEW table \in Seq(S), NEW i, NEW e \in S
    PROVE  [table EXCEPT ![i] = e] \in Seq(S) /\ DOMAIN [table EXCEPT ![i] = e] = DOMAIN table
<1>1. Len(table) \in Nat /\ table \in [1 .. Len(table) -> S]
      OBVIOUS
<1>2. [table EXCEPT ![i] = e] \in [1 .. Len(table) -> S]
      BY <1>1
<1> QED BY <1>1, <1>2, SeqOfFunction

(* Deleting an entry leaves a table of one entry less                      *)
(* (delete_breakpoint_at, delete_watchpoint_at).                           *)
LEMMA WithoutType ==
    ASSUME NEW S, NEW table \in Seq(S), NEW i \in DOMAIN table
    PROVE  Without(table, i) \in Seq(S) /\ Len(Without(table, i)) = Len(table) - 1
<1>1. Len(table) \in Nat /\ Len(table) >= 1 /\ DOMAIN table = 1 .. Len(table)
      OBVIOUS
<1>2. Without(table, i) \in [1 .. (Len(table) - 1) -> S]
      BY <1>1 DEF Without
<1>3. Len(table) - 1 \in Nat
      BY <1>1
<1> QED BY <1>2, <1>3, SeqOfFunction

-----------------------------------------------------------------------------
(* Breakpoints.                                                            *)

(* cdbg_bp_enable and cdbg_bp_disable on one address.                      *)
LEMMA TrapType ==
    ASSUME NEW txt \in [Addr -> Insn], NEW a \in Addr, NEW bp \in Bp
    PROVE  /\ EnabledBp(txt, a) \in Bp
           /\ WithTrap(txt, a) \in [Addr -> Insn]
           /\ DisabledBp(bp) \in Bp
           /\ WithoutTrap(txt, bp) \in [Addr -> Insn]
    BY DEF EnabledBp, WithTrap, DisabledBp, WithoutTrap, Bp, Insn

(* reenable_breakpoints_after_step changes entries and words, not their    *)
(* number.                                                                 *)
LEMMA ReenabledType ==
    ASSUME NEW txt \in [Addr -> Insn], NEW table \in Seq(Bp), NEW a
    PROVE  /\ Reenabled(txt, table, a) \in Seq(Bp)
           /\ Len(Reenabled(txt, table, a)) = Len(table)
           /\ ReenabledText(txt, table, a) \in [Addr -> Insn]
<1>1. Len(table) \in Nat /\ DOMAIN table = 1 .. Len(table)
      OBVIOUS
<1>2. \A i \in DOMAIN table : table[i] \in Bp
      OBVIOUS
<1>3. Reenabled(txt, table, a) \in [1 .. Len(table) -> Bp]
      BY <1>1, <1>2 DEF Reenabled, Bp, Insn
<1>4. ReenabledText(txt, table, a) \in [Addr -> Insn]
      BY DEF ReenabledText, Insn
<1> QED BY <1>1, <1>3, <1>4, SeqOfFunction

(* HitIndex names an entry.                                                *)
LEMMA HitIndexType ==
    ASSUME NEW table \in Seq(Bp), NEW a
    PROVE  HitIndex(a, table) \subseteq DOMAIN table
    BY DEF HitIndex

(* The text after `del all`.                                               *)
LEMMA WithoutTrapsType ==
    ASSUME NEW txt \in [Addr -> Insn], NEW table \in Seq(Bp)
    PROVE  WithoutTraps(txt, table) \in [Addr -> Insn]
<1> SUFFICES ASSUME NEW a \in Addr
             PROVE  (IF HitIndex(a, table) = {} THEN txt[a]
                     ELSE table[CHOOSE i \in HitIndex(a, table) : TRUE].saved) \in Insn
    BY DEF WithoutTraps
<1>1. CASE HitIndex(a, table) = {}
      BY <1>1
<1>2. CASE HitIndex(a, table) # {}
    <2>1. (CHOOSE i \in HitIndex(a, table) : TRUE) \in HitIndex(a, table)
          BY <1>2
    <2>2. \A i \in DOMAIN table : table[i] \in Bp
          OBVIOUS
    <2>3. \A i \in HitIndex(a, table) : table[i].saved \in Insn
          BY <2>2, HitIndexType DEF Bp
    <2> QED BY <1>2, <2>1, <2>3
<1> QED BY <1>1, <1>2

(* The flags cleared at the process's end, in a table of breakpoints.      *)
LEMMA BpsDisabled ==
    ASSUME NEW table \in Seq(Bp)
    PROVE  /\ AllDisabled(table) \in Seq(Bp)
           /\ DOMAIN AllDisabled(table) = DOMAIN table
           /\ \A i \in DOMAIN table : ~AllDisabled(table)[i].enabled
<1>1. Len(table) \in Nat /\ DOMAIN table = 1 .. Len(table)
      OBVIOUS
<1>2. \A i \in DOMAIN table : table[i] \in Bp
      OBVIOUS
<1>3. AllDisabled(table) \in [1 .. Len(table) -> Bp]
      BY <1>1, <1>2 DEF AllDisabled, Bp
<1>4. \A i \in DOMAIN table : AllDisabled(table)[i].enabled = FALSE
      BY <1>2 DEF AllDisabled, Bp
<1> QED BY <1>1, <1>3, <1>4, SeqOfFunction

(* And in a table of watchpoints.                                          *)
LEMMA WpsDisabled ==
    ASSUME NEW table \in Seq(Wp)
    PROVE  /\ AllDisabled(table) \in Seq(Wp)
           /\ DOMAIN AllDisabled(table) = DOMAIN table
           /\ \A i \in DOMAIN table : ~AllDisabled(table)[i].enabled
<1>1. Len(table) \in Nat /\ DOMAIN table = 1 .. Len(table)
      OBVIOUS
<1>2. \A i \in DOMAIN table : table[i] \in Wp
      OBVIOUS
<1>3. AllDisabled(table) \in [1 .. Len(table) -> Wp]
      BY <1>1, <1>2 DEF AllDisabled, Wp
<1>4. \A i \in DOMAIN table : AllDisabled(table)[i].enabled = FALSE
      BY <1>2 DEF AllDisabled, Wp
<1> QED BY <1>1, <1>3, <1>4, SeqOfFunction

-----------------------------------------------------------------------------
(* Threads.                                                                *)

(* A selection that resolves names a thread.                               *)
LEMMA ResolvedType ==
    ASSUME NEW T \in Seq(Tid), NEW t \in 0 .. MaxTid, Resolves(T, t)
    PROVE  Resolved(T, t) \in Tid
<1>1. Live(T) \subseteq Tid
      BY DEF Live
<1>2. CASE t = 0
    <2>1. T # <<>>
          BY DEF Resolves
    <2>2. T[1] \in Tid
          BY <2>1
    <2> QED BY <1>2, <2>2 DEF Resolved
<1>3. CASE t # 0
      BY <1>1, <1>3 DEF Resolved, Resolves
<1> QED BY <1>2, <1>3

(* The scans find a thread or 0.                                           *)
LEMMA FirstInType ==
    ASSUME NEW T \in Seq(Tid), NEW S, MaxTid \in Nat
    PROVE  FirstIn(T, S) \in 0 .. MaxTid
<1> DEFINE First == {i \in DOMAIN T : T[i] \in S /\ \A j \in 1 .. (i - 1) : T[j] \notin S}
<1>1. \A i \in DOMAIN T : T[i] \in Tid
      OBVIOUS
<1>2. FirstIn(T, S) = IF First = {} THEN 0 ELSE T[CHOOSE i \in First : TRUE]
      BY DEF FirstIn
<1>3. CASE First = {}
      BY <1>2, <1>3
<1>4. CASE First # {}
    <2>1. (CHOOSE i \in First : TRUE) \in First
          BY <1>4
    <2>2. T[CHOOSE i \in First : TRUE] \in Tid
          BY <1>1, <2>1
    <2> QED BY <1>2, <1>4, <2>2 DEF Tid
<1> QED BY <1>3, <1>4

(* A thread that starts joins the live ones.                               *)
LEMMA LiveAppended ==
    ASSUME NEW T \in Seq(Tid), NEW t \in Tid
    PROVE  Live(Append(T, t)) = Live(T) \cup {t}
<1>1. /\ Len(T) \in Nat /\ DOMAIN T = 1 .. Len(T)
      /\ DOMAIN Append(T, t) = 1 .. (Len(T) + 1)
      /\ \A i \in DOMAIN T : Append(T, t)[i] = T[i]
      /\ Append(T, t)[Len(T) + 1] = t
      OBVIOUS
<1> QED BY <1>1 DEF Live

(* One that ends leaves no other behind.                                   *)
LEMMA LiveWithout ==
    ASSUME NEW T \in Seq(Tid), NEW i \in DOMAIN T
    PROVE  Live(Without(T, i)) \subseteq Live(T)
<1>1. Len(T) \in Nat /\ DOMAIN T = 1 .. Len(T)
      OBVIOUS
<1> SUFFICES ASSUME NEW k \in 1 .. (Len(T) - 1)
             PROVE  Without(T, i)[k] \in Live(T)
    BY <1>1 DEF Live, Without
<1>2. k \in DOMAIN T /\ k + 1 \in DOMAIN T
      BY <1>1
<1>3. Without(T, i)[k] \in {T[k], T[k + 1]}
      BY DEF Without
<1> QED BY <1>2, <1>3 DEF Live

(* Suspend counts stay natural numbers: a count of 0 is not resumed.       *)
LEMMA SuspendType ==
    ASSUME NEW s \in [Tid -> Nat], NEW T, NEW k
    PROVE  SuspendOthers(s, T, k) \in [Tid -> Nat] /\ ResumeOthers(s, T, k) \in [Tid -> Nat]
    BY DEF SuspendOthers, ResumeOthers

-----------------------------------------------------------------------------
(* Watchpoints.                                                            *)

WatchRegs == [Tid -> [Slot -> Loc \cup {NoLoc}]]

(* Arming and disarming one slot.                                          *)
LEMMA ArmedType ==
    ASSUME NEW g \in WatchRegs, NEW T, NEW s \in Slot, NEW l \in Loc
    PROVE  Armed(g, T, s, l) \in WatchRegs /\ Disarmed(g, T, s) \in WatchRegs
    BY DEF Armed, Disarmed, WatchRegs

(* Taking all slots out and putting them back.                             *)
LEMMA AllSlotsType ==
    ASSUME NEW g \in WatchRegs, NEW T, NEW table \in Seq(Wp)
    PROVE  DisarmedAll(g, T, table) \in WatchRegs /\ ArmedAll(g, T, table) \in WatchRegs
<1>1. DisarmedAll(g, T, table) \in WatchRegs
      BY DEF DisarmedAll, WatchRegs
<1>2. \A i \in DOMAIN table : table[i] \in Wp
      OBVIOUS
<1>3. ASSUME NEW s \in UsedSlots(table)
      PROVE  table[EntryOf(table, s)].loc \in Loc
    <2>1. \E i \in DOMAIN table : table[i].enabled /\ table[i].slot = s
          BY DEF UsedSlots
    <2>2. EntryOf(table, s) \in DOMAIN table
          BY <2>1 DEF EntryOf
    <2> QED BY <1>2, <2>2 DEF Wp
<1>4. ArmedAll(g, T, table) \in WatchRegs
      BY <1>3 DEF ArmedAll, WatchRegs
<1> QED BY <1>1, <1>4

(* The slot of a new watchpoint is one of the hardware's.                  *)
LEMMA FreeSlotType ==
    ASSUME NEW table
    PROVE  FreeWatchSlot(table) \subseteq Slot
    BY DEF FreeWatchSlot

-----------------------------------------------------------------------------
(* Types.                                                                  *)

(* The pc of the selected thread is an address of the program.             *)
LEMMA CurPcType ==
    ASSUME TypeOK, Selected
    PROVE  Resolved(thr, cur) \in Tid /\ CurPc \in Addr
<1>1. Resolved(thr, cur) \in Tid
      BY ResolvedType DEF TypeOK, DebuggeeTypeOK, DebuggerTypeOK, Selected
<1> QED BY <1>1 DEF TypeOK, DebuggeeTypeOK, CurPc

(* The initial state is typed.                                             *)
LEMMA InitType == Init => TypeOK
    BY DebuggeeAssumption, DebuggerAssumption
    DEF Init, DebuggeeInit, DebuggerInit, TypeOK, DebuggeeTypeOK, DebuggerTypeOK,
        NoRegs, NoTemp, Bp, Insn, Exception, Waiting

(* A step of the debuggee keeps the types of the process.                  *)
LEMMA DebuggeeStepType ==
    ASSUME DebuggeeTypeOK, NEW t \in Tid, DebuggeeStep(t)
    PROVE  DebuggeeTypeOK'
<1> USE DebuggeeAssumption DEF DebuggeeTypeOK, Exception
<1>0. t \in 0 .. MaxTid
      BY DEF Tid
<1>1. CASE TrapBrk(t)
      BY <1>0, <1>1 DEF TrapBrk, StopWith
<1>2. CASE TrapWatch(t)
      BY <1>0, <1>2 DEF TrapWatch, StopWith
<1>3. CASE SignalStop(t)
      BY <1>0, <1>3 DEF SignalStop, StopWith
<1>4. CASE Plain(t)
      BY <1>4 DEF Plain, Retired
<1>5. CASE SpawnThread(t)
    <2>1. lastTid + 1 \in Tid
          BY <1>5 DEF SpawnThread, Tid
    <2>2. thr' \in Seq(Tid) /\ lastTid' \in 0 .. MaxTid
          BY <1>5, <2>1 DEF SpawnThread, Tid
    <2>3. pc' \in [Tid -> Addr]
          BY <1>5, <2>1 DEF SpawnThread
    <2> QED BY <1>5, <2>2, <2>3 DEF SpawnThread, Retired
<1>6. CASE EndThread(t)
    <2>1. PICK i \in DOMAIN thr : thr' = Without(thr, i)
          BY <1>6 DEF EndThread
    <2>2. thr' \in Seq(Tid) /\ Len(thr') = Len(thr) - 1
          BY <2>1, WithoutType
    <2>3. Len(thr') >= 1 /\ Len(thr') \in Nat
          BY <1>6, <2>2 DEF EndThread
    <2>4. 1 \in DOMAIN thr' /\ thr'[1] \in Tid
          BY <2>2, <2>3, TableFacts
    <2>5. thr'[1] \in 0 .. MaxTid
          BY <2>4 DEF Tid
    <2> QED BY <1>6, <2>2, <2>5 DEF EndThread
<1>7. CASE EndProcess(t)
      BY <1>7 DEF EndProcess, threadVars
<1> QED BY <1>1, <1>2, <1>3, <1>4, <1>5, <1>6, <1>7 DEF DebuggeeStep, Executed

(* A new process (fork and execv of cdbg_process_spawn).                   *)
LEMMA SpawnType ==
    ASSUME DebuggeeTypeOK, lastTid < MaxTid, Spawn
    PROVE  DebuggeeTypeOK'
<1>1. lastTid + 1 \in Tid
      BY DebuggeeAssumption DEF DebuggeeTypeOK, Tid
<1>2. thr' \in Seq(Tid) /\ lastTid' \in 0 .. MaxTid /\ stopThr' \in 0 .. MaxTid
      BY <1>1 DEF Spawn, Tid
<1> QED BY <1>2, DebuggeeAssumption DEF Spawn, DebuggeeTypeOK, Exception, NoRegs, Insn

(* A reaped process.                                                       *)
LEMMA ReapType ==
    ASSUME DebuggeeTypeOK, Reap
    PROVE  DebuggeeTypeOK'
    BY DebuggeeAssumption DEF Reap, DebuggeeTypeOK, Exception, NoRegs, Insn

(* report_process_exit empties nothing: it clears the flags and the pid.   *)
LEMMA ReportExitType ==
    ASSUME DebuggerTypeOK, NEW n \in Nat, ReportExit(n)
    PROVE  /\ bps' \in Seq(Bp) /\ wps' \in Seq(Wp)
           /\ pid' \in 0 .. MaxRuns /\ runs' \in 0 .. MaxRuns /\ exits' \in Nat
    BY BpsDisabled, WpsDisabled, DebuggerAssumption DEF DebuggerTypeOK, ReportExit

(* cdbg_continue, as a resume or as the step over a breakpoint, keeps the  *)
(* types of what it changes.                                               *)
LEMMA ContinueType ==
    ASSUME TypeOK, NEW point \in Waiting, Continue(point)
    PROVE  /\ run' \in {"stopped", "step", "cont"} /\ state' = "RUNNING"
           /\ rc' = "wait" /\ at' \in Waiting /\ susp' \in [Tid -> Nat]
    BY SuspendType
    DEF TypeOK, DebuggeeTypeOK, Continue, Resume, SingleStep, Waiting

(* The first half of a round of step or next.                              *)
LEMMA AdvanceType ==
    ASSUME TypeOK, NEW c, Advance(c)
    PROVE  /\ run' \in {"stopped", "step", "cont"} /\ state' = "RUNNING"
           /\ rc' = "wait" /\ at' \in Waiting /\ susp' \in [Tid -> Nat]
           /\ temp' \in Bp /\ text' \in [Addr -> Insn] /\ UNCHANGED regs
<1>1. CASE c = "next" /\ CallAt(CurPc)
    <2>1. Ret[CurPc] \in Addr
          BY <1>1, SourceStepAssumption DEF CallAt
    <2>2. /\ EnabledBp(text, Ret[CurPc]) \in Bp
          /\ WithTrap(text, Ret[CurPc]) \in [Addr -> Insn]
          BY <2>1, TrapType DEF TypeOK, DebuggeeTypeOK, DebuggerTypeOK
    <2> QED BY <1>1, <2>2, ContinueType DEF Advance, Waiting
<1>2. CASE ~(c = "next" /\ CallAt(CurPc))
      BY <1>2 DEF Advance, SingleStep, TypeOK, DebuggeeTypeOK, DebuggerTypeOK, Waiting
<1> QED BY <1>1, <1>2

(* What the debugger does by itself while a command is executed.           *)
LEMMA DebuggerStepType ==
    ASSUME TypeOK, DebuggerStep
    PROVE  TypeOK'
<1> USE DEF TypeOK, DebuggeeTypeOK, DebuggerTypeOK, Waiting, threadVars, kernelVars,
            loopVars, procVars, Back, Die, RunFailed
<1>1. CASE CdbgWait
    <2>1. CASE run = "exited" /\ Reap
          BY <1>1, <2>1, ReapType DEF CdbgWait, Reap
    <2>2. CASE run = "stopped"
        <3>1. /\ Reenabled(text, bps, CurPc) \in Seq(Bp)
              /\ ReenabledText(text, bps, CurPc) \in [Addr -> Insn]
              BY ReenabledType
        <3> QED BY <1>1, <2>2, <3>1 DEF CdbgWait
    <2> QED BY <1>1, <2>1, <2>2 DEF CdbgWait
<1>2. CASE ExecReturned
    <2>1. CASE rc = "exit"
          BY <1>2, <2>1, ReportExitType DEF ExecReturned
    <2>2. CASE rc = "ok"
        <3>1. /\ EnabledBp(text, Entry) \in Bp
              /\ WithTrap(text, Entry) \in [Addr -> Insn]
              /\ ResumeOthers(susp, thr, cur) \in [Tid -> Nat]
              BY TrapType, SuspendType, DebuggerAssumption
        <3> QED BY <1>2, <2>2, <3>1 DEF ExecReturned, Resume
    <2> QED BY <1>2, <2>1, <2>2 DEF ExecReturned
<1>3. CASE EntryReturned
    <2>1. NoTemp \in Bp /\ EntryText \in [Addr -> Insn]
          BY TrapType, DebuggeeAssumption DEF NoTemp, Bp, Insn, EntryText
    <2>2. CASE rc = "exit"
          BY <1>3, <2>1, <2>2, ReportExitType DEF EntryReturned
    <2>3. CASE rc = "ok"
          BY <1>3, <2>1, <2>3 DEF EntryReturned
    <2> QED BY <1>3, <2>2, <2>3 DEF EntryReturned
<1>4. CASE OverReturned
    <2>1. /\ NoTemp \in Bp
          /\ WithoutTrap(text, temp) \in [Addr -> Insn]
          /\ ResumeOthers(susp, thr, cur) \in [Tid -> Nat]
          BY TrapType, SuspendType, DebuggeeAssumption DEF NoTemp, Bp, Insn
    <2>2. CASE rc = "ok"
          BY <1>4, <2>1, <2>2 DEF OverReturned, Resume
    <2>3. CASE rc = "exit" /\ cmd = "next"
          BY <1>4, <2>1, <2>3, ReportExitType DEF OverReturned
    <2>4. CASE rc = "fail" \/ (rc = "exit" /\ cmd = "continue")
          BY <1>4, <2>1, <2>4 DEF OverReturned
    <2> QED BY <1>4, <2>2, <2>3, <2>4 DEF OverReturned
<1>5. CASE ResumeReturned
    <2>1. CASE rc = "exit"
          BY <1>5, <2>1, ReportExitType DEF ResumeReturned
    <2>2. CASE rc # "exit"
          BY <1>5, <2>2 DEF ResumeReturned
    <2> QED BY <2>1, <2>2
<1>6. NewCur \in 0 .. MaxTid
      BY FirstInType, DebuggeeAssumption DEF NewCur, HitThread, BreakHit, WatchHit
<1>7. SuspendOthers(susp, thr, NewCur) \in [Tid -> Nat]
      BY SuspendType
<1>8. CASE ReportBreak
    <2>1. PICK i \in HitIndex(NewPc, bps) :
              /\ text' = WithoutTrap(text, bps[i])
              /\ bps' = [bps EXCEPT ![i] = DisabledBp(@)]
          BY <1>8 DEF ReportBreak
    <2>2. i \in DOMAIN bps /\ bps[i] \in Bp
          BY HitIndexType, TableFacts
    <2>3. Start \in Addr /\ DisabledBp(bps[i]) \in Bp
          BY <2>2, TrapType, DebuggeeAssumption
    <2>4. text' \in [Addr -> Insn]
          BY <2>1, <2>2, <2>3, TrapType
    <2>5. bps' \in Seq(Bp)
          BY <2>1, <2>2, <2>3, UpdateType
    <2> QED BY <1>6, <1>7, <1>8, <2>4, <2>5 DEF ReportBreak, Reporting, AfterReport
<1>9. CASE ReportWatch
    <2>1. DisarmedAll(regs, Live(thr), wps) \in WatchRegs
          BY AllSlotsType DEF WatchRegs
    <2> QED BY <1>6, <1>7, <1>9, <2>1
            DEF ReportWatch, Reporting, StepPastWatch, SingleStep, WatchRegs
<1>10. CASE ReportPlain
       BY <1>6, <1>7, <1>10 DEF ReportPlain, Reporting, AfterReport
<1>11. CASE WatchReturned
    <2>1. ArmedAll(regs, Live(thr), wps) \in WatchRegs
          BY AllSlotsType DEF WatchRegs
    <2>2. CASE rc = "exit"
          BY <1>11, <2>2, ReportExitType DEF WatchReturned
    <2>3. CASE rc # "exit"
          BY <1>11, <2>1, <2>3 DEF WatchReturned, AfterReport, WatchRegs
    <2> QED BY <2>2, <2>3
<1>12. CASE StepFailed
    <2>1. CASE rc = "exit"
          BY <1>12, <2>1, ReportExitType DEF StepFailed
    <2>2. CASE rc = "fail"
          BY <1>12, <2>2 DEF StepFailed
    <2> QED BY <1>12, <2>1, <2>2 DEF StepFailed
<1>13. CASE CallReturned
    <2>1. NoTemp \in Bp /\ WithoutTrap(text, temp) \in [Addr -> Insn]
          BY TrapType, DebuggeeAssumption DEF NoTemp, Bp, Insn
    <2>2. CASE rc = "exit"
          BY <1>13, <2>1, <2>2, ReportExitType DEF CallReturned
    <2>3. CASE rc # "exit"
          BY <1>13, <2>1, <2>3 DEF CallReturned
    <2> QED BY <2>2, <2>3
<1>14. CASE LoopStops
       BY <1>14 DEF LoopStops, LeaveLoop
<1>15. CASE LoopWatch
    <2>1. DisarmedAll(regs, Live(thr), wps) \in WatchRegs
          BY AllSlotsType DEF WatchRegs
    <2> QED BY <1>15, <2>1 DEF LoopWatch, StepPastWatch, SingleStep, LeaveLoop, WatchRegs
<1>16. CASE LoopAgain
       BY <1>16, AdvanceType DEF LoopAgain, Rounds
<1> QED BY <1>1, <1>2, <1>3, <1>4, <1>5, <1>8, <1>9, <1>10, <1>11, <1>12, <1>13,
           <1>14, <1>15, <1>16 DEF DebuggerStep

(* The commands that run the debuggee.                                     *)
LEMMA RunCommandType ==
    ASSUME TypeOK, CmdRun \/ CmdContinue \/ CmdSi \/ CmdStep \/ CmdNext
    PROVE  TypeOK'
<1> USE DEF TypeOK, DebuggeeTypeOK, DebuggerTypeOK, Waiting, threadVars, kernelVars,
            loopVars, procVars, Die
<1>1. CASE CmdRun
    <2>1. DebuggeeTypeOK'
          BY <1>1, SpawnType DEF CmdRun, StartProcess
    <2>2. runs + 1 \in 0 .. MaxRuns
          BY <1>1, DebuggerAssumption DEF CmdRun, StartProcess
    <2> QED BY <1>1, <2>1, <2>2 DEF CmdRun, StartProcess
<1>2. CASE CmdContinue
    <2>1. CASE Continue("resumed") /\ cmd' = "continue"
          BY <1>2, <2>1, ContinueType DEF CmdContinue
    <2>2. CASE ContinueFails /\ Die
          BY <1>2, <2>2 DEF CmdContinue
    <2> QED BY <1>2, <2>1, <2>2 DEF CmdContinue
<1>3. CASE CmdSi
      BY <1>3 DEF CmdSi, SingleStep
<1>4. ASSUME NEW c \in {"step", "next"}, LineStep(c)
      PROVE  TypeOK'
    <2>1. CASE ~Selected
          BY <1>4, <2>1 DEF LineStep
    <2>2. CASE Selected
        <3>1. Line[CurPc] \in Nat
              BY <2>2, CurPcType, SourceStepAssumption
        <3>2. CASE Line[CurPc] = 0
              BY <1>4, <2>2, <3>2 DEF LineStep, SingleStep
        <3>3. CASE Line[CurPc] # 0
              BY <1>4, <2>2, <3>1, <3>3, AdvanceType DEF LineStep
        <3> QED BY <3>2, <3>3
    <2> QED BY <2>1, <2>2
<1> QED BY <1>1, <1>2, <1>3, <1>4 DEF CmdStep, CmdNext

(* The commands that do not.                                               *)
LEMMA TableCommandType ==
    ASSUME TypeOK, UserStep, ~(CmdRun \/ CmdContinue \/ CmdSi \/ CmdStep \/ CmdNext)
    PROVE  TypeOK'
<1> USE DEF TypeOK, DebuggeeTypeOK, DebuggerTypeOK, Waiting, threadVars, kernelVars,
            loopVars, procVars, Die
<1>1. /\ AllDisabled(bps) \in Seq(Bp)
      /\ AllDisabled(wps) \in Seq(Wp)
      BY BpsDisabled, WpsDisabled
<1>2. CASE CmdKill
      BY <1>1, <1>2, ReapType, DebuggerAssumption DEF CmdKill, Reap
<1>3. CASE CmdQuit
    <2>1. CASE Reap
          BY <1>1, <1>3, <2>1, ReapType, DebuggerAssumption DEF CmdQuit, Reap
    <2>2. CASE UNCHANGED kernelVars
          BY <1>1, <1>3, <2>2, DebuggerAssumption DEF CmdQuit
    <2> QED BY <1>3, <2>1, <2>2 DEF CmdQuit
<1>4. CASE CmdEof
      BY <1>4 DEF CmdEof
<1>5. CASE CmdDelAll
    <2>1. WithoutTraps(text, bps) \in [Addr -> Insn]
          BY WithoutTrapsType
    <2>2. bps' \in Seq(Bp)
          BY <1>5 DEF CmdDelAll
    <2> QED BY <1>5, <2>1, <2>2 DEF CmdDelAll
<1>6. CASE CmdRegsFails
      BY <1>6 DEF CmdRegsFails
<1>7. ASSUME NEW a \in Addr, CmdBreak(a)
      PROVE  TypeOK'
    <2>1. NoTemp \in Bp
          BY DebuggeeAssumption DEF NoTemp, Bp, Insn
    <2>2. EnabledBp(text, a) \in Bp /\ WithTrap(text, a) \in [Addr -> Insn]
          BY <2>1, TrapType
    <2>3. bps' \in Seq(Bp)
          BY <1>7, <2>2 DEF CmdBreak
    <2> QED BY <1>7, <2>2, <2>3 DEF CmdBreak
<1>8. ASSUME NEW a \in Addr, SetPc(a)
      PROVE  TypeOK'
      BY <1>8, CurPcType DEF SetPc
<1>9. ASSUME NEW i \in DOMAIN bps, CmdDel(i)
      PROVE  TypeOK'
    <2>1. bps[i] \in Bp
          BY TableFacts
    <2>2. WithoutTrap(text, bps[i]) \in [Addr -> Insn]
          BY <2>1, TrapType, DebuggeeAssumption
    <2>3. Without(bps, i) \in Seq(Bp)
          BY WithoutType
    <2> QED BY <1>9, <2>2, <2>3 DEF CmdDel
<1>10. ASSUME NEW l \in Loc, CmdWatch(l)
       PROVE  TypeOK'
    <2>1. PICK s \in FreeWatchSlot(wps) :
              /\ wps' = Append(wps, [loc |-> l, slot |-> s, enabled |-> TRUE])
              /\ regs' = Armed(regs, Live(thr), s, l)
          BY <1>10 DEF CmdWatch
    <2>2. s \in Slot
          BY <2>1, FreeSlotType
    <2>3. wps' \in Seq(Wp)
          BY <2>1, <2>2 DEF Wp
    <2>4. regs' \in [Tid -> [Slot -> Loc \cup {NoLoc}]]
          BY <2>1, <2>2, ArmedType DEF WatchRegs
    <2> QED BY <1>10, <2>3, <2>4 DEF CmdWatch
<1>11. ASSUME NEW i \in DOMAIN wps, CmdDelWatch(i)
       PROVE  TypeOK'
    <2>1. wps[i] \in Wp
          BY TableFacts
    <2>2. wps[i].slot \in Slot /\ wps[i].loc \in Loc
          BY <2>1 DEF Wp
    <2>3. Disarmed(regs, Live(thr), wps[i].slot) \in [Tid -> [Slot -> Loc \cup {NoLoc}]]
          BY <2>2, ArmedType DEF WatchRegs
    <2>4. Without(wps, i) \in Seq(Wp)
          BY WithoutType
    <2> QED BY <1>11, <2>3, <2>4 DEF CmdDelWatch
<1>12. ASSUME NEW t \in Live(thr), CmdThread(t)
       PROVE  TypeOK'
    <2>1. t \in 0 .. MaxTid
          BY DebuggeeAssumption DEF Live, Tid
    <2> QED BY <1>12, <2>1 DEF CmdThread
<1>13. ASSUME NEW c \in Call, CmdUp(c)
       PROVE  TypeOK'
    <2>1. Ret[c] \in Addr
          BY SourceStepAssumption
    <2> QED BY <1>8, <1>13, <2>1 DEF CmdUp
<1> QED BY <1>2, <1>3, <1>4, <1>5, <1>6, <1>7, <1>8, <1>9, <1>10, <1>11, <1>12, <1>13
        DEF UserStep, CmdSetPc

(* Every step keeps the types.                                             *)
LEMMA TypeNext == TypeOK /\ [Next]_vars => TypeOK'
<1> SUFFICES ASSUME TypeOK, [Next]_vars
             PROVE  TypeOK'
    OBVIOUS
<1>1. CASE UserStep
      BY <1>1, RunCommandType, TableCommandType
<1>2. CASE DebuggerStep
      BY <1>2, DebuggerStepType
<1>3. CASE KernelStep
    <2>1. DebuggeeTypeOK' /\ UNCHANGED debuggerVars
          BY <1>3, DebuggeeStepType DEF KernelStep, TypeOK
    <2> QED BY <2>1 DEF TypeOK, DebuggerTypeOK, debuggerVars, procVars, loopVars
<1>4. CASE UNCHANGED vars
      BY <1>4 DEF TypeOK, DebuggeeTypeOK, DebuggerTypeOK, vars, kernelVars,
                  threadVars, debuggerVars, procVars, loopVars
<1> QED BY <1>1, <1>2, <1>3, <1>4 DEF Next, Gone

(* Every variable has its type in every reachable state: the suspend       *)
(* counts stay natural numbers, the tables stay sequences of entries, the  *)
(* selected thread stays a thread id, whatever the user does.              *)
THEOREM TypeCorrect == Spec => []TypeOK
    BY InitType, TypeNext, PTL DEF Spec
=============================================================================
