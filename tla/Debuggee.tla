------------------------------ MODULE Debuggee ------------------------------
(***************************************************************************)
(* The traced process as the debugger sees it through ptrace, waitpid and  *)
(* the Mach thread calls.  The kernel is not part of the repository: its   *)
(* behaviour is what debugger.c, threads.c and watchpoint.c rely on.       *)
(*                                                                         *)
(*  - A process is created ptrace-stopped at its exec trap.                *)
(*  - PT_CONTINUE lets every thread run that is not suspended; PT_STEP     *)
(*    does the same, except that the thread that was ptrace-stopped stops  *)
(*    the process again after one instruction (debugger.c:317-325 and      *)
(*    562-566).                                                            *)
(*  - An exception of one thread (BRK, watchpoint, step) or a signal stops *)
(*    the whole process; the thread's exception syndrome (ESR) keeps the   *)
(*    class of its last exception.                                         *)
(*  - A watchpoint exception comes before the access, the pc stays.        *)
(*  - Debug registers belong to a thread; a new thread has none armed.     *)
(***************************************************************************)
EXTENDS Breakpoint, MachThreads, Watchpoint

CONSTANTS
    Start,        \* where execution begins (dyld)
    Succ,         \* the addresses an instruction may be followed by
    Kind,         \* what else it does: see Kinds
    ThreadStart,  \* where a new thread begins
    Touch,        \* the watched location it may access, or NoLoc
    Signals       \* whether a SIGINT may reach the process

Kinds == {"plain", "spawn", "endthread", "endprocess"}

ASSUME DebuggeeAssumption ==
    /\ Start \in Addr /\ ThreadStart \in Addr
    /\ Succ \in [Addr -> (SUBSET Addr) \ {{}}]
    /\ Kind \in [Addr -> Kinds]
    /\ Touch \in [Addr -> Loc \cup {NoLoc}]
    /\ Signals \in BOOLEAN
    /\ MaxTid \in Nat

VARIABLES
    run,      \* "none", "stopped", "step", "cont", or "exited" and not reaped
    thr,      \* the live threads, in task_threads() order
    lastTid,  \* the last thread id handed out
    pc,       \* each thread's program counter
    susp,     \* each thread's Mach suspend count
    esr,      \* the class of each thread's last exception
    regs,     \* each thread's watchpoint registers
    text,     \* the instruction words
    stopThr   \* the thread that was ptrace-stopped

threadVars == <<thr, lastTid, pc, esr, stopThr>>
kernelVars == <<run, threadVars, susp, regs, text>>

Exception == {"none", "brk", "watch", "step"}

DebuggeeTypeOK ==
    /\ run \in {"none", "stopped", "step", "cont", "exited"}
    /\ thr \in Seq(Tid)
    /\ lastTid \in 0 .. MaxTid
    /\ pc \in [Tid -> Addr]
    /\ susp \in [Tid -> Nat]
    /\ esr \in [Tid -> Exception]
    /\ regs \in [Tid -> [Slot -> Loc \cup {NoLoc}]]
    /\ text \in [Addr -> Insn]
    /\ stopThr \in 0 .. MaxTid

DebuggeeInit ==
    /\ run = "none" /\ thr = <<>> /\ stopThr = 0 /\ lastTid = 0
    /\ pc = [t \in Tid |-> Start]
    /\ susp = [t \in Tid |-> 0]
    /\ esr = [t \in Tid |-> "none"]
    /\ regs = [t \in Tid |-> NoRegs]
    /\ text = [a \in Addr |-> "orig"]

-----------------------------------------------------------------------------
(* What the debugger asks of the kernel.                                   *)

\* fork, PT_TRACE_ME and execv: stopped at the exec trap, or already gone
\* when execv failed.
Spawn ==
    /\ run' \in {"stopped", "exited"}
    /\ lastTid' = lastTid + 1
    /\ thr' = <<lastTid + 1>>
    /\ stopThr' = lastTid + 1
    /\ pc' = [t \in Tid |-> Start]
    /\ susp' = [t \in Tid |-> 0]
    /\ esr' = [t \in Tid |-> "none"]
    /\ regs' = [t \in Tid |-> NoRegs]
    /\ text' = [a \in Addr |-> "orig"]

\* waitpid reaps the process.
Reap ==
    /\ run' = "none" /\ thr' = <<>> /\ stopThr' = 0
    /\ pc' = [t \in Tid |-> Start]
    /\ susp' = [t \in Tid |-> 0]
    /\ esr' = [t \in Tid |-> "none"]
    /\ regs' = [t \in Tid |-> NoRegs]
    /\ text' = [a \in Addr |-> "orig"]
    /\ UNCHANGED lastTid

-----------------------------------------------------------------------------
(* What the threads do by themselves.                                      *)

Runnable(t) == run \in {"step", "cont"} /\ t \in Live(thr) /\ susp[t] = 0

\* An enabled register of t matches the access of the instruction at its pc.
Watched(t) ==
    /\ Touch[pc[t]] # NoLoc
    /\ \E s \in Slot : regs[t][s] = Touch[pc[t]]

StopWith(t, e) ==
    /\ run' = "stopped"
    /\ stopThr' = t
    /\ esr' = [esr EXCEPT ![t] = e]
    /\ UNCHANGED <<thr, lastTid, pc, susp, regs, text>>

TrapBrk(t) == Runnable(t) /\ text[pc[t]] = "brk" /\ StopWith(t, "brk")

TrapWatch(t) ==
    /\ Runnable(t) /\ text[pc[t]] = "orig" /\ Watched(t)
    /\ StopWith(t, "watch")

SignalStop(t) == Signals /\ Runnable(t) /\ StopWith(t, esr[t])

\* t executes the program's own instruction at its pc.
Executes(t) == Runnable(t) /\ text[pc[t]] = "orig" /\ ~Watched(t)

\* The end of the instruction: the stepping thread stops the process.
Retired(t) ==
    IF run = "step" /\ t = stopThr
    THEN run' = "stopped" /\ esr' = [esr EXCEPT ![t] = "step"]
    ELSE UNCHANGED <<run, esr>>

Plain(t) ==
    /\ Executes(t)
    /\ \/ Kind[pc[t]] = "plain"
       \/ Kind[pc[t]] = "spawn" /\ lastTid = MaxTid   \* pthread_create fails
    /\ \E a \in Succ[pc[t]] : pc' = [pc EXCEPT ![t] = a]
    /\ Retired(t)
    /\ UNCHANGED <<thr, lastTid, susp, regs, text, stopThr>>

SpawnThread(t) ==
    /\ Executes(t) /\ Kind[pc[t]] = "spawn" /\ lastTid < MaxTid
    /\ lastTid' = lastTid + 1
    /\ thr' = Append(thr, lastTid + 1)
    /\ \E a \in Succ[pc[t]] :
           pc' = [pc EXCEPT ![t] = a, ![lastTid + 1] = ThreadStart]
    /\ Retired(t)
    /\ UNCHANGED <<susp, regs, text, stopThr>>

\* A thread that ends while others live; a step it was making goes to the
\* first of them.
EndThread(t) ==
    /\ Executes(t) /\ Kind[pc[t]] = "endthread" /\ Len(thr) > 1
    /\ \E i \in DOMAIN thr : thr[i] = t /\ thr' = Without(thr, i)
    /\ stopThr' = IF t = stopThr THEN thr'[1] ELSE stopThr
    /\ UNCHANGED <<run, lastTid, pc, susp, esr, regs, text>>

EndProcess(t) ==
    /\ Executes(t)
    /\ \/ Kind[pc[t]] = "endprocess"
       \/ Kind[pc[t]] = "endthread" /\ Len(thr) = 1
    /\ run' = "exited"
    /\ UNCHANGED <<threadVars, susp, regs, text>>

Executed(t) == Plain(t) \/ SpawnThread(t) \/ EndThread(t) \/ EndProcess(t)

DebuggeeStep(t) == TrapBrk(t) \/ TrapWatch(t) \/ SignalStop(t) \/ Executed(t)
=============================================================================
