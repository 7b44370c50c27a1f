-------------------------------- MODULE Repl --------------------------------
(***************************************************************************)
(* cdbg_repl and the commands that change the debugger or the debuggee,    *)
(* composed with the debuggee: the whole of the execution control.         *)
(*                                                                         *)
(* A command that is refused with a message changes nothing and is not an  *)
(* action.  `del n...` and `delwatch n...` are the same as deleting the    *)
(* entries one by one from the highest number down.                        *)
(***************************************************************************)
EXTENDS SourceStep

CONSTANTS
    Commands,   \* the commands the user gives
    MaxBps,     \* CDBG_MAX_BREAKPOINTS
    Repeats,    \* whether the user sets a second breakpoint at an address
    MaxSuspend  \* bound: a command is given only up to this suspend count

AllCommands ==
    {"run", "continue", "si", "step", "next", "break", "del", "watch",
     "delwatch", "thread", "setpc", "up", "regs", "kill", "quit", "eof"}

ASSUME ReplAssumption ==
    /\ Commands \subseteq AllCommands
    /\ MaxBps \in Nat /\ MaxSuspend \in Nat
    /\ Repeats \in BOOLEAN

Command(c) == at = "prompt" /\ c \in Commands

Resuming(c) == Command(c) /\ \A t \in Tid : susp[t] <= MaxSuspend

-----------------------------------------------------------------------------
(* Commands that run the debuggee.                                         *)

\* main's cdbg_run, and the run command.
CmdRun ==
    /\ \/ at = "main" /\ cmd' = "main"
       \/ Command("run") /\ cmd' = "run"
    /\ StartProcess

CmdContinue ==
    /\ Resuming("continue") /\ state # "IDLE"
    /\ \/ /\ Continue("resumed") /\ cmd' = "continue"
          /\ UNCHANGED <<threadVars, regs, text>>
       \/ /\ ContinueFails /\ Die
          /\ UNCHANGED <<kernelVars, state, rc>>
    /\ UNCHANGED <<procVars, cur, bps, wps, ret, loopVars>>

CmdSi ==
    /\ Resuming("si") /\ state # "IDLE"
    /\ SingleStep("resumed") /\ cmd' = "si"
    /\ UNCHANGED <<threadVars, susp, regs, text, procVars, cur, bps, wps, ret, loopVars>>

CmdStep == Resuming("step") /\ LineStep("step")

CmdNext == Resuming("next") /\ LineStep("next")

\* stop_debuggee: PT_DETACH, SIGKILL, waitpid.
CmdKill ==
    /\ Command("kill") /\ state # "IDLE"
    /\ Reap
    /\ pid' = 0 /\ state' = "IDLE"
    /\ bps' = AllDisabled(bps) /\ wps' = AllDisabled(wps)
    /\ UNCHANGED <<runs, exits, cur, cmd, at, rc, ret, loopVars>>

CmdQuit ==
    /\ Command("quit")
    /\ at' = "quit"
    /\ IF pid > 0 /\ state # "IDLE"
       THEN Reap ELSE UNCHANGED kernelVars
    /\ pid' = 0 /\ state' = "IDLE"
    /\ bps' = AllDisabled(bps) /\ wps' = AllDisabled(wps)
    /\ UNCHANGED <<runs, exits, cur, cmd, rc, ret, loopVars>>

\* End of input: the REPL returns and leaves the process as it is.
CmdEof ==
    /\ Command("eof") /\ at' = "quit"
    /\ UNCHANGED <<kernelVars, state, procVars, cur, bps, wps, cmd, rc, ret, loopVars>>

-----------------------------------------------------------------------------
(* Breakpoints and watchpoints.                                            *)

\* cmd_break, the target resolved to a: the memory access needs a process.
CmdBreak(a) ==
    /\ Command("break") /\ state # "IDLE"
    /\ Len(bps) < MaxBps
    /\ Repeats \/ \A i \in DOMAIN bps : bps[i].addr # a
    /\ bps' = Append(bps, EnabledBp(text, a))
    /\ text' = WithTrap(text, a)
    /\ UNCHANGED <<run, threadVars, susp, regs>>
    /\ UNCHANGED <<state, procVars, cur, wps, cmd, at, rc, ret, loopVars>>

\* delete_breakpoint_at.  Mutation: the BRK is not taken out.
DelKeepsTrap(i) ==
    /\ Command("del")
    /\ bps' = Without(bps, i)
    /\ UNCHANGED <<kernelVars, state, procVars, cur, wps, cmd, at, rc, ret, loopVars>>

CmdDel(i) ==
    /\ Command("del")
    /\ bps' = Without(bps, i)
    /\ text' = IF state # "IDLE" THEN WithoutTrap(text, bps[i]) ELSE text
    /\ UNCHANGED <<run, threadVars, susp, regs>>
    /\ UNCHANGED <<state, procVars, cur, wps, cmd, at, rc, ret, loopVars>>

CmdDelAll ==
    /\ Command("del") /\ bps # <<>>
    /\ bps' = <<>>
    /\ text' = IF state # "IDLE" THEN WithoutTraps(text, bps) ELSE text
    /\ UNCHANGED <<run, threadVars, susp, regs>>
    /\ UNCHANGED <<state, procVars, cur, wps, cmd, at, rc, ret, loopVars>>

\* cmd_watch, the expression being a scalar at l.
CmdWatch(l) ==
    /\ Command("watch") /\ state = "STOPPED" /\ Selected
    /\ Len(wps) < MaxWps
    /\ \E s \in FreeWatchSlot(wps) :
       /\ Armable(s)
       /\ wps' = Append(wps, [loc |-> l, slot |-> s, enabled |-> TRUE])
       /\ regs' = Armed(regs, Live(thr), s, l)
    /\ UNCHANGED <<run, threadVars, susp, text>>
    /\ UNCHANGED <<state, procVars, cur, bps, cmd, at, rc, ret, loopVars>>

\* delete_watchpoint_at.  Mutation: only the first thread is disarmed.
DelWatchFirst(i) ==
    /\ Command("delwatch")
    /\ wps' = Without(wps, i)
    /\ regs' = IF state # "IDLE" THEN Disarmed(regs, {thr[1]}, wps[i].slot) ELSE regs
    /\ UNCHANGED <<run, threadVars, susp, text>>
    /\ UNCHANGED <<state, procVars, cur, bps, cmd, at, rc, ret, loopVars>>

CmdDelWatch(i) ==
    /\ Command("delwatch")
    /\ wps' = Without(wps, i)
    /\ regs' = IF state # "IDLE" THEN Disarmed(regs, Live(thr), wps[i].slot) ELSE regs
    /\ UNCHANGED <<run, threadVars, susp, text>>
    /\ UNCHANGED <<state, procVars, cur, bps, cmd, at, rc, ret, loopVars>>

-----------------------------------------------------------------------------
(* Threads and registers.                                                  *)

CmdThread(t) ==
    /\ Command("thread") /\ state # "IDLE"
    /\ cur' = t
    /\ UNCHANGED <<kernelVars, state, procVars, bps, wps, cmd, at, rc, ret, loopVars>>

\* `set $pc a`, and `up`, which writes the caller's frame into the registers.
SetPc(a) ==
    /\ state # "IDLE" /\ Selected
    /\ pc' = [pc EXCEPT ![Resolved(thr, cur)] = a]
    /\ UNCHANGED <<run, thr, lastTid, esr, stopThr, susp, regs, text>>
    /\ UNCHANGED <<state, procVars, cur, bps, wps, cmd, at, rc, ret, loopVars>>

CmdSetPc(a) == Command("setpc") /\ SetPc(a)

CmdUp(c) == Command("up") /\ SetPc(Ret[c])

\* regs ends the REPL when there is no thread to read.
CmdRegsFails ==
    /\ Command("regs") /\ ~Selected /\ Die
    /\ UNCHANGED <<kernelVars, state, procVars, cur, bps, wps, rc, ret, loopVars>>

-----------------------------------------------------------------------------
UserStep ==
    \/ CmdRun \/ CmdContinue \/ CmdSi \/ CmdStep \/ CmdNext
    \/ CmdKill \/ CmdQuit \/ CmdEof \/ CmdDelAll \/ CmdRegsFails
    \/ \E a \in Addr : CmdBreak(a) \/ CmdSetPc(a)
    \/ \E i \in DOMAIN bps : CmdDel(i)
    \/ \E l \in Loc : CmdWatch(l)
    \/ \E i \in DOMAIN wps : CmdDelWatch(i)
    \/ \E t \in Live(thr) : CmdThread(t)
    \/ \E c \in Call : CmdUp(c)

\* What the debugger does by itself while a command is executed.
DebuggerStep ==
    \/ CdbgWait
    \/ ExecReturned \/ EntryReturned \/ OverReturned \/ ResumeReturned
    \/ ReportBreak \/ ReportWatch \/ ReportPlain \/ WatchReturned
    \/ StepFailed \/ CallReturned \/ LoopStops \/ LoopWatch \/ LoopAgain

KernelStep == \E t \in Tid : DebuggeeStep(t) /\ UNCHANGED debuggerVars

\* The debugger is gone.
Gone == at \in {"quit", "failed"} /\ UNCHANGED vars

Init == DebuggeeInit /\ DebuggerInit

Next == UserStep \/ DebuggerStep \/ KernelStep \/ Gone

Spec == Init /\ [][Next]_vars

\* The debugger goes on, and a thread that can execute does.
Fairness ==
    /\ WF_vars(DebuggerStep)
    /\ \A t \in Tid : WF_vars((TrapBrk(t) \/ TrapWatch(t) \/ Executed(t))
                              /\ UNCHANGED debuggerVars)

FairSpec == Spec /\ Fairness

\* A user who, whatever else he does, goes on with continue.
UserSpec == FairSpec /\ SF_vars(CmdContinue)

-----------------------------------------------------------------------------
(* Properties.                                                             *)

\* Every variable has its type.
TypeOK == DebuggeeTypeOK /\ DebuggerTypeOK

(* At the prompt the debugger's idea of the process is the kernel's, on    *)
(* every path a command can take (return codes, exits during internal      *)
(* steps, failed runs): STOPPED means stopped and not reaped; IDLE means   *)
(* there is no process, no pid a later kill could hit, and no breakpoint   *)
(* or watchpoint still called enabled.                                     *)
NothingEnabled ==
    /\ \A i \in DOMAIN bps : ~bps[i].enabled
    /\ \A i \in DOMAIN wps : ~wps[i].enabled

PromptAgrees ==
    at = "prompt" =>
        \/ state = "STOPPED" /\ run = "stopped" /\ pid = runs
        \/ state = "IDLE" /\ run = "none" /\ pid = 0 /\ NothingEnabled

(* The BRK words in a live process are exactly those of the enabled        *)
(* breakpoints and of the temporary one, through hits, re-enabling,        *)
(* deletion and temporary breakpoints on top of user breakpoints: no       *)
(* breakpoint is silently lost and none is left behind.                    *)
TrapsAccounted ==
    run \in {"stopped", "step", "cont"} =>
        \A a \in Addr :
            text[a] = "brk" <=> (IsTrap(a, bps) \/ MatchesPc(a, temp))

(* PT_CONTINUE never executes an instruction that has a breakpoint: only a *)
(* single step does, after the hit was reported (cdbg_continue's           *)
(* step_over_disabled_breakpoint, reenable_breakpoints_after_step).        *)
NeverRunThrough ==
    [][\A t \in Tid : run = "cont" /\ Executed(t) =>
           \A i \in DOMAIN bps : bps[i].addr # pc[t]]_vars

(* A debug register is armed only for an enabled watchpoint with that slot *)
(* and location, on every thread and at every moment, and no two enabled   *)
(* watchpoints share a slot: deleting or re-arming one never disturbs      *)
(* another.                                                                *)
WatchRegsAccounted ==
    /\ \A i, j \in DOMAIN wps :
           wps[i].enabled /\ wps[j].enabled /\ wps[i].slot = wps[j].slot => i = j
    /\ run # "none" =>
       \A t \in Live(thr), s \in Slot :
           regs[t][s] # NoLoc =>
               \E i \in DOMAIN wps :
                   wps[i].enabled /\ wps[i].slot = s /\ wps[i].loc = regs[t][s]

(* An access to a watched location is executed only by the step of         *)
(* step_past_all_watchpoints, after its hit was reported: no resume leaves *)
(* a watchpoint disarmed.                                                  *)
WatchNotMissed ==
    [][\A t \in Tid : Executed(t) =>
           at = "watch" \/ \A i \in DOMAIN wps :
                               wps[i].enabled => wps[i].loc # Touch[pc[t]]]_vars

(* When a command ends because the process ended, the user was told so,    *)
(* once.                                                                   *)
ExitReportedOnce ==
    [][at # "prompt" /\ at' = "prompt" /\ state' = "IDLE" => exits' = 1]_vars

(* si, step and next come back to the prompt, or end the debugger, even    *)
(* when the program never leaves the source line.                          *)
CommandReturns ==
    [](cmd \in {"si", "step", "next"} => <>(at \in {"prompt", "quit", "failed"}))

(* A user who goes on with continue makes the program go on: as long as    *)
(* there is a process and a debugger, instructions are executed again and  *)
(* again; no breakpoint or watchpoint stops at the same one for ever.      *)
ContinueProgress ==
    \/ []<><<\E t \in Tid : Executed(t)>>_vars
    \/ <>[](state = "IDLE" \/ at \in {"quit", "failed"})

-----------------------------------------------------------------------------
\* The state machine of the basic design that the debugger implements.
Lifecycle == INSTANCE DebuggeeLifecycle WITH
    state <- state,
    proc  <- IF run \in {"step", "cont"} THEN "running" ELSE run

LifecycleSpec == Lifecycle!Spec
=============================================================================
