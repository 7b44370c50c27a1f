------------------------------ MODULE Debugger ------------------------------
(***************************************************************************)
(* debugger.c: the state of cdbg_t and the functions that run the debuggee *)
(* and wait for it.  The debugger is one thread: it computes while the     *)
(* debuggee is stopped and blocks in waitpid while it runs.  `at` is where *)
(* it blocks, or what it does next, and `rc` is "wait" while it blocks and *)
(* then what cdbg_wait returned:                                           *)
(*                                                                         *)
(*   "main"    main(), before the first cdbg_run                           *)
(*   "prompt"  the REPL reads a command                                    *)
(*   "exec"    cdbg_run's wait for the exec trap                           *)
(*   "entry"   run_to_entry_stop's wait                                    *)
(*   "over"    step_over_disabled_breakpoint's wait, in cdbg_continue      *)
(*   "resumed" the wait of continue, si, and step/next without a line      *)
(*   "step"    the wait of a PT_STEP in the loop of step or next           *)
(*   "check"   the rest of that loop's body                                *)
(*   "call"    the wait of step_over_call                                  *)
(*   "report"  report_stop                                                 *)
(*   "watch"   the wait of step_past_all_watchpoints, in report_stop or    *)
(*             in the loop                                                 *)
(*   "quit"    the REPL returned 0                                         *)
(*   "failed"  the REPL (or main's cdbg_run) returned -1: cdbg is gone     *)
(*                                                                         *)
(* Errors of ptrace, kill and waitpid themselves, and of memory accesses   *)
(* to a live process, are not modelled: the errors that remain are a dead  *)
(* process and a thread that no longer exists.                             *)
(***************************************************************************)
EXTENDS Debuggee

CONSTANTS
    Entry,      \* where resolve_entry_stop_addr finds main's first line
    HasMain,    \* whether it finds one
    MaxRuns     \* bound: processes started

ASSUME DebuggerAssumption ==
    /\ Entry \in Addr
    /\ HasMain \in BOOLEAN
    /\ MaxRuns \in Nat

VARIABLES
    state,      \* dbg->state
    pid,        \* dbg->pid: the number of the run, or 0
    runs,       \* processes started so far
    cur,        \* dbg->current_tid
    bps, wps,   \* dbg->breakpoints, dbg->watchpoints
    cmd,        \* the command being executed
    at, rc,     \* see above
    ret,        \* where report_stop returns: "prompt", or "loop" for the
                \* loop of next (by way of step_over_call)
    temp,       \* the temporary breakpoint of `run` and `next`
    line0,      \* the source line step or next started on
    iter,       \* rounds of their loop done
    exits       \* exit reports printed for this process

loopVars == <<temp, line0, iter>>
procVars == <<pid, runs, exits>>
debuggerVars ==
    <<state, procVars, cur, bps, wps, cmd, at, rc, ret, loopVars>>

vars == <<kernelVars, debuggerVars>>

NoTemp == [addr |-> Start, saved |-> "orig", enabled |-> FALSE]

Waiting == {"exec", "entry", "over", "resumed", "step", "call", "watch"}

DebuggerTypeOK ==
    /\ state \in {"IDLE", "RUNNING", "STOPPED"}
    /\ pid \in 0 .. MaxRuns /\ runs \in 0 .. MaxRuns
    /\ cur \in 0 .. MaxTid
    /\ bps \in Seq(Bp) /\ wps \in Seq(Wp)
    /\ cmd \in {"main", "run", "none", "continue", "si", "step", "next"}
    /\ at \in Waiting \cup {"main", "prompt", "check", "report", "quit", "failed"}
    /\ rc \in {"wait", "ok", "exit", "fail"}
    /\ ret \in {"prompt", "loop"}
    /\ temp \in Bp
    /\ line0 \in Nat /\ iter \in Nat /\ exits \in Nat

DebuggerInit ==
    /\ state = "IDLE" /\ pid = 0 /\ runs = 0 /\ cur = 0
    /\ bps = <<>> /\ wps = <<>>
    /\ cmd = "main" /\ at = "main" /\ rc = "ok" /\ ret = "prompt"
    /\ temp = NoTemp /\ line0 = 0 /\ iter = 0 /\ exits = 0

-----------------------------------------------------------------------------
\* cdbg_refresh_regs succeeds, and the pc it reads.
Selected == Resolves(thr, cur)

CurPc == pc[Resolved(thr, cur)]

\* What ends a command: back to the prompt, or out of the REPL.
Back == at' = "prompt" /\ cmd' = "none"

Die == at' = "failed" /\ cmd' = "none"

\* report_process_exit, printed n times: the second finds pid 0.
\* Mutation: the pid is kept.
ReportExitKeepsPid(n) ==
    /\ exits' = exits + n
    /\ bps' = AllDisabled(bps) /\ wps' = AllDisabled(wps)
    /\ UNCHANGED <<pid, runs>>

\* Mutation: the watchpoints stay enabled.
ReportExitKeepsWps(n) ==
    /\ exits' = exits + n
    /\ bps' = AllDisabled(bps)
    /\ pid' = 0
    /\ UNCHANGED <<runs, wps>>

ReportExit(n) ==
    /\ exits' = exits + n
    /\ bps' = AllDisabled(bps)
    /\ wps' = AllDisabled(wps)
    /\ pid' = 0
    /\ UNCHANGED runs

\* PT_STEP, or PT_CONTINUE, and then block in waitpid at `point`.
\* Mutation: the state is not set.
SingleStepStopped(point) ==
    /\ run = "stopped" /\ run' = "step"
    /\ rc' = "wait" /\ at' = point
    /\ UNCHANGED state

SingleStep(point) ==
    /\ run = "stopped" /\ run' = "step"
    /\ state' = "RUNNING" /\ rc' = "wait" /\ at' = point

Resume(point) ==
    /\ run = "stopped" /\ run' = "cont"
    /\ susp' = ResumeOthers(susp, thr, cur)
    /\ state' = "RUNNING" /\ rc' = "wait" /\ at' = point

-----------------------------------------------------------------------------
(* cdbg_wait, once waitpid returns.                                        *)
CdbgWait ==
    /\ rc = "wait"
    /\ \/ /\ run = "exited"
          /\ Reap
          /\ state' = "IDLE" /\ rc' = "exit"
          /\ UNCHANGED bps
       \/ /\ run = "stopped"
          /\ state' = "STOPPED"
          /\ IF bps # <<>> /\ ~Selected
             THEN rc' = "fail" /\ UNCHANGED <<bps, text>>
             ELSE /\ rc' = "ok"
                  /\ bps' = Reenabled(text, bps, CurPc)
                  /\ text' = ReenabledText(text, bps, CurPc)
          /\ UNCHANGED <<run, threadVars, susp, regs>>
    /\ UNCHANGED <<procVars, cur, wps, cmd, at, ret, loopVars>>

-----------------------------------------------------------------------------
(* cdbg_run.                                                               *)

\* stop_debuggee, the clearing of the tables and cdbg_spawn.  current_tid
\* keeps its value.
StartProcess ==
    /\ runs < MaxRuns /\ lastTid < MaxTid
    /\ Spawn
    /\ state' = "RUNNING" /\ at' = "exec" /\ rc' = "wait"
    /\ runs' = runs + 1 /\ pid' = runs + 1 /\ exits' = 0
    /\ bps' = <<>> /\ wps' = <<>>
    /\ UNCHANGED <<cur, ret, loopVars>>

\* cdbg_run returned -1: main gives up, the REPL does not care.
RunFailed == IF cmd = "main" THEN Die ELSE Back

ExecReturned ==
    /\ at = "exec" /\ rc # "wait"
    /\ \/ /\ rc = "exit" /\ ReportExit(1) /\ RunFailed
          /\ UNCHANGED <<kernelVars, state, rc, temp>>
       \/ /\ rc = "ok" /\ ~HasMain /\ Back
          /\ UNCHANGED <<kernelVars, state, procVars, bps, wps, rc, temp>>
       \/ /\ rc = "ok" /\ HasMain
          /\ temp' = EnabledBp(text, Entry)
          /\ text' = WithTrap(text, Entry)
          /\ Resume("entry")
          /\ UNCHANGED <<threadVars, regs, procVars, bps, wps, cmd>>
    /\ UNCHANGED <<cur, ret, line0, iter>>

\* The temporary breakpoint removed, wherever the stop is.
\* Mutation: only when it was hit.
EntryTextIfHit ==
    IF Selected /\ MatchesPc(CurPc, temp) THEN WithoutTrap(text, temp) ELSE text

EntryText == WithoutTrap(text, temp)

\* The rest of run_to_entry_stop: the temporary breakpoint goes in every
\* case; a stop elsewhere is accepted; a thread that is not there fails.
EntryReturned ==
    /\ at = "entry" /\ rc # "wait"
    /\ temp' = NoTemp
    /\ \/ /\ rc = "exit" /\ ReportExit(1) /\ RunFailed
          /\ UNCHANGED text
       \/ /\ rc = "ok" /\ (IF Selected THEN Back ELSE RunFailed)
          /\ text' = EntryText
          /\ UNCHANGED <<procVars, bps, wps>>
    /\ UNCHANGED <<run, threadVars, susp, regs, state, cur, rc, ret, line0, iter>>

-----------------------------------------------------------------------------
(* cdbg_continue.  `point` is where its caller waits next.                 *)

\* Mutation: a breakpoint at the pc is not stepped over.
ContinueWithoutStep(point) == Resume(point)

Continue(point) ==
    \/ /\ bps = <<>> \/ (Selected /\ ~DisabledAt(CurPc, bps))
       /\ Resume(point)
    \/ /\ Selected /\ DisabledAt(CurPc, bps)
       /\ SingleStep("over")
       /\ UNCHANGED susp

ContinueFails == bps # <<>> /\ ~Selected

\* step_over_disabled_breakpoint returned to cdbg_continue.  Anything but 0
\* is an error for the REPL's continue, even that the process exited;
\* step_over_call passes it on to `next`, which tells an exit apart.
OverReturned ==
    /\ at = "over" /\ rc # "wait"
    /\ \/ /\ rc = "ok"
          /\ Resume(IF cmd = "next" THEN "call" ELSE "resumed")
          /\ UNCHANGED <<text, procVars, bps, wps, cmd, temp>>
       \/ /\ rc = "exit" /\ cmd = "next"
          /\ ReportExit(1) /\ Back /\ temp' = NoTemp
          /\ UNCHANGED <<run, susp, text, state, rc>>
       \/ /\ rc = "fail" \/ (rc = "exit" /\ cmd = "continue")
          /\ Die
          /\ temp' = NoTemp
          /\ text' = IF rc = "fail" THEN WithoutTrap(text, temp) ELSE text
          /\ UNCHANGED <<run, susp, state, procVars, bps, wps, rc>>
    /\ UNCHANGED <<threadVars, regs, cur, ret, line0, iter>>

\* The wait of continue, of si, or of step/next without line information.
ResumeReturned ==
    /\ at = "resumed" /\ rc # "wait"
    /\ \/ /\ rc = "exit" /\ ReportExit(1) /\ Back
          /\ UNCHANGED ret
       \/ /\ rc = "fail" /\ Die
          /\ UNCHANGED <<procVars, bps, wps, ret>>
       \/ /\ rc = "ok" /\ at' = "report" /\ ret' = "prompt"
          /\ UNCHANGED <<procVars, bps, wps, cmd>>
    /\ UNCHANGED <<kernelVars, state, cur, rc, loopVars>>

-----------------------------------------------------------------------------
(* report_stop.                                                            *)

\* find_breakpoint_hit_thread, then find_watchpoint_hit_thread; 0 if none.
BreakHit == FirstIn(thr, {t \in Live(thr) : IsTrap(pc[t], bps)})

WatchHit ==
    IF wps = <<>> THEN 0 ELSE FirstIn(thr, {t \in Live(thr) : esr[t] = "watch"})

HitThread == IF BreakHit # 0 THEN BreakHit ELSE WatchHit

AfterReport(r) ==
    IF r = "loop" THEN at' = "check" /\ UNCHANGED cmd ELSE Back

\* handle_watchpoint_hit and step_past_all_watchpoints, up to the wait.
StepPastWatch(r) ==
    /\ regs' = DisarmedAll(regs, Live(thr), wps)
    /\ SingleStep("watch")
    /\ ret' = r

\* The thread report_stop selects and its pc.
NewCur == IF HitThread # 0 THEN HitThread ELSE cur

NewPc == pc[Resolved(thr, NewCur)]

\* What every report does before it looks at the reason.
Reporting ==
    /\ at = "report"
    /\ cur' = NewCur
    /\ susp' = SuspendOthers(susp, thr, NewCur)
    /\ UNCHANGED <<threadVars, procVars, wps, loopVars>>

\* handle_breakpoint_hit.
ReportBreak ==
    /\ Reporting /\ Resolves(thr, NewCur) /\ IsTrap(NewPc, bps)
    /\ \E i \in HitIndex(NewPc, bps) :
       /\ text' = WithoutTrap(text, bps[i])
       /\ bps' = [bps EXCEPT ![i] = DisabledBp(@)]
    /\ AfterReport(ret)
    /\ UNCHANGED <<run, regs, state, rc, ret>>

IsWatchStop ==
    /\ Resolves(thr, NewCur) /\ ~IsTrap(NewPc, bps)
    /\ wps # <<>> /\ esr[Resolved(thr, NewCur)] = "watch"

ReportWatch ==
    /\ Reporting /\ IsWatchStop
    /\ StepPastWatch(ret)
    /\ UNCHANGED <<text, bps, cmd>>

\* Any other stop, or a selected thread that does not exist any more: an
\* error only for step_over_call.
ReportPlain ==
    /\ Reporting /\ ~IsWatchStop
    /\ \/ Resolves(thr, NewCur) /\ ~IsTrap(NewPc, bps) /\ AfterReport(ret)
       \/ ~Resolves(thr, NewCur) /\ (IF ret = "loop" THEN Die ELSE Back)
    /\ UNCHANGED <<run, regs, text, state, bps, rc, ret>>

\* The rest of step_past_all_watchpoints and of its callers.  A failed wait
\* leaves the watchpoints disarmed; an exit is reported here, and again by
\* the REPL when the command is step or next.
WatchReturned ==
    /\ at = "watch" /\ rc # "wait"
    /\ \/ /\ rc = "exit" /\ Back
          /\ ReportExit(IF cmd \in {"step", "next"} THEN 2 ELSE 1)
          /\ UNCHANGED regs
       \/ /\ rc = "fail" /\ AfterReport(ret)
          /\ UNCHANGED <<regs, procVars, bps, wps>>
       \/ /\ rc = "ok" /\ AfterReport(ret)
          /\ regs' = ArmedAll(regs, Live(thr), wps)
          /\ UNCHANGED <<procVars, bps, wps>>
    /\ UNCHANGED <<run, threadVars, susp, text, state, cur, rc, ret, loopVars>>
=============================================================================
