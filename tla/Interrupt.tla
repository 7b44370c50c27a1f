------------------------------ MODULE Interrupt ------------------------------
(***************************************************************************)
(* Ctrl-C.  The SIGINT handler runs between any two instructions of the    *)
(* debugger, reads dbg->state and dbg->pid as they are there, and passes   *)
(* the signal on.  So the commands are cut here into the system calls and  *)
(* the assignments to these two fields; what else they do is in Repl.      *)
(* `at` is what the debugger does next:                                    *)
(*   "start"    main, before cdbg_run                                      *)
(*   "detach", "sigkill", "reap", "clearpid", "clearstate"  stop_debuggee  *)
(*   "fork", "setpid", "setrunning"   cdbg_spawn                           *)
(*   "resume", "setrunning"           cdbg_continue, cdbg_single_step      *)
(*   "wait", "setstate"               cdbg_wait                            *)
(*   "after"    what follows a wait, by the phase of the command:          *)
(*              "exec" and "entry" of run; "over" and "cont" of continue   *)
(*              and si; "round" of step and next; "past" of a watchpoint   *)
(*   "report"   report_process_exit                                        *)
(*   "install"  cdbg_repl, before signal()                                 *)
(*   "prompt", and the ends: "left" (the REPL or main returned), "failed"  *)
(*   (it returned -1), "killed" (by SIGINT)                                *)
(***************************************************************************)
EXTENDS Naturals

CONSTANTS
    MaxRuns,    \* bound: processes started
    StepLimit   \* CDBG_MAX_STEP_ITERATIONS

ASSUME InterruptAssumption == MaxRuns \in Nat \ {0} /\ StepLimit \in Nat \ {0}

VARIABLES
    at, cmd, phase,
    rounds,     \* rounds of the loop of step or next
    state,      \* dbg->state
    pid,        \* dbg->pid: the number of the process, or 0
    ended,      \* dbg->wait_status tells of the end of the process
    handler,    \* whether sigint_handler is installed
    child,      \* the process: "none", "forked", "stopped", "running",
                \* "free" (detached) or "zombie"
    loaded,     \* whether it has come through execv
    runs,       \* its number
    news,       \* waitpid has something to tell of it
    pending,    \* a SIGINT waits for it
    struck      \* whom the handler has just sent a SIGINT

local == <<cmd, phase, rounds, ended>>
shared == <<state, pid>>
kernel == <<child, loaded, runs, news, pending>>
vars == <<at, local, shared, handler, kernel, struck>>

Ends == {"left", "failed", "killed"}

Init ==
    /\ at = "start" /\ cmd = "main" /\ phase = "exec" /\ rounds = 0
    /\ state = "IDLE" /\ pid = 0 /\ ended = FALSE /\ handler = FALSE
    /\ child = "none" /\ loaded = FALSE /\ runs = 0 /\ news = FALSE /\ pending = FALSE
    /\ struck = "nobody"

-----------------------------------------------------------------------------
(* The process.                                                            *)

Becomes(c) == child' = c /\ news' = TRUE
ByItself == struck' = "nobody" /\ UNCHANGED <<at, local, shared, handler>>

\* PT_TRACE_ME and execv: the trap, or _exit(127).
Execs ==
    /\ ByItself
    /\ child = "forked"
    /\ \/ Becomes("stopped") /\ loaded' = TRUE
       \/ Becomes("zombie") /\ UNCHANGED loaded
    /\ UNCHANGED <<runs, pending>>

\* A breakpoint, a watchpoint or the end of a step.
StopsItself ==
    /\ ByItself
    /\ child = "running" /\ Becomes("stopped")
    /\ UNCHANGED <<loaded, runs, pending>>

Exits ==
    /\ ByItself
    /\ child \in {"running", "free"} /\ Becomes("zombie")
    /\ UNCHANGED <<loaded, runs, pending>>

\* A traced process stops, an untraced one ends.  Before PT_TRACE_ME the child
\* has the debugger's handler, with a state of its own that is not RUNNING.
TakesInterrupt ==
    /\ ByItself
    /\ pending /\ pending' = FALSE
    /\ \/ child = "running" /\ Becomes("stopped")
       \/ child = "forked" /\ (Becomes("stopped") \/ UNCHANGED <<child, news>>)
       \/ child = "free" /\ Becomes("zombie")
    /\ UNCHANGED <<loaded, runs>>

Debuggee == Execs \/ StopsItself \/ Exits \/ TakesInterrupt

-----------------------------------------------------------------------------
(* The debugger, one system call or assignment at a time.                  *)

Goto(from, to) == at = from /\ at' = to /\ struck' = "nobody" /\ UNCHANGED handler
SameChild == UNCHANGED kernel

\* The beginning of stop_debuggee.
StopFirst == IF pid > 0 /\ state # "IDLE" THEN "detach" ELSE "clearpid"

\* cdbg_run, from main or from the prompt.
Run ==
    /\ Goto("start", StopFirst) \/ Goto("prompt", StopFirst)
    /\ runs < MaxRuns
    /\ cmd' = IF at = "start" THEN "main" ELSE "run"
    /\ phase' = "exec" /\ rounds' = 0 /\ ended' = FALSE
    /\ UNCHANGED shared /\ SameChild

\* kill and quit.
Kill(c) ==
    /\ Goto("prompt", StopFirst)
    /\ c = "kill" => pid > 0 /\ state # "IDLE"
    /\ cmd' = c
    /\ UNCHANGED <<phase, rounds, ended, shared>> /\ SameChild

Detach ==
    /\ Goto("detach", "sigkill")
    /\ child' = IF child = "stopped" THEN "free" ELSE child
    /\ UNCHANGED <<local, shared, loaded, runs, news, pending>>

SigKill ==
    /\ Goto("sigkill", "reap")
    /\ Becomes("zombie")
    /\ UNCHANGED <<local, shared, loaded, runs, pending>>

\* Mutation: the process is not waited for.
NoReap ==
    /\ Goto("reap", "clearpid")
    /\ UNCHANGED <<local, shared>> /\ SameChild

\* cdbg_process_wait until there is something to tell; an EINTR begins again.
Reap ==
    /\ Goto("reap", "clearpid")
    /\ child = "zombie" /\ child' = "none" /\ news' = FALSE /\ pending' = FALSE
    /\ UNCHANGED <<local, shared, loaded, runs>>

ClearPid ==
    /\ Goto("clearpid", "clearstate")
    /\ pid' = 0
    /\ UNCHANGED <<local, state>> /\ SameChild

ClearState ==
    /\ Goto("clearstate", CASE cmd \in {"main", "run"} -> "fork"
                            [] cmd = "kill" -> "prompt"
                            [] OTHER -> "left")
    /\ state' = "IDLE"
    /\ UNCHANGED <<local, pid>> /\ SameChild

\* cdbg_process_spawn, and the rest of cdbg_spawn.
Fork ==
    /\ Goto("fork", "setpid")
    /\ child' = "forked" /\ loaded' = FALSE /\ runs' = runs + 1
    /\ news' = FALSE /\ pending' = FALSE
    /\ UNCHANGED <<local, shared>>

SetPid ==
    /\ Goto("setpid", "setrunning")
    /\ pid' = runs
    /\ UNCHANGED <<local, state>> /\ SameChild

\* Mutation: the state is not set.
NotRunning ==
    /\ Goto("setrunning", "wait")
    /\ UNCHANGED <<local, shared>> /\ SameChild

SetRunning ==
    /\ Goto("setrunning", "wait")
    /\ state' = "RUNNING"
    /\ UNCHANGED <<local, pid>> /\ SameChild

\* continue and si, step and next.
Go(c) ==
    /\ Goto("prompt", "resume") /\ state # "IDLE"
    /\ cmd' = c
    /\ phase' \in IF c = "continue" THEN {"over", "cont"} ELSE {"round", "cont"}
    /\ rounds' = 1
    /\ UNCHANGED <<ended, shared>> /\ SameChild

\* PT_CONTINUE or PT_STEP.
Resume ==
    /\ Goto("resume", "setrunning")
    /\ child = "stopped" /\ child' = IF loaded THEN "running" ELSE "forked"
    /\ UNCHANGED <<local, shared, loaded, runs, news, pending>>

Wait ==
    /\ Goto("wait", "setstate")
    /\ news /\ news' = FALSE
    /\ ended' = (child = "zombie")
    /\ child' = IF child = "zombie" THEN "none" ELSE child
    /\ pending' = (pending /\ child # "zombie")
    /\ UNCHANGED <<cmd, phase, rounds, shared, loaded, runs>>

\* Mutation: the end of the process leaves the state.
StateKept ==
    /\ Goto("setstate", "after")
    /\ state' = IF ended THEN state ELSE "STOPPED"
    /\ UNCHANGED <<local, pid>> /\ SameChild

SetState ==
    /\ Goto("setstate", "after")
    /\ state' = IF ended THEN "IDLE" ELSE "STOPPED"
    /\ UNCHANGED <<local, pid>> /\ SameChild

Finished == IF cmd = "main" THEN "install" ELSE "prompt"

\* The phases that may follow one, the process being alive.
Follow ==
    [exec |-> {"entry", "done"}, entry |-> {"done"}, over |-> {"cont"},
     cont |-> {"past", "done"}, past |-> {"done"}, round |-> {"round", "past", "done"}]

\* A step over a breakpoint that ends the process ends the REPL.
AfterEnd ==
    /\ state = "IDLE" /\ Goto("after", IF phase = "over" THEN "failed" ELSE "report")
    /\ UNCHANGED <<local, shared>> /\ SameChild

\* The loop of step and next does not ask why the process stopped.
AfterStop ==
    /\ state = "STOPPED"
    /\ \/ /\ "done" \in Follow[phase] /\ Goto("after", Finished)
          /\ UNCHANGED <<phase, rounds>>
       \/ /\ phase = "round" /\ rounds = StepLimit /\ Goto("after", "failed")
          /\ UNCHANGED <<phase, rounds>>
       \/ /\ \E p \in Follow[phase] \ {"done"} :
               /\ p = "round" => rounds < StepLimit
               /\ phase' = p
          /\ rounds' = IF phase' = "round" THEN rounds + 1 ELSE rounds
          /\ Goto("after", "resume")
    /\ UNCHANGED <<cmd, ended, shared>> /\ SameChild

\* report_process_exit; cdbg_run of main has failed then.
Report ==
    /\ Goto("report", IF cmd = "main" THEN "left" ELSE "prompt")
    /\ pid' = 0
    /\ UNCHANGED <<local, state>> /\ SameChild

\* cdbg_repl: g_sigint_dbg and signal().
Install ==
    /\ at = "install" /\ at' = "prompt"
    /\ handler' = TRUE /\ struck' = "nobody"
    /\ UNCHANGED <<local, shared>> /\ SameChild

\* End of input.
Eof ==
    /\ Goto("prompt", "left") /\ cmd' = "eof"
    /\ UNCHANGED <<phase, rounds, ended, shared>> /\ SameChild

User == Run \/ Eof \/ (\E c \in {"kill", "quit"} : Kill(c))
        \/ (\E c \in {"continue", "step"} : Go(c))

Debugger ==
    \/ Detach \/ SigKill \/ Reap \/ ClearPid \/ ClearState
    \/ Fork \/ SetPid \/ SetRunning \/ Resume \/ Wait \/ SetState
    \/ AfterEnd \/ AfterStop \/ Report \/ Install

-----------------------------------------------------------------------------
(* Ctrl-C.                                                                 *)

\* Whom kill(pid, ...) reaches.
Target ==
    IF pid = 0 THEN "group"
    ELSE IF pid # runs THEN "other"
    ELSE IF child = "none" THEN "reaped"
    ELSE "child"

\* sigint_handler.  At the prompt fgets fails with EINTR and the prompt is
\* shown again; waitpid is called again.  The child has a process group of its
\* own and gets nothing from the terminal.
CtrlC ==
    /\ at \notin Ends
    /\ IF ~ handler
       THEN at' = "killed" /\ struck' = "nobody" /\ UNCHANGED pending
       ELSE /\ at' = at
            /\ IF state = "RUNNING"
               THEN struck' = Target /\ pending' = (pending \/ child \in {"forked", "stopped", "running"})
               ELSE UNCHANGED <<pending, struck>>
    /\ UNCHANGED <<local, shared, handler, child, loaded, runs, news>>

\* Every end of the debugger.
Over == at \in Ends /\ UNCHANGED vars

Next == User \/ Debugger \/ Debuggee \/ CtrlC \/ Over

Spec == Init /\ [][Next]_vars

\* The debugger goes on, the kernel starts a child and delivers a signal, and
\* the user presses Ctrl-C again as long as the command lasts.  Nothing makes
\* a program come to a breakpoint or to its end.
Fairness ==
    /\ WF_vars(Debugger)
    /\ WF_vars(Execs)
    /\ WF_vars(TakesInterrupt)
    /\ WF_vars(at = "wait" /\ CtrlC)

FairSpec == Spec /\ Fairness

-----------------------------------------------------------------------------
(* Properties.                                                             *)

(* The handler never signals the debugger's own process group or a process *)
(* of an earlier run, wherever it interrupts cdbg_run, stop_debuggee and   *)
(* report_process_exit; only between the return of waitpid and the         *)
(* assignment to state can the pid be one that is no longer the child's.   *)
StrikesChild ==
    struck \in {"nobody", "child"} \/ (struck = "reaped" /\ at = "setstate")

(* However Ctrl-C falls, the prompt comes only with state and pid as the   *)
(* process is, and after quit there is no process, dead or alive (docs/04  *)
(* release list: no zombie).                                               *)
PromptTrue ==
    /\ at = "prompt" =>
          \/ state = "STOPPED" /\ child = "stopped" /\ pid = runs /\ ~ news
          \/ state = "IDLE" /\ child = "none" /\ pid = 0
    /\ at = "left" /\ cmd = "quit" => child = "none"

(* A user who presses Ctrl-C while a command waits gets the prompt back,   *)
(* whatever the program does, in the words of docs/04 TC-08-01; else the   *)
(* debugger has ended, by a Ctrl-C only before the REPL (main runs to the  *)
(* entry without a handler), otherwise by the end of the process in main   *)
(* or in the step over a breakpoint, or by the limit of step and next.     *)
InterruptReturns ==
    [](at = "wait" => <>(\/ at = "prompt"
                         \/ at \in {"left", "killed"} /\ cmd = "main"
                         \/ at = "failed" /\ phase \in {"over", "round"}))
=============================================================================
