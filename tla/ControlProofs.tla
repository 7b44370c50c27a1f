---------------------------- MODULE ControlProofs ----------------------------
(***************************************************************************)
(* What the debugger's state says of the process, for every debuggee and   *)
(* every sequence of commands: PromptAgrees, that Repl implements the      *)
(* state machine of DebuggeeLifecycle, and that the watchpoint table and   *)
(* the debug registers agree.                                              *)
(*                                                                         *)
(* PromptAgrees alone is not inductive: what holds at the prompt rests on  *)
(* what every internal wait leaves behind.  Phase says, for every point    *)
(* the debugger can be at, what it knows of the process and what the       *)
(* process does.                                                           *)
(***************************************************************************)
EXTENDS ReplProofs

Phase ==
    /\ rc = "wait" <=> state = "RUNNING"
    /\ state = "STOPPED" <=> run = "stopped" /\ rc # "wait"
    /\ state = "IDLE" <=> run = "none"
    /\ state = "RUNNING" => at \in Waiting
    /\ at \in {"check", "report"} => state = "STOPPED"
    /\ at \in Waiting /\ rc = "exit" => state = "IDLE"
    /\ at \in Waiting /\ rc \in {"ok", "fail"} => state = "STOPPED"
    /\ at = "main" => state = "IDLE"
    /\ state # "IDLE" => pid = runs /\ pid > 0

\* Nothing is left of a process that is gone.
Cleared == at = "prompt" /\ state = "IDLE" => pid = 0 /\ NothingEnabled

Control == TypeOK /\ Phase /\ Cleared

-----------------------------------------------------------------------------
(* Phase, one lemma for each part of Next.                                 *)

(* Neither the REPL nor a command leaves what the debugger knows behind    *)
(* what it does: a command that resumes waits, the others keep a stopped   *)
(* process stopped or reap it.                                             *)
LEMMA UserPhase ==
    ASSUME Phase, TypeOK, UserStep
    PROVE  Phase'
<1> USE DEF Phase, Waiting, Command, Resuming, kernelVars, threadVars, procVars, Die
<1>1. CASE CmdRun
      BY <1>1 DEF CmdRun, StartProcess, Spawn, TypeOK, DebuggerTypeOK
<1>2. CASE CmdContinue
      BY <1>2 DEF CmdContinue, Continue, Resume, SingleStep
<1>3. CASE CmdSi
      BY <1>3 DEF CmdSi, SingleStep
<1>4. ASSUME NEW c, LineStep(c)
      PROVE  Phase'
      BY <1>4 DEF LineStep, Advance, Continue, Resume, SingleStep
<1>5. CASE CmdKill
      BY <1>5 DEF CmdKill, Reap
<1>6. CASE CmdQuit
    <2>1. CASE pid > 0 /\ state # "IDLE"
          BY <1>6, <2>1 DEF CmdQuit, Reap
    <2>2. CASE ~(pid > 0) /\ state # "IDLE"
          BY <1>6, <2>2 DEF CmdQuit
    <2> QED BY <1>6, <2>1, <2>2 DEF CmdQuit
<1>7. CASE CmdEof \/ CmdDelAll \/ CmdRegsFails
      BY <1>7 DEF CmdEof, CmdDelAll, CmdRegsFails
<1>8. ASSUME NEW a, CmdBreak(a) \/ SetPc(a)
      PROVE  Phase'
      BY <1>8 DEF CmdBreak, SetPc
<1>9. ASSUME NEW i, CmdDel(i) \/ CmdDelWatch(i) \/ CmdWatch(i) \/ CmdThread(i)
      PROVE  Phase'
      BY <1>9 DEF CmdDel, CmdDelWatch, CmdWatch, CmdThread
<1> QED BY <1>1, <1>2, <1>3, <1>4, <1>5, <1>6, <1>7, <1>8, <1>9
        DEF UserStep, CmdStep, CmdNext, CmdSetPc, CmdUp

(* Nor does anything the debugger does by itself.                          *)
LEMMA DebuggerPhase ==
    ASSUME Phase, TypeOK, DebuggerStep
    PROVE  Phase'
<1> USE DEF Phase, Waiting, kernelVars, threadVars, procVars, Back, Die, RunFailed,
            ReportExit, Resume, SingleStep, AfterReport
<1>1. CASE CdbgWait
      BY <1>1 DEF CdbgWait, Reap
<1>2. CASE ExecReturned
      BY <1>2 DEF ExecReturned
<1>3. CASE EntryReturned
      BY <1>3 DEF EntryReturned
<1>4. CASE OverReturned
      BY <1>4 DEF OverReturned
<1>5. CASE ResumeReturned
      BY <1>5 DEF ResumeReturned
<1>6. CASE ReportBreak
      BY <1>6 DEF ReportBreak, Reporting
<1>7. CASE ReportWatch
      BY <1>7 DEF ReportWatch, Reporting, StepPastWatch
<1>8. CASE ReportPlain
      BY <1>8 DEF ReportPlain, Reporting
<1>9. CASE WatchReturned
      BY <1>9 DEF WatchReturned
<1>10. CASE StepFailed
       BY <1>10 DEF StepFailed
<1>11. CASE CallReturned
       BY <1>11 DEF CallReturned
<1>12. CASE LoopStops
       BY <1>12 DEF LoopStops, InLoop
<1>13. CASE LoopWatch
       BY <1>13 DEF LoopWatch, InLoop, StepPastWatch
<1>14. CASE LoopAgain
       BY <1>14 DEF LoopAgain, InLoop, Advance, Continue
<1> QED BY <1>1, <1>2, <1>3, <1>4, <1>5, <1>6, <1>7, <1>8, <1>9, <1>10, <1>11, <1>12,
           <1>13, <1>14 DEF DebuggerStep

(* The process changes only while the debugger waits for it.               *)
LEMMA KernelPhase ==
    ASSUME Phase, TypeOK, KernelStep
    PROVE  Phase' /\ state = "RUNNING" /\ state' = "RUNNING"
<1>1. PICK t \in Tid : DebuggeeStep(t) /\ UNCHANGED debuggerVars
      BY DEF KernelStep
<1>2. run \in {"step", "cont"} /\ run' \in {run, "stopped", "exited"}
      BY <1>1 DEF DebuggeeStep, TrapBrk, TrapWatch, SignalStop, StopWith, Executed, Plain,
                  SpawnThread, EndThread, EndProcess, Retired, Executes, Runnable
<1> QED BY <1>1, <1>2 DEF Phase, TypeOK, DebuggerTypeOK, debuggerVars, procVars, Waiting

-----------------------------------------------------------------------------
(* Cleared.                                                                *)

(* report_process_exit leaves nothing enabled and no pid.                  *)
LEMMA ReportExitClears ==
    ASSUME TypeOK, NEW n, ReportExit(n)
    PROVE  pid' = 0 /\ NothingEnabled'
    BY BpsDisabled, WpsDisabled
    DEF TypeOK, DebuggerTypeOK, ReportExit, NothingEnabled

(* Deleting an entry enables no other.                                     *)
LEMMA WithoutKeepsDisabled ==
    ASSUME NEW S, NEW table \in Seq(S), NEW i \in DOMAIN table,
           \A j \in DOMAIN table : ~table[j].enabled
    PROVE  \A j \in DOMAIN Without(table, i) : ~Without(table, i)[j].enabled
<1>1. Len(table) \in Nat /\ DOMAIN table = 1 .. Len(table)
      BY TableFacts
<1> SUFFICES ASSUME NEW j \in 1 .. (Len(table) - 1)
             PROVE  ~Without(table, i)[j].enabled
    BY <1>1 DEF Without
<1>2. j \in DOMAIN table /\ j + 1 \in DOMAIN table
      BY <1>1
<1>3. Without(table, i)[j] \in {table[j], table[j + 1]}
      BY DEF Without
<1> QED BY <1>2, <1>3

(* A command given when there is no process leaves none, and nothing       *)
(* enabled; kill and quit clear what there is.                             *)
LEMMA UserCleared ==
    ASSUME Control, UserStep
    PROVE  Cleared'
<1> USE DEF Control, Phase, Cleared, Waiting, Command, Resuming, procVars, Die
<1>0. /\ \A i \in DOMAIN AllDisabled(bps) : ~AllDisabled(bps)[i].enabled
      /\ \A i \in DOMAIN AllDisabled(wps) : ~AllDisabled(wps)[i].enabled
      BY BpsDisabled, WpsDisabled DEF TypeOK, DebuggerTypeOK
<1>1. CASE CmdRun
      BY <1>1 DEF CmdRun, StartProcess
<1>2. CASE CmdContinue \/ CmdSi
      BY <1>2 DEF CmdContinue, Continue, Resume, CmdSi, SingleStep
<1>3. ASSUME NEW c, LineStep(c)
      PROVE  Cleared'
      BY <1>3 DEF LineStep, Advance, Continue, Resume, SingleStep
<1>4. CASE CmdKill \/ CmdQuit
      BY <1>0, <1>4 DEF CmdKill, CmdQuit, NothingEnabled
<1>5. CASE CmdEof \/ CmdRegsFails
      BY <1>5 DEF CmdEof, CmdRegsFails
<1>6. CASE CmdDelAll
      BY <1>6 DEF CmdDelAll, NothingEnabled
<1>7. ASSUME NEW a, CmdBreak(a) \/ SetPc(a)
      PROVE  Cleared'
      BY <1>7 DEF CmdBreak, SetPc
<1>8. ASSUME NEW i \in DOMAIN bps, CmdDel(i)
      PROVE  Cleared'
    <2>1. (\A j \in DOMAIN bps : ~bps[j].enabled) => \A j \in DOMAIN bps' : ~bps'[j].enabled
          BY <1>8, WithoutKeepsDisabled DEF CmdDel, TypeOK, DebuggerTypeOK
    <2> QED BY <1>8, <2>1 DEF CmdDel, NothingEnabled
<1>9. ASSUME NEW i \in DOMAIN wps, CmdDelWatch(i)
      PROVE  Cleared'
    <2>1. (\A j \in DOMAIN wps : ~wps[j].enabled) => \A j \in DOMAIN wps' : ~wps'[j].enabled
          BY <1>9, WithoutKeepsDisabled DEF CmdDelWatch, TypeOK, DebuggerTypeOK
    <2> QED BY <1>9, <2>1 DEF CmdDelWatch, NothingEnabled
<1>10. ASSUME NEW x, CmdWatch(x) \/ CmdThread(x)
       PROVE  Cleared'
       BY <1>10 DEF CmdWatch, CmdThread, NothingEnabled
<1> QED BY <1>1, <1>2, <1>3, <1>4, <1>5, <1>6, <1>7, <1>8, <1>9, <1>10
        DEF UserStep, CmdStep, CmdNext, CmdSetPc, CmdUp

(* Every way back to the prompt without a process goes through             *)
(* report_process_exit.                                                    *)
LEMMA DebuggerCleared ==
    ASSUME Control, DebuggerStep
    PROVE  Cleared'
<1> USE DEF Control, Phase, Cleared, Waiting, procVars, Back, Die, RunFailed,
            Resume, SingleStep, AfterReport
<1>1. CASE CdbgWait
      BY <1>1 DEF CdbgWait
<1>2. CASE ExecReturned
      BY <1>2, ReportExitClears DEF ExecReturned
<1>3. CASE EntryReturned
      BY <1>3, ReportExitClears DEF EntryReturned
<1>4. CASE OverReturned
      BY <1>4, ReportExitClears DEF OverReturned
<1>5. CASE ResumeReturned
      BY <1>5, ReportExitClears DEF ResumeReturned
<1>6. CASE ReportBreak
      BY <1>6 DEF ReportBreak, Reporting
<1>7. CASE ReportWatch
      BY <1>7 DEF ReportWatch, Reporting, StepPastWatch
<1>8. CASE ReportPlain
      BY <1>8 DEF ReportPlain, Reporting
<1>9. CASE WatchReturned
      BY <1>9, ReportExitClears DEF WatchReturned
<1>10. CASE StepFailed
       BY <1>10, ReportExitClears DEF StepFailed
<1>11. CASE CallReturned
       BY <1>11, ReportExitClears DEF CallReturned
<1>12. CASE LoopStops
       BY <1>12 DEF LoopStops, InLoop
<1>13. CASE LoopWatch
       BY <1>13 DEF LoopWatch, InLoop, StepPastWatch
<1>14. CASE LoopAgain
       BY <1>14 DEF LoopAgain, InLoop, Advance, Continue
<1> QED BY <1>1, <1>2, <1>3, <1>4, <1>5, <1>6, <1>7, <1>8, <1>9, <1>10, <1>11, <1>12,
           <1>13, <1>14 DEF DebuggerStep

-----------------------------------------------------------------------------
(* The invariant and PromptAgrees.                                         *)

(* The initial state satisfies Control.                                    *)
LEMMA InitControl == Init => Control
    BY InitType
    DEF Init, DebuggeeInit, DebuggerInit, Control, Phase, Cleared, Waiting

(* Every step keeps it.                                                    *)
LEMMA NextControl == Control /\ [Next]_vars => Control'
<1> SUFFICES ASSUME Control, [Next]_vars
             PROVE  Control'
    OBVIOUS
<1>1. TypeOK'
      BY TypeNext DEF Control
<1>2. CASE UserStep
      BY <1>1, <1>2, UserPhase, UserCleared DEF Control
<1>3. CASE DebuggerStep
      BY <1>1, <1>3, DebuggerPhase, DebuggerCleared DEF Control
<1>4. CASE KernelStep
      BY <1>1, <1>4, KernelPhase DEF Control, Cleared
<1>5. CASE UNCHANGED vars
      BY <1>1, <1>5 DEF Control, Phase, Cleared, NothingEnabled, vars, kernelVars,
                        debuggerVars, procVars
<1> QED BY <1>2, <1>3, <1>4, <1>5 DEF Next, Gone

(* Control holds in every reachable state.                                 *)
THEOREM Controlled == Spec => []Control
    BY InitControl, NextControl, PTL DEF Spec

(* At the prompt the debugger's state and the process agree, and a process *)
(* that is gone leaves no pid and nothing enabled (cdbg_repl and every     *)
(* path that returns to it).                                               *)
THEOREM PromptCorrect == Spec => []PromptAgrees
<1>1. Control => PromptAgrees
      BY DEF Control, TypeOK, DebuggerTypeOK, Phase, Cleared, PromptAgrees, Waiting
<1> QED BY <1>1, Controlled, PTL

-----------------------------------------------------------------------------
(* Repl implements DebuggeeLifecycle.                                      *)

LifecycleStep == [Lifecycle!Next]_(Lifecycle!vars)

(* A command starts the process, resumes it, kills it, or leaves it alone. *)
LEMMA UserLifecycle ==
    ASSUME Control, UserStep
    PROVE  LifecycleStep
<1> USE DEF Control, Phase, LifecycleStep, Lifecycle!Next, Lifecycle!vars,
            Lifecycle!Launch, Lifecycle!Resume, Lifecycle!Kill,
            Waiting, Command, Resuming, kernelVars
<1>1. (state # "RUNNING" /\ run \in {"none", "stopped"}) \/ at \notin {"prompt", "main"}
      BY DEF TypeOK, DebuggerTypeOK
<1>2. CASE CmdRun
      BY <1>1, <1>2 DEF CmdRun, StartProcess, Spawn
<1>3. CASE CmdContinue
      BY <1>1, <1>3 DEF CmdContinue, Continue, Resume, SingleStep, TypeOK, DebuggerTypeOK
<1>4. CASE CmdSi
      BY <1>1, <1>4 DEF CmdSi, SingleStep, TypeOK, DebuggerTypeOK
<1>5. ASSUME NEW c, LineStep(c)
      PROVE  LifecycleStep
      BY <1>1, <1>5 DEF LineStep, Advance, Continue, Resume, SingleStep, TypeOK, DebuggerTypeOK
<1>6. CASE CmdKill
      BY <1>1, <1>6 DEF CmdKill, Reap, TypeOK, DebuggerTypeOK
<1>7. CASE CmdQuit
    <2>1. state = "IDLE" \/ pid > 0
          OBVIOUS
    <2> QED BY <1>1, <1>7, <2>1 DEF CmdQuit, Reap, TypeOK, DebuggerTypeOK
<1>8. CASE CmdEof \/ CmdDelAll \/ CmdRegsFails
      BY <1>8 DEF CmdEof, CmdDelAll, CmdRegsFails
<1>9. ASSUME NEW x, \/ CmdBreak(x) \/ SetPc(x) \/ CmdDel(x)
                    \/ CmdWatch(x) \/ CmdDelWatch(x) \/ CmdThread(x)
      PROVE  LifecycleStep
      BY <1>9 DEF CmdBreak, SetPc, CmdDel, CmdWatch, CmdDelWatch, CmdThread
<1> QED BY <1>2, <1>3, <1>4, <1>5, <1>6, <1>7, <1>8, <1>9
        DEF UserStep, CmdStep, CmdNext, CmdSetPc, CmdUp

(* The debugger by itself waits, resumes a process it found stopped, or    *)
(* leaves the process alone.                                               *)
LEMMA DebuggerLifecycle ==
    ASSUME Control, DebuggerStep
    PROVE  LifecycleStep
<1> USE DEF Control, Phase, LifecycleStep, Lifecycle!Next, Lifecycle!vars,
            Lifecycle!Resume, Waiting, kernelVars, Resume, SingleStep
<1>1. CASE CdbgWait
      BY <1>1 DEF CdbgWait, Reap, Lifecycle!Wait
<1>2. CASE ExecReturned
      BY <1>2 DEF ExecReturned
<1>3. CASE EntryReturned
      BY <1>3 DEF EntryReturned
<1>4. CASE OverReturned
      BY <1>4 DEF OverReturned
<1>5. CASE ResumeReturned \/ StepFailed \/ CallReturned \/ LoopStops
      BY <1>5 DEF ResumeReturned, StepFailed, CallReturned, LoopStops
<1>6. CASE ReportBreak \/ ReportPlain \/ WatchReturned
      BY <1>6 DEF ReportBreak, ReportPlain, WatchReturned
<1>7. CASE ReportWatch
      BY <1>7 DEF ReportWatch, Reporting, StepPastWatch
<1>8. CASE LoopWatch
      BY <1>8 DEF LoopWatch, InLoop, StepPastWatch
<1>9. CASE LoopAgain
      BY <1>9 DEF LoopAgain, InLoop, Advance, Continue
<1> QED BY <1>1, <1>2, <1>3, <1>4, <1>5, <1>6, <1>7, <1>8, <1>9 DEF DebuggerStep

(* The process stops or exits only when it runs.                           *)
LEMMA KernelLifecycle ==
    ASSUME Control, KernelStep
    PROVE  LifecycleStep
<1>1. PICK t \in Tid : DebuggeeStep(t) /\ UNCHANGED debuggerVars
      BY DEF KernelStep
<1>2. run \in {"step", "cont"} /\ run' \in {run, "stopped", "exited"}
      BY <1>1 DEF DebuggeeStep, TrapBrk, TrapWatch, SignalStop, StopWith, Executed, Plain,
                  SpawnThread, EndThread, EndProcess, Retired, Executes, Runnable
<1>3. state = "RUNNING" /\ state' = "RUNNING"
      BY KernelPhase DEF Control
<1> QED BY <1>2, <1>3 DEF LifecycleStep, Lifecycle!Next, Lifecycle!vars, Lifecycle!Halt

(* The debugger implements the state machine of the design: it resumes,    *)
(* steps or kills only a process it knows to be stopped, and learns of a   *)
(* stop or an exit only by waiting for it (cdbg_wait, stop_debuggee).      *)
THEOREM LifecycleCorrect == Spec => LifecycleSpec
<1>1. Init => Lifecycle!Init
      BY DEF Init, DebuggeeInit, DebuggerInit, Lifecycle!Init
<1>2. Control /\ [Next]_vars => [Lifecycle!Next]_(Lifecycle!vars)
    <2> SUFFICES ASSUME Control, [Next]_vars
                 PROVE  LifecycleStep
        BY DEF LifecycleStep
    <2>1. CASE UNCHANGED vars
          BY <2>1 DEF LifecycleStep, Lifecycle!vars, vars, kernelVars, debuggerVars
    <2> QED BY <2>1, UserLifecycle, DebuggerLifecycle, KernelLifecycle DEF Next, Gone
<1> QED BY <1>1, <1>2, Controlled, PTL DEF Spec, LifecycleSpec, Lifecycle!Spec
-----------------------------------------------------------------------------
(* ExitReportedOnce.  With watchpoints it does not hold: the exit during   *)
(* step_past_all_watchpoints is told twice by step and next.  Without them *)
(* no path tells it twice, and none forgets to: Untold says where the exit *)
(* of the current process cannot have been reported yet.                   *)

Unwatched == "watch" \notin Commands

Untold ==
    /\ wps = <<>> /\ at # "watch"
    /\ at \in Waiting \cup {"check", "report"} => exits = 0
    /\ at = "prompt" /\ state # "IDLE" => exits = 0

ToldOnce == at # "prompt" /\ at' = "prompt" /\ state' = "IDLE" => exits' = 1

(* An empty table stays empty.                                             *)
LEMMA EmptyDisabled == AllDisabled(<<>>) = <<>>
    BY DEF AllDisabled

(* No command reports an exit by itself, and run starts a new process.     *)
LEMMA UserUntold ==
    ASSUME Unwatched, Control, Untold, UserStep
    PROVE  Untold' /\ ToldOnce
<1> USE EmptyDisabled
    DEF Control, Phase, Untold, ToldOnce, Waiting, Command, Resuming, procVars, Die
<1>1. CASE CmdRun
      BY <1>1 DEF CmdRun, StartProcess
<1>2. CASE CmdContinue \/ CmdSi
      BY <1>2 DEF CmdContinue, Continue, Resume, CmdSi, SingleStep
<1>3. ASSUME NEW c, LineStep(c)
      PROVE  Untold' /\ ToldOnce
      BY <1>3 DEF LineStep, Advance, Continue, Resume, SingleStep
<1>4. CASE CmdKill \/ CmdQuit
      BY <1>4 DEF CmdKill, CmdQuit
<1>5. CASE CmdEof \/ CmdRegsFails \/ CmdDelAll
      BY <1>5 DEF CmdEof, CmdRegsFails, CmdDelAll
<1>6. ASSUME NEW x, CmdBreak(x) \/ SetPc(x) \/ CmdDel(x) \/ CmdThread(x)
      PROVE  Untold' /\ ToldOnce
      BY <1>6 DEF CmdBreak, SetPc, CmdDel, CmdThread
<1>7. ASSUME NEW l, CmdWatch(l)
      PROVE  FALSE
      BY <1>7 DEF CmdWatch, Unwatched
<1>8. DOMAIN wps = {}
      OBVIOUS
<1> QED BY <1>1, <1>2, <1>3, <1>4, <1>5, <1>6, <1>7, <1>8
        DEF UserStep, CmdStep, CmdNext, CmdSetPc, CmdUp

(* Every wait that ends with the process's end is followed by one report   *)
(* before the prompt, or by the end of the debugger.                       *)
LEMMA DebuggerUntold ==
    ASSUME Control, Untold, DebuggerStep
    PROVE  Untold' /\ ToldOnce
<1> USE EmptyDisabled
    DEF Control, Phase, Untold, ToldOnce, Waiting, procVars, Back, Die, RunFailed,
        ReportExit, Resume, SingleStep, AfterReport
<1>0. exits \in Nat
      BY DEF TypeOK, DebuggerTypeOK
<1>1. CASE CdbgWait
      BY <1>1 DEF CdbgWait
<1>2. CASE ExecReturned
      BY <1>2 DEF ExecReturned
<1>3. CASE EntryReturned
      BY <1>3 DEF EntryReturned
<1>4. CASE OverReturned
      BY <1>4 DEF OverReturned
<1>5. CASE ResumeReturned
      BY <1>5 DEF ResumeReturned
<1>6. CASE ReportBreak
      BY <1>6 DEF ReportBreak, Reporting
<1>7. CASE ReportWatch
      BY <1>7 DEF ReportWatch, IsWatchStop
<1>8. CASE ReportPlain
      BY <1>8 DEF ReportPlain, Reporting
<1>9. CASE WatchReturned
      BY <1>9 DEF WatchReturned
<1>10. CASE StepFailed
       BY <1>10 DEF StepFailed
<1>11. CASE CallReturned
       BY <1>11 DEF CallReturned
<1>12. CASE LoopStops
       BY <1>12 DEF LoopStops, InLoop
<1>13. CASE LoopWatch
       BY <1>13 DEF LoopWatch, AtWatch
<1>14. CASE LoopAgain
       BY <1>14 DEF LoopAgain, InLoop, Advance, Continue
<1> QED BY <1>1, <1>2, <1>3, <1>4, <1>5, <1>6, <1>7, <1>8, <1>9, <1>10, <1>11, <1>12,
           <1>13, <1>14 DEF DebuggerStep

(* When a command ends because the process ended, the user was told once:  *)
(* report_process_exit runs exactly once on every path from a wait to the  *)
(* prompt, whatever the program does, unless there are watchpoints.        *)
THEOREM ExitTold ==
    ASSUME Unwatched
    PROVE  Spec => ExitReportedOnce
<1>1. Init => Untold
      BY DEF Init, DebuggerInit, Untold, Waiting
<1>2. Control /\ Untold /\ [Next]_vars => Untold' /\ [ToldOnce]_vars
    <2> SUFFICES ASSUME Control, Untold, [Next]_vars
                 PROVE  Untold' /\ [ToldOnce]_vars
        OBVIOUS
    <2>1. CASE KernelStep \/ UNCHANGED vars
          BY <2>1 DEF KernelStep, Untold, ToldOnce, vars, debuggerVars, procVars
    <2> QED BY <2>1, UserUntold, DebuggerUntold DEF Next, Gone
<1>3. [][ToldOnce]_vars => ExitReportedOnce
      BY PTL DEF ToldOnce, ExitReportedOnce
<1> QED BY <1>1, <1>2, <1>3, Controlled, PTL DEF Spec

-----------------------------------------------------------------------------
(***************************************************************************)
(* The watchpoint table and the debug registers of every thread agree, for *)
(* every debuggee, every number of threads and slots, and every order of   *)
(* commands, hits, failures and exits.                                     *)
(*                                                                         *)
(* WatchRegsAccounted speaks of the live threads.  It is not inductive: a  *)
(* thread that starts must not find registers armed that nobody answers    *)
(* for.  Fresh says that thread ids not handed out yet have none.          *)
(***************************************************************************)

\* No two enabled entries share a slot.
Distinct(table) ==
    \A i, j \in DOMAIN table :
        table[i].enabled /\ table[j].enabled /\ table[i].slot = table[j].slot => i = j

\* An enabled entry has slot s and location l.
Backs(table, s, l) ==
    \E i \in DOMAIN table : table[i].enabled /\ table[i].slot = s /\ table[i].loc = l

Backed ==
    run # "none" =>
        \A t \in Live(thr), s \in Slot :
            regs[t][s] # NoLoc => Backs(wps, s, regs[t][s])

Fresh ==
    /\ Live(thr) \subseteq 1 .. lastTid
    /\ \A t \in Tid : t > lastTid => regs[t] = NoRegs

Watches == Distinct(wps) /\ Backed /\ Fresh

-----------------------------------------------------------------------------
(* The operators.                                                          *)

(* A watchpoint in a free slot disturbs no entry (find_free_watch_slot).   *)
LEMMA WatchAdded ==
    ASSUME NEW table \in Seq(Wp), Distinct(table),
           NEW s \in FreeWatchSlot(table), NEW l \in Loc,
           NEW e, e = [loc |-> l, slot |-> s, enabled |-> TRUE]
    PROVE  /\ Distinct(Append(table, e))
           /\ Backs(Append(table, e), s, l)
           /\ \A r, m : Backs(table, r, m) => Backs(Append(table, e), r, m)
<1> DEFINE longer == Append(table, e)
<1>1. /\ Len(table) \in Nat
      /\ DOMAIN table = 1 .. Len(table)
      /\ DOMAIN longer = 1 .. (Len(table) + 1)
      /\ \A i \in DOMAIN table : i \in DOMAIN longer /\ longer[i] = table[i]
      /\ Len(table) + 1 \in DOMAIN longer /\ longer[Len(table) + 1] = e
      OBVIOUS
<1>2. \A i \in DOMAIN longer : i \in DOMAIN table \/ i = Len(table) + 1
      BY <1>1
<1>3. \A i \in DOMAIN table : table[i].enabled => table[i].slot # s
      BY DEF FreeWatchSlot, UsedSlots
<1>4. e.enabled /\ e.slot = s /\ e.loc = l
      OBVIOUS
<1> HIDE DEF longer
<1>5. Distinct(longer)
      BY <1>1, <1>2, <1>3, <1>4 DEF Distinct
<1>6. Backs(longer, s, l)
      BY <1>1, <1>4 DEF Backs
<1>7. \A r, m : Backs(table, r, m) => Backs(longer, r, m)
      BY <1>1 DEF Backs
<1> QED BY <1>5, <1>6, <1>7 DEF longer

(* Deleting an entry leaves the others, each with its slot                 *)
(* (delete_watchpoint_at).                                                 *)
LEMMA WatchDeleted ==
    ASSUME NEW table \in Seq(Wp), Distinct(table), NEW i \in DOMAIN table
    PROVE  /\ Distinct(Without(table, i))
           /\ \A s, l : Backs(table, s, l) /\ s # table[i].slot
                            => Backs(Without(table, i), s, l)
<1> DEFINE rest == Without(table, i)
<1>1. /\ Len(table) \in Nat /\ DOMAIN table = 1 .. Len(table)
      /\ i \in 1 .. Len(table)
      BY TableFacts
<1>2. DOMAIN rest = 1 .. (Len(table) - 1)
      BY DEF Without
<1>3. \A k \in DOMAIN rest :
          /\ k < i => k \in DOMAIN table /\ rest[k] = table[k]
          /\ ~(k < i) => k + 1 \in DOMAIN table /\ rest[k] = table[k + 1]
      BY <1>1, <1>2 DEF Without
<1>4. ASSUME NEW j \in DOMAIN rest, NEW k \in DOMAIN rest,
             rest[j].enabled, rest[k].enabled, rest[j].slot = rest[k].slot
      PROVE  j = k
    <2> DEFINE up(n) == IF n < i THEN n ELSE n + 1
    <2>1. /\ up(j) \in DOMAIN table /\ rest[j] = table[up(j)]
          /\ up(k) \in DOMAIN table /\ rest[k] = table[up(k)]
          BY <1>3
    <2>2. up(j) = up(k)
          BY <1>4, <2>1 DEF Distinct
    <2> QED BY <1>1, <1>2, <2>2
<1>5. ASSUME NEW s, NEW l, Backs(table, s, l), s # table[i].slot
      PROVE  Backs(rest, s, l)
    <2>1. PICK j \in DOMAIN table :
              table[j].enabled /\ table[j].slot = s /\ table[j].loc = l
          BY <1>5 DEF Backs
    <2>2. j # i
          BY <1>5, <2>1
    <2> DEFINE k == IF j < i THEN j ELSE j - 1
    <2>3. k \in DOMAIN rest
          BY <1>1, <1>2, <2>2
    <2>4. rest[k] = table[j]
          BY <1>1, <1>3, <2>2, <2>3
    <2> QED BY <2>1, <2>3, <2>4 DEF Backs
<1> QED BY <1>4, <1>5 DEF Distinct

(* What step_past_all_watchpoints takes out and puts back.                 *)
LEMMA SlotsRearmed ==
    ASSUME NEW g \in WatchRegs, NEW T, NEW table \in Seq(Wp),
           NEW t \in Tid, NEW s \in Slot
    PROVE  /\ DisarmedAll(g, T, table)[t][s] \in {g[t][s], NoLoc}
           /\ \/ ArmedAll(g, T, table)[t][s] = g[t][s]
              \/ Backs(table, s, ArmedAll(g, T, table)[t][s])
           /\ t \notin T => /\ DisarmedAll(g, T, table)[t] = g[t]
                            /\ ArmedAll(g, T, table)[t] = g[t]
<1>1. DisarmedAll(g, T, table)[t][s] \in {g[t][s], NoLoc}
      BY DEF DisarmedAll, WatchRegs
<1>2. ASSUME t \in T, s \in UsedSlots(table)
      PROVE  Backs(table, s, ArmedAll(g, T, table)[t][s])
    <2>1. \E i \in DOMAIN table : table[i].enabled /\ table[i].slot = s
          BY <1>2 DEF UsedSlots
    <2>2. /\ EntryOf(table, s) \in DOMAIN table
          /\ table[EntryOf(table, s)].enabled /\ table[EntryOf(table, s)].slot = s
          BY <2>1 DEF EntryOf
    <2>3. ArmedAll(g, T, table)[t][s] = table[EntryOf(table, s)].loc
          BY <1>2 DEF ArmedAll, WatchRegs
    <2> QED BY <2>2, <2>3 DEF Backs
<1>3. ASSUME ~(t \in T /\ s \in UsedSlots(table))
      PROVE  ArmedAll(g, T, table)[t][s] = g[t][s]
      BY <1>3 DEF ArmedAll, WatchRegs
<1>4. ASSUME t \notin T
      PROVE  /\ DisarmedAll(g, T, table)[t] = g[t]
             /\ ArmedAll(g, T, table)[t] = g[t]
      BY <1>4 DEF DisarmedAll, ArmedAll, WatchRegs
<1> QED BY <1>1, <1>2, <1>3, <1>4

-----------------------------------------------------------------------------
(* The steps.                                                              *)

(* A step that touches neither the table, nor the registers, nor the set   *)
(* of threads, and creates no process.                                     *)
LEMMA WatchesUntouched ==
    ASSUME Watches, UNCHANGED <<wps, regs, thr, lastTid>>,
           run = "none" => run' = "none"
    PROVE  Watches'
    BY DEF Watches, Backed, Fresh

(* Without a process no register is armed: an empty or a disabled table is *)
(* as good as any.                                                         *)
LEMMA WatchesGone ==
    ASSUME TypeOK, TypeOK', Watches, run' = "none", wps' = AllDisabled(wps),
           \/ UNCHANGED <<regs, thr, lastTid>>
           \/ thr' = <<>> /\ UNCHANGED lastTid /\ regs' = [t \in Tid |-> NoRegs]
    PROVE  Watches'
<1>1. \A i \in DOMAIN wps' : ~wps'[i].enabled
      BY WpsDisabled DEF TypeOK, DebuggerTypeOK
<1>2. Distinct(wps') /\ Backed'
      BY <1>1 DEF Distinct, Backed
<1>3. Fresh'
      BY DEF Watches, Fresh, Live
<1> QED BY <1>2, <1>3 DEF Watches

(* The registers after a hit: the slots of all enabled entries are taken   *)
(* out of every thread, and put back after the step.                       *)
LEMMA WatchesRearmed ==
    ASSUME TypeOK, Watches, UNCHANGED <<wps, thr, lastTid>>, run # "none",
           \/ regs' = DisarmedAll(regs, Live(thr), wps)
           \/ regs' = ArmedAll(regs, Live(thr), wps)
    PROVE  Watches'
<1>0. regs \in WatchRegs /\ wps \in Seq(Wp) /\ Live(thr) \subseteq Tid /\ MaxTid \in Nat
      BY DebuggeeAssumption DEF TypeOK, DebuggeeTypeOK, DebuggerTypeOK, WatchRegs, Live
<1>1. ASSUME NEW t \in Live(thr), NEW s \in Slot, regs'[t][s] # NoLoc
      PROVE  Backs(wps, s, regs'[t][s])
    <2>1. t \in Tid
          BY <1>0
    <2>2. regs[t][s] # NoLoc => Backs(wps, s, regs[t][s])
          BY DEF Watches, Backed
    <2> QED BY <1>0, <1>1, <2>1, <2>2, SlotsRearmed
<1>2. ASSUME NEW t \in Tid, t > lastTid
      PROVE  regs'[t] = regs[t]
    <2>1. t \notin Live(thr)
          BY <1>2, DebuggeeAssumption DEF Watches, Fresh, TypeOK, DebuggeeTypeOK, Tid
    <2>2. CASE regs' = DisarmedAll(regs, Live(thr), wps)
          BY <2>1, <2>2, <1>0 DEF DisarmedAll, WatchRegs
    <2>3. CASE regs' = ArmedAll(regs, Live(thr), wps)
          BY <2>1, <2>3, <1>0 DEF ArmedAll, WatchRegs
    <2> QED BY <2>2, <2>3
<1>3. Backed'
      BY <1>1 DEF Backed
<1>4. Fresh'
      BY <1>2 DEF Watches, Fresh
<1> QED BY <1>3, <1>4 DEF Watches

(* A new process starts with no watchpoint and no register armed.          *)
LEMMA RunWatches ==
    ASSUME TypeOK, CmdRun
    PROVE  Watches'
<1>1. /\ wps' = <<>> /\ lastTid' = lastTid + 1 /\ thr' = <<lastTid + 1>>
      /\ regs' = [t \in Tid |-> NoRegs]
      BY DEF CmdRun, StartProcess, Spawn
<1>2. lastTid \in Nat
      BY DebuggeeAssumption DEF TypeOK, DebuggeeTypeOK
<1>3. Distinct(wps') /\ Fresh'
      BY <1>1, <1>2 DEF Distinct, Fresh, Live
<1>4. Live(thr') = {lastTid + 1}
      BY <1>1 DEF Live
<1>5. lastTid + 1 \in Tid
      BY <1>2, DebuggeeAssumption DEF CmdRun, StartProcess, Tid
<1>6. Backed'
      BY <1>1, <1>4, <1>5 DEF Backed, NoRegs
<1> QED BY <1>3, <1>6 DEF Watches

(* cmd_watch arms the new entry's slot on every thread.                    *)
LEMMA WatchWatches ==
    ASSUME TypeOK, Watches, NEW l \in Loc, CmdWatch(l)
    PROVE  Watches'
<1>0. /\ regs \in WatchRegs /\ wps \in Seq(Wp) /\ Live(thr) \subseteq Tid
      /\ UNCHANGED <<thr, lastTid, run>>
      BY DEF TypeOK, DebuggeeTypeOK, DebuggerTypeOK, WatchRegs, Live, CmdWatch, threadVars
<1>1. PICK s \in FreeWatchSlot(wps) :
          /\ wps' = Append(wps, [loc |-> l, slot |-> s, enabled |-> TRUE])
          /\ regs' = Armed(regs, Live(thr), s, l)
      BY DEF CmdWatch
<1>2. s \in Slot
      BY FreeSlotType
<1>3. /\ Distinct(wps') /\ Backs(wps', s, l)
      /\ \A r, m : Backs(wps, r, m) => Backs(wps', r, m)
      BY <1>0, <1>1, WatchAdded DEF Watches
<1>4. ASSUME NEW t \in Live(thr), NEW r \in Slot, run # "none", regs'[t][r] # NoLoc
      PROVE  Backs(wps', r, regs'[t][r])
    <2>1. regs'[t] = [regs[t] EXCEPT ![s] = l]
          BY <1>0, <1>1 DEF Armed, WatchRegs
    <2>2. CASE r = s
        <3>1. regs'[t][r] = l
              BY <1>0, <1>2, <2>1, <2>2 DEF WatchRegs
        <3> QED BY <1>3, <2>2, <3>1
    <2>3. CASE r # s
        <3>1. regs'[t][r] = regs[t][r]
              BY <1>0, <2>1, <2>3 DEF WatchRegs
        <3>2. Backs(wps, r, regs[t][r])
              BY <1>4, <3>1 DEF Watches, Backed
        <3> QED BY <1>3, <3>1, <3>2
    <2> QED BY <2>2, <2>3
<1>5. ASSUME NEW t \in Tid, t > lastTid
      PROVE  regs'[t] = NoRegs
    <2>1. t \notin Live(thr) /\ regs[t] = NoRegs
          BY <1>5, DebuggeeAssumption DEF Watches, Fresh, TypeOK, DebuggeeTypeOK, Tid
    <2> QED BY <1>0, <1>1, <2>1 DEF Armed, WatchRegs
<1>6. Backed' /\ Fresh'
      BY <1>0, <1>4, <1>5 DEF Backed, Fresh, Watches
<1> QED BY <1>3, <1>6 DEF Watches

(* delete_watchpoint_at disarms the entry's slot on every thread; the      *)
(* entries behind it move down and keep their slots.                       *)
LEMMA DelWatchWatches ==
    ASSUME Control, Watches, NEW i \in DOMAIN wps, CmdDelWatch(i)
    PROVE  Watches'
<1>0. /\ regs \in WatchRegs /\ wps \in Seq(Wp) /\ Live(thr) \subseteq Tid
      /\ UNCHANGED <<thr, lastTid, run>> /\ wps' = Without(wps, i)
      BY DEF Control, TypeOK, DebuggeeTypeOK, DebuggerTypeOK, WatchRegs, Live,
             CmdDelWatch, threadVars
<1>1. /\ Distinct(wps')
      /\ \A s, l : Backs(wps, s, l) /\ s # wps[i].slot => Backs(wps', s, l)
      BY <1>0, WatchDeleted DEF Watches
<1>2. wps[i].slot \in Slot
    <2>1. wps[i] \in Wp
          BY <1>0, TableFacts
    <2> QED BY <2>1 DEF Wp
<1>3. CASE state = "IDLE"
    <2>1. run' = "none"
          BY <1>0, <1>3 DEF Control, Phase
    <2>2. UNCHANGED regs
          BY <1>3 DEF CmdDelWatch
    <2> QED BY <1>0, <1>1, <2>1, <2>2 DEF Watches, Backed, Fresh
<1>4. CASE state # "IDLE"
    <2>1. regs' = Disarmed(regs, Live(thr), wps[i].slot)
          BY <1>4 DEF CmdDelWatch
    <2>2. ASSUME NEW t \in Live(thr), NEW r \in Slot, run # "none", regs'[t][r] # NoLoc
          PROVE  Backs(wps', r, regs'[t][r])
        <3>1. regs'[t] = [regs[t] EXCEPT ![wps[i].slot] = NoLoc]
              BY <1>0, <2>1 DEF Disarmed, Armed, WatchRegs
        <3>2. r # wps[i].slot
              BY <1>0, <1>2, <2>2, <3>1 DEF WatchRegs
        <3>3. regs'[t][r] = regs[t][r]
              BY <1>0, <3>1, <3>2 DEF WatchRegs
        <3>4. Backs(wps, r, regs[t][r])
              BY <2>2, <3>3 DEF Watches, Backed
        <3> QED BY <1>1, <3>2, <3>3, <3>4
    <2>3. ASSUME NEW t \in Tid, t > lastTid
          PROVE  regs'[t] = NoRegs
        <3>1. t \notin Live(thr) /\ regs[t] = NoRegs
              BY <2>3, DebuggeeAssumption
              DEF Watches, Fresh, Control, TypeOK, DebuggeeTypeOK, Tid
        <3> QED BY <1>0, <2>1, <3>1 DEF Disarmed, Armed, WatchRegs
    <2>4. Backed' /\ Fresh'
          BY <1>0, <2>2, <2>3 DEF Backed, Fresh, Watches
    <2> QED BY <1>1, <2>4 DEF Watches
<1> QED BY <1>3, <1>4

(* The commands.                                                           *)
LEMMA UserWatches ==
    ASSUME Control, TypeOK', Watches, UserStep
    PROVE  Watches'
<1> USE DEF kernelVars, threadVars
<1>1. CASE CmdRun
      BY <1>1, RunWatches DEF Control
<1>2. CASE CmdContinue
      BY <1>2, WatchesUntouched DEF CmdContinue, Continue, Resume, SingleStep
<1>3. CASE CmdSi
      BY <1>3, WatchesUntouched DEF CmdSi, SingleStep
<1>4. ASSUME NEW c, LineStep(c)
      PROVE  Watches'
      BY <1>4, WatchesUntouched DEF LineStep, Advance, Continue, Resume, SingleStep
<1>5. CASE CmdKill
      BY <1>5, WatchesGone DEF CmdKill, Reap, Control
<1>6. CASE CmdQuit
    <2>1. CASE Reap
          BY <1>6, <2>1, WatchesGone DEF CmdQuit, Reap, Control
    <2>2. CASE UNCHANGED kernelVars /\ ~(pid > 0 /\ state # "IDLE")
          BY <1>6, <2>2, WatchesGone DEF CmdQuit, Control, Phase
    <2> QED BY <1>6, <2>1, <2>2 DEF CmdQuit
<1>7. CASE CmdEof \/ CmdDelAll \/ CmdRegsFails
      BY <1>7, WatchesUntouched DEF CmdEof, CmdDelAll, CmdRegsFails
<1>8. ASSUME NEW x, CmdBreak(x) \/ SetPc(x) \/ CmdDel(x) \/ CmdThread(x)
      PROVE  Watches'
      BY <1>8, WatchesUntouched DEF CmdBreak, SetPc, CmdDel, CmdThread
<1>9. ASSUME NEW l \in Loc, CmdWatch(l)
      PROVE  Watches'
      BY <1>9, WatchWatches DEF Control
<1>10. ASSUME NEW i \in DOMAIN wps, CmdDelWatch(i)
       PROVE  Watches'
       BY <1>10, DelWatchWatches
<1> QED BY <1>1, <1>2, <1>3, <1>4, <1>5, <1>6, <1>7, <1>8, <1>9, <1>10
        DEF UserStep, CmdStep, CmdNext, CmdSetPc, CmdUp

(* A wait that found the process gone reaped it: the report disables a     *)
(* table nothing answers to any more.                                      *)
LEMMA ReportExitWatches ==
    ASSUME Control, TypeOK', Watches, at \in Waiting, rc = "exit",
           NEW n, ReportExit(n), UNCHANGED <<run, regs, thr, lastTid>>
    PROVE  Watches'
    BY WatchesGone DEF Control, Phase, ReportExit

(* What the debugger does by itself.                                       *)
LEMMA DebuggerWatches ==
    ASSUME Control, TypeOK', Watches, DebuggerStep
    PROVE  Watches'
<1> USE DEF kernelVars, threadVars, Waiting
<1>1. CASE CdbgWait
    <2>1. CASE Reap
        <3>1. /\ thr' = <<>> /\ UNCHANGED <<lastTid, wps>> /\ run' = "none"
              /\ regs' = [t \in Tid |-> NoRegs]
              BY <1>1, <2>1 DEF CdbgWait, Reap
        <3> QED BY <3>1 DEF Watches, Backed, Fresh, Live
    <2>2. CASE UNCHANGED <<run, threadVars, susp, regs>>
          BY <1>1, <2>2, WatchesUntouched DEF CdbgWait
    <2> QED BY <1>1, <2>1, <2>2 DEF CdbgWait
<1>2. CASE ExecReturned
      BY <1>2, ReportExitWatches, WatchesUntouched DEF ExecReturned, Resume
<1>3. CASE EntryReturned
      BY <1>3, ReportExitWatches, WatchesUntouched DEF EntryReturned
<1>4. CASE OverReturned
      BY <1>4, ReportExitWatches, WatchesUntouched DEF OverReturned, Resume
<1>5. CASE ResumeReturned
      BY <1>5, ReportExitWatches, WatchesUntouched DEF ResumeReturned
<1>6. CASE ReportBreak \/ ReportPlain
      BY <1>6, WatchesUntouched DEF ReportBreak, ReportPlain, Reporting
<1>7. CASE ReportWatch
      BY <1>7, WatchesRearmed
      DEF ReportWatch, Reporting, StepPastWatch, SingleStep, Control
<1>8. CASE WatchReturned
    <2>1. CASE rc = "exit"
          BY <1>8, <2>1, ReportExitWatches DEF WatchReturned
    <2>2. CASE rc = "fail"
          BY <1>8, <2>2, WatchesUntouched DEF WatchReturned
    <2>3. CASE rc = "ok"
          BY <1>8, <2>3, WatchesRearmed DEF WatchReturned, Control, Phase
    <2> QED BY <1>8, <2>1, <2>2, <2>3 DEF WatchReturned
<1>9. CASE StepFailed
      BY <1>9, ReportExitWatches, WatchesUntouched DEF StepFailed
<1>10. CASE CallReturned
       BY <1>10, ReportExitWatches, WatchesUntouched DEF CallReturned
<1>11. CASE LoopStops
       BY <1>11, WatchesUntouched DEF LoopStops
<1>12. CASE LoopWatch
       BY <1>12, WatchesRearmed DEF LoopWatch, StepPastWatch, SingleStep, Control
<1>13. CASE LoopAgain
       BY <1>13, WatchesUntouched DEF LoopAgain, Advance, Continue, Resume, SingleStep
<1> QED BY <1>1, <1>2, <1>3, <1>4, <1>5, <1>6, <1>7, <1>8, <1>9, <1>10, <1>11, <1>12, <1>13
        DEF DebuggerStep

(* Threads that start have no register armed; threads that end leave the   *)
(* set of those that count.                                                *)
LEMMA KernelWatches ==
    ASSUME Control, Watches, KernelStep
    PROVE  Watches'
<1>1. PICK t \in Tid : DebuggeeStep(t) /\ UNCHANGED debuggerVars
      BY DEF KernelStep
<1>2. UNCHANGED <<wps, regs>> /\ run # "none" /\ run' # "none"
      BY <1>1 DEF DebuggeeStep, TrapBrk, TrapWatch, SignalStop, StopWith, Executed, Plain,
                  SpawnThread, EndThread, EndProcess, Retired, Executes, Runnable,
                  debuggerVars
<1>3. thr \in Seq(Tid) /\ lastTid \in Nat
      BY DebuggeeAssumption DEF Control, TypeOK, DebuggeeTypeOK
<1>4. CASE UNCHANGED <<thr, lastTid>>
      BY <1>2, <1>4, WatchesUntouched
<1>5. CASE SpawnThread(t)
    <2>1. lastTid' = lastTid + 1 /\ thr' = Append(thr, lastTid + 1) /\ lastTid + 1 \in Tid
          BY <1>3, <1>5, DebuggeeAssumption DEF SpawnThread, Tid
    <2>2. Live(thr') = Live(thr) \cup {lastTid + 1}
          BY <1>3, <2>1, LiveAppended
    <2>3. regs[lastTid + 1] = NoRegs
          BY <1>3, <2>1 DEF Watches, Fresh
    <2>4. Backed'
          BY <1>2, <2>2, <2>3 DEF Watches, Backed, NoRegs
    <2>5. Fresh'
          BY <1>2, <1>3, <2>1, <2>2 DEF Watches, Fresh, Tid
    <2> QED BY <1>2, <2>4, <2>5 DEF Watches
<1>6. CASE EndThread(t)
    <2>1. PICK i \in DOMAIN thr : thr' = Without(thr, i)
          BY <1>6 DEF EndThread
    <2>2. Live(thr') \subseteq Live(thr) /\ UNCHANGED lastTid
          BY <1>3, <1>6, <2>1, LiveWithout DEF EndThread
    <2> QED BY <1>2, <2>2 DEF Watches, Backed, Fresh
<1> QED BY <1>1, <1>4, <1>5, <1>6
        DEF DebuggeeStep, TrapBrk, TrapWatch, SignalStop, StopWith, Executed, Plain,
            EndProcess, threadVars

(* Watches is an invariant.                                                *)
LEMMA WatchesInvariant == Spec => []Watches
<1>1. Init => Watches
      BY DebuggeeAssumption
      DEF Init, DebuggeeInit, DebuggerInit, Watches, Distinct, Backed, Fresh, Live
<1>2. Control /\ Control' /\ Watches /\ [Next]_vars => Watches'
    <2> SUFFICES ASSUME Control, Control', Watches, [Next]_vars
                 PROVE  Watches'
        OBVIOUS
    <2>1. TypeOK'
          BY DEF Control
    <2>2. CASE UNCHANGED vars
          BY <2>2, WatchesUntouched DEF vars, kernelVars, threadVars, debuggerVars
    <2> QED BY <2>1, <2>2, UserWatches, DebuggerWatches, KernelWatches DEF Next, Gone
<1> QED BY <1>1, <1>2, Controlled, PTL DEF Spec

(* A debug register is armed only for an enabled watchpoint with that slot *)
(* and location, on every thread at every moment, and no two enabled       *)
(* watchpoints share a slot: the table bookkeeping of cmd_watch,           *)
(* delete_watchpoint_at, step_past_all_watchpoints and                     *)
(* report_process_exit is right for any number of threads and slots.       *)
THEOREM WatchRegsCorrect == Spec => []WatchRegsAccounted
<1>1. Watches => WatchRegsAccounted
      BY DEF Watches, Distinct, Backed, Backs, WatchRegsAccounted
<1> QED BY <1>1, WatchesInvariant, PTL

-----------------------------------------------------------------------------
(* WatchNotMissed, of a program with one thread: a thread that starts has  *)
(* no register armed until some watchpoint is hit.  Guarded says that      *)
(* outside the step of step_past_all_watchpoints every entry of the table  *)
(* is armed, and that nothing can make the arming behind that step fail:   *)
(* the thread it selected is still there when the wait returns.            *)

OneThread == \A a \in Addr : Kind[a] # "spawn"

Guarded ==
    /\ Len(thr) <= 1
    /\ run # "none" => \A i \in DOMAIN wps : wps[i].enabled
    /\ run # "none" /\ at # "watch" =>
           \A i \in DOMAIN wps, t \in Live(thr) : regs[t][wps[i].slot] = wps[i].loc
    /\ run # "none" /\ at = "watch" => Selected
    /\ at = "watch" => rc # "fail"

\* What WatchNotMissed says of a step.
NotMissed ==
    \A t \in Tid : Executed(t) =>
        at = "watch" \/ \A i \in DOMAIN wps :
                            wps[i].enabled => wps[i].loc # Touch[pc[t]]

(* After step_past_all_watchpoints every enabled entry is armed again: the *)
(* slots are distinct, so none is armed for another one.                   *)
LEMMA ArmedBack ==
    ASSUME NEW g \in WatchRegs, NEW T, NEW table \in Seq(Wp), Distinct(table),
           NEW i \in DOMAIN table, table[i].enabled, NEW t \in Tid, t \in T
    PROVE  ArmedAll(g, T, table)[t][table[i].slot] = table[i].loc
<1>1. table[i].slot \in UsedSlots(table)
      BY DEF UsedSlots
<1>2. table[i] \in Wp
      BY TableFacts
<1>3. EntryOf(table, table[i].slot) = i
      BY DEF EntryOf, Distinct
<1> QED BY <1>1, <1>2, <1>3 DEF ArmedAll, WatchRegs, Wp

(* A step that leaves the table, the registers, the selection and the      *)
(* threads alone and is not about the step past the watchpoints.           *)
LEMMA GuardedUntouched ==
    ASSUME Guarded, UNCHANGED <<wps, regs, thr>>, run = "none" => run' = "none",
           at # "watch", at' # "watch"
    PROVE  Guarded'
    BY DEF Guarded

(* Without a process there is nothing to guard.                            *)
LEMMA GuardedGone ==
    ASSUME Guarded, run' = "none", thr' \in {thr, <<>>}, at' # "watch" \/ rc' # "fail"
    PROVE  Guarded'
    BY DEF Guarded

(* cmd_watch arms the new entry and keeps the others armed.                *)
LEMMA WatchGuarded ==
    ASSUME TypeOK, Guarded, NEW l \in Loc, CmdWatch(l)
    PROVE  Guarded'
<1>0. /\ regs \in WatchRegs /\ wps \in Seq(Wp) /\ Live(thr) \subseteq Tid
      /\ UNCHANGED <<run, thr, at>> /\ at = "prompt"
      BY DEF TypeOK, DebuggeeTypeOK, DebuggerTypeOK, WatchRegs, Live, CmdWatch, threadVars,
             Command
<1>1. PICK s \in FreeWatchSlot(wps) :
          /\ wps' = Append(wps, [loc |-> l, slot |-> s, enabled |-> TRUE])
          /\ regs' = Armed(regs, Live(thr), s, l)
      BY DEF CmdWatch
<1>2. s \in Slot
      BY FreeSlotType
<1>3. \A i \in DOMAIN wps : wps[i] \in Wp
      BY <1>0, TableFacts
<1>4. /\ DOMAIN wps' = DOMAIN wps \cup {Len(wps) + 1}
      /\ \A i \in DOMAIN wps : wps'[i] = wps[i]
      /\ wps'[Len(wps) + 1] = [loc |-> l, slot |-> s, enabled |-> TRUE]
      BY <1>0, <1>1
<1>5. ASSUME run # "none", NEW i \in DOMAIN wps', NEW t \in Live(thr)
      PROVE  wps'[i].enabled /\ regs'[t][wps'[i].slot] = wps'[i].loc
    <2>1. regs'[t] = [regs[t] EXCEPT ![s] = l] /\ regs[t] \in [Slot -> Loc \cup {NoLoc}]
          BY <1>0, <1>1 DEF Armed, WatchRegs
    <2>2. CASE i \in DOMAIN wps
        <3>1. wps[i].enabled /\ regs[t][wps[i].slot] = wps[i].loc
              BY <1>0, <1>5, <2>2 DEF Guarded
        <3>2. wps[i].slot # s
              BY <2>2, <3>1 DEF FreeWatchSlot, UsedSlots
        <3> QED BY <1>3, <1>4, <2>1, <2>2, <3>1, <3>2 DEF Wp
    <2>3. CASE i = Len(wps) + 1
          BY <1>2, <1>4, <2>1, <2>3
    <2> QED BY <1>4, <2>2, <2>3
<1>6. ASSUME run # "none", NEW i \in DOMAIN wps'
      PROVE  wps'[i].enabled
      BY <1>0, <1>4, <1>6 DEF Guarded
<1> QED BY <1>0, <1>5, <1>6 DEF Guarded

(* delete_watchpoint_at disarms the slot of its entry only: all entries    *)
(* are enabled, and so no other has that slot.                             *)
LEMMA DelWatchGuarded ==
    ASSUME Control, Watches, Guarded, NEW i \in DOMAIN wps, CmdDelWatch(i)
    PROVE  Guarded'
<1>0. /\ regs \in WatchRegs /\ wps \in Seq(Wp) /\ Live(thr) \subseteq Tid
      /\ UNCHANGED <<run, thr, at>> /\ at = "prompt" /\ wps' = Without(wps, i)
      BY DEF Control, TypeOK, DebuggeeTypeOK, DebuggerTypeOK, WatchRegs, Live,
             CmdDelWatch, threadVars, Command
<1>1. /\ Len(wps) \in Nat /\ DOMAIN wps = 1 .. Len(wps) /\ i \in 1 .. Len(wps)
      /\ \A k \in DOMAIN wps : wps[k] \in Wp
      BY <1>0, TableFacts
<1>2. CASE run = "none"
      BY <1>0, <1>2, GuardedGone
<1>3. CASE run # "none"
    <2>1. regs' = Disarmed(regs, Live(thr), wps[i].slot)
          BY <1>3 DEF CmdDelWatch, Control, Phase
    <2>2. ASSUME NEW k \in DOMAIN wps'
          PROVE  \E j \in DOMAIN wps : j # i /\ wps'[k] = wps[j]
        <3>1. k \in 1 .. (Len(wps) - 1)
              BY <1>0 DEF Without
        <3>2. CASE k < i
              BY <1>0, <1>1, <3>1, <3>2 DEF Without
        <3>3. CASE ~(k < i)
            <4>1. k + 1 \in DOMAIN wps /\ k + 1 # i
                  BY <1>1, <3>1, <3>3
            <4>2. wps'[k] = wps[k + 1]
                  BY <1>0, <3>1, <3>3 DEF Without
            <4> QED BY <4>1, <4>2
        <3> QED BY <3>2, <3>3
    <2>3. ASSUME NEW j \in DOMAIN wps, j # i, NEW t \in Live(thr)
          PROVE  regs'[t][wps[j].slot] = wps[j].loc
        <3>1. wps[j].slot # wps[i].slot
              BY <1>3, <2>3 DEF Guarded, Watches, Distinct
        <3>2. regs'[t] = [regs[t] EXCEPT ![wps[i].slot] = NoLoc]
              BY <1>0, <2>1 DEF Disarmed, Armed, WatchRegs
        <3>3. regs[t][wps[j].slot] = wps[j].loc
              BY <1>0, <1>3 DEF Guarded
        <3> QED BY <1>0, <1>1, <3>1, <3>2, <3>3 DEF WatchRegs, Wp
    <2> QED BY <1>0, <1>3, <2>2, <2>3 DEF Guarded
<1> QED BY <1>2, <1>3

(* The commands.                                                           *)
LEMMA UserGuarded ==
    ASSUME Control, Watches, Guarded, UserStep
    PROVE  Guarded'
<1> USE DEF kernelVars, threadVars, Command, Resuming, Control, Phase, Die
<1>1. CASE CmdRun
    <2>1. wps' = <<>> /\ thr' = <<lastTid + 1>> /\ at' = "exec"
          BY <1>1 DEF CmdRun, StartProcess, Spawn
    <2> QED BY <2>1 DEF Guarded
<1>2. CASE CmdContinue
      BY <1>2, GuardedUntouched DEF CmdContinue, Continue, Resume, SingleStep
<1>3. CASE CmdSi
      BY <1>3, GuardedUntouched DEF CmdSi, SingleStep
<1>4. ASSUME NEW c, LineStep(c)
      PROVE  Guarded'
      BY <1>4, GuardedUntouched DEF LineStep, Advance, Continue, Resume, SingleStep
<1>5. CASE CmdKill
      BY <1>5, GuardedGone DEF CmdKill, Reap
<1>6. CASE CmdQuit
      BY <1>6, GuardedGone DEF CmdQuit, Reap
<1>7. CASE CmdEof \/ CmdDelAll \/ CmdRegsFails
      BY <1>7, GuardedUntouched DEF CmdEof, CmdDelAll, CmdRegsFails
<1>8. ASSUME NEW x, CmdBreak(x) \/ CmdSetPc(x) \/ CmdUp(x) \/ CmdDel(x) \/ CmdThread(x)
      PROVE  Guarded'
      BY <1>8, GuardedUntouched DEF CmdBreak, CmdSetPc, CmdUp, SetPc, CmdDel, CmdThread
<1>9. ASSUME NEW l \in Loc, CmdWatch(l)
      PROVE  Guarded'
      BY <1>9, WatchGuarded
<1>10. ASSUME NEW i \in DOMAIN wps, CmdDelWatch(i)
       PROVE  Guarded'
       BY <1>10, DelWatchGuarded
<1> QED BY <1>1, <1>2, <1>3, <1>4, <1>5, <1>6, <1>7, <1>8, <1>9, <1>10
        DEF UserStep, CmdStep, CmdNext

(* A report that the process is gone.                                      *)
LEMMA ReportExitGuarded ==
    ASSUME Control, Guarded, at \in Waiting, rc = "exit", at' # "watch",
           UNCHANGED <<run, thr>>
    PROVE  Guarded'
    BY GuardedGone DEF Control, Phase

(* What the debugger does by itself: the registers are disarmed on the way *)
(* into the step past the watchpoints and armed on the way out.            *)
LEMMA DebuggerGuarded ==
    ASSUME Control, Watches, Guarded, DebuggerStep
    PROVE  Guarded'
<1> USE DEF kernelVars, threadVars, Waiting, Back, Die, RunFailed, AfterReport
<1>1. CASE CdbgWait
    <2>1. CASE Reap
          BY <1>1, <2>1, GuardedGone DEF CdbgWait, Reap
    <2>2. CASE run = "stopped" /\ UNCHANGED <<run, threadVars, susp, regs>>
        <3>1. at = "watch" => rc' # "fail"
              BY <1>1, <2>2 DEF CdbgWait, Guarded
        <3> QED BY <1>1, <2>2, <3>1 DEF CdbgWait, Guarded, Selected
    <2> QED BY <1>1, <2>1, <2>2 DEF CdbgWait
<1>2. CASE ExecReturned
      BY <1>2, ReportExitGuarded, GuardedUntouched DEF ExecReturned, Resume, Control, Phase
<1>3. CASE EntryReturned
      BY <1>3, ReportExitGuarded, GuardedUntouched DEF EntryReturned
<1>4. CASE OverReturned
      BY <1>4, ReportExitGuarded, GuardedUntouched DEF OverReturned, Resume
<1>5. CASE ResumeReturned
      BY <1>5, ReportExitGuarded, GuardedUntouched DEF ResumeReturned
<1>6. CASE ReportBreak \/ ReportPlain
      BY <1>6, GuardedUntouched DEF ReportBreak, ReportPlain, Reporting
<1>7. CASE ReportWatch
    <2>1. /\ UNCHANGED <<thr, wps>> /\ at' = "watch" /\ rc' = "wait" /\ run = "stopped"
          /\ cur' = NewCur /\ Resolves(thr, NewCur)
          BY <1>7 DEF ReportWatch, Reporting, IsWatchStop, StepPastWatch, SingleStep
    <2> QED BY <2>1 DEF Guarded, Selected
<1>8. CASE WatchReturned
    <2>1. CASE rc = "exit"
          BY <1>8, <2>1, ReportExitGuarded DEF WatchReturned
    <2>2. CASE rc = "fail"
          BY <1>8, <2>2 DEF WatchReturned, Guarded
    <2>3. CASE rc = "ok"
        <3>0. /\ regs \in WatchRegs /\ wps \in Seq(Wp) /\ Live(thr) \subseteq Tid
              BY DEF Control, TypeOK, DebuggeeTypeOK, DebuggerTypeOK, WatchRegs, Live
        <3>1. /\ UNCHANGED <<run, thr, wps>> /\ at' # "watch" /\ run # "none"
              /\ regs' = ArmedAll(regs, Live(thr), wps)
              BY <1>8, <2>3 DEF WatchReturned, Control, Phase
        <3>2. ASSUME NEW i \in DOMAIN wps, NEW t \in Live(thr)
              PROVE  regs'[t][wps[i].slot] = wps[i].loc
              BY <3>0, <3>1, ArmedBack DEF Guarded, Watches
        <3> QED BY <3>1, <3>2 DEF Guarded
    <2> QED BY <1>8, <2>1, <2>2, <2>3 DEF WatchReturned
<1>9. CASE StepFailed
      BY <1>9, ReportExitGuarded, GuardedUntouched DEF StepFailed
<1>10. CASE CallReturned
       BY <1>10, ReportExitGuarded, GuardedUntouched DEF CallReturned
<1>11. CASE LoopStops
       BY <1>11, GuardedUntouched DEF LoopStops, InLoop
<1>12. CASE LoopWatch
       BY <1>12 DEF LoopWatch, StepPastWatch, SingleStep, Guarded, Selected
<1>13. CASE LoopAgain
       BY <1>13, GuardedUntouched DEF LoopAgain, InLoop, Advance, Continue, Resume, SingleStep
<1> QED BY <1>1, <1>2, <1>3, <1>4, <1>5, <1>6, <1>7, <1>8, <1>9, <1>10, <1>11, <1>12, <1>13
        DEF DebuggerStep

(* A single thread starts no other one and ends only with the process.     *)
LEMMA ThreadStays ==
    ASSUME OneThread, TypeOK, Len(thr) <= 1, NEW t \in Tid, DebuggeeStep(t)
    PROVE  UNCHANGED <<thr, regs, text>> /\ run \in {"step", "cont"} /\ run' # "none"
<1>1. pc[t] \in Addr /\ Len(thr) \in Nat
      BY DEF TypeOK, DebuggeeTypeOK
<1>2. ~SpawnThread(t)
      BY <1>1 DEF SpawnThread, OneThread
<1>3. ~EndThread(t)
      BY <1>1 DEF EndThread
<1> QED BY <1>2, <1>3
        DEF DebuggeeStep, TrapBrk, TrapWatch, SignalStop, StopWith, Executed, Executes,
            Runnable, Plain, EndProcess, Retired, threadVars

(* An armed register stops the access before it is made.                   *)
LEMMA KernelGuarded ==
    ASSUME OneThread, Control, Guarded, KernelStep
    PROVE  Guarded'
<1>1. PICK t \in Tid : DebuggeeStep(t) /\ UNCHANGED debuggerVars
      BY DEF KernelStep
<1>2. UNCHANGED <<thr, regs>> /\ run # "none" /\ run' # "none"
      BY <1>1, ThreadStays DEF Control, Guarded
<1> QED BY <1>1, <1>2 DEF Guarded, Selected, debuggerVars

LEMMA GuardedCatches ==
    ASSUME TypeOK, Guarded
    PROVE  NotMissed
<1> SUFFICES ASSUME NEW t \in Tid, Executed(t), at # "watch",
                    NEW i \in DOMAIN wps, wps[i].loc = Touch[pc[t]]
             PROVE  FALSE
    BY DEF NotMissed
<1>1. wps[i] \in Wp
      BY TableFacts DEF TypeOK, DebuggerTypeOK
<1>2. t \in Live(thr) /\ run # "none" /\ ~Watched(t)
      BY DEF Executed, Plain, SpawnThread, EndThread, EndProcess, Executes, Runnable
<1>3. regs[t][wps[i].slot] = Touch[pc[t]]
      BY <1>2 DEF Guarded
<1> QED BY <1>1, <1>2, <1>3, WatchAssumption DEF Watched, Wp

(* No access to a watched location of a program with one thread goes       *)
(* unnoticed: outside the reported step of step_past_all_watchpoints no    *)
(* instruction that touches one is executed, whatever commands, signals,   *)
(* deletions, breakpoints and new runs come in between.                    *)
THEOREM WatchesCaught ==
    ASSUME OneThread
    PROVE  Spec => WatchNotMissed
<1>1. Init => Guarded
      BY DEF Init, DebuggeeInit, DebuggerInit, Guarded
<1>2. Control /\ Watches /\ Guarded /\ [Next]_vars => Guarded' /\ [NotMissed]_vars
    <2> SUFFICES ASSUME Control, Watches, Guarded, [Next]_vars
                 PROVE  Guarded' /\ NotMissed
        OBVIOUS
    <2>1. NotMissed
          BY GuardedCatches DEF Control
    <2>2. CASE UNCHANGED vars
          BY <2>1, <2>2 DEF Guarded, Selected, vars, kernelVars, threadVars, debuggerVars
    <2>3. CASE UserStep \/ DebuggerStep
          BY <2>1, <2>3, UserGuarded, DebuggerGuarded
    <2>4. CASE KernelStep
          BY <2>1, <2>4, KernelGuarded
    <2> QED BY <2>2, <2>3, <2>4 DEF Next, Gone
<1>3. [][NotMissed]_vars => WatchNotMissed
      BY PTL DEF NotMissed, WatchNotMissed
<1> QED BY <1>1, <1>2, <1>3, Controlled, WatchesInvariant, PTL DEF Spec
=============================================================================
