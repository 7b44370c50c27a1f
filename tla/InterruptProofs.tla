--------------------------- MODULE InterruptProofs ---------------------------
(***************************************************************************)
(* Whom Ctrl-C strikes and what the prompt finds, for any number of runs   *)
(* and rounds.  Neither StrikesChild nor PromptTrue is inductive: they     *)
(* rest on what state, pid and the process are at every single step of a   *)
(* command, which Inv says, piece by piece.                                *)
(***************************************************************************)
EXTENDS Interrupt, TLAPS

\* state is RUNNING from its assignment before a wait to the one after it.
RunningInv ==
    /\ state \in {"IDLE", "RUNNING", "STOPPED"}
    /\ at \in {"wait", "setstate"} => state = "RUNNING"
    /\ state = "RUNNING" => at \in {"wait", "setstate", "killed"}
    /\ at = "install" => state = "STOPPED"

\* The pid is the one of the latest process, or 0.
PidInv ==
    /\ runs \in Nat /\ pid \in {0, runs}
    /\ at \in {"start", "fork", "clearstate"} => pid = 0
    /\ at \in {"setrunning", "wait", "setstate", "resume"} => pid = runs
    /\ at \in {"after", "prompt", "install"} /\ state # "IDLE" => pid = runs
    /\ at = "prompt" /\ state = "IDLE" => pid = 0
    /\ at \in {"setpid", "setrunning", "wait", "setstate", "resume"} => runs > 0
    /\ at \in {"after", "prompt", "install"} /\ state # "IDLE" => runs > 0

\* What the process may be.
ChildInv ==
    /\ news => child \in {"stopped", "zombie"}
    /\ at \in {"setpid", "setrunning", "wait"} =>
          child \in {"forked", "stopped", "running", "zombie"}
    /\ at \in {"detach", "resume"} => child = "stopped" /\ state = "STOPPED" /\ ~ news
    /\ at \in {"after", "prompt", "install"} /\ state # "IDLE" => child = "stopped" /\ ~ news
    /\ at = "setstate" => child = (IF ended THEN "none" ELSE "stopped") /\ ~ news
    /\ at = "sigkill" => child \in {"free", "zombie"}
    /\ at \in {"after", "prompt", "install"} /\ state = "IDLE" => child = "none"
    /\ at \in {"start", "fork", "clearpid", "clearstate", "report"} => child = "none"
    /\ at \in {"start", "fork", "setpid", "report"} => state = "IDLE"
    /\ at = "left" /\ cmd = "quit" => child = "none"

Inv == RunningInv /\ PidInv /\ ChildInv /\ StrikesChild

-----------------------------------------------------------------------------
(* Inv, one lemma for each part of Next.                                   *)

(* A command begins at the prompt or in main, and changes neither state    *)
(* nor pid nor the process.                                                *)
LEMMA UserInv ==
    ASSUME Inv, User
    PROVE  Inv'
<1> USE DEF Inv, RunningInv, PidInv, ChildInv, StrikesChild, Goto, StopFirst, SameChild,
            kernel, shared
<1>1. CASE Run
      BY <1>1 DEF Run
<1>2. CASE Eof
      BY <1>2 DEF Eof
<1>3. ASSUME NEW c \in {"kill", "quit"}, Kill(c)
      PROVE  Inv'
      BY <1>3 DEF Kill
<1>4. ASSUME NEW c, Go(c)
      PROVE  Inv'
      BY <1>4 DEF Go
<1> QED BY <1>1, <1>2, <1>3, <1>4 DEF User

(* Every system call and every assignment of the debugger keeps state, pid *)
(* and process together, in the order they are made.                       *)
LEMMA DebuggerInv ==
    ASSUME Inv, Debugger
    PROVE  Inv'
<1> USE DEF Inv, RunningInv, PidInv, ChildInv, StrikesChild, Goto, SameChild, Becomes,
            local, kernel, shared
<1>1. CASE Detach \/ SigKill \/ Reap
      BY <1>1 DEF Detach, SigKill, Reap
<1>2. CASE ClearPid \/ ClearState
      BY <1>2 DEF ClearPid, ClearState
<1>3. CASE Fork \/ SetPid \/ SetRunning
      BY <1>3 DEF Fork, SetPid, SetRunning
<1>4. CASE Resume
      BY <1>4 DEF Resume
<1>5. CASE Wait
      BY <1>5 DEF Wait
<1>6. CASE SetState
      BY <1>6 DEF SetState
<1>7. CASE AfterEnd \/ Report
      BY <1>7 DEF AfterEnd, Report
<1>8. CASE AfterStop
      BY <1>8 DEF AfterStop, Finished
<1>9. CASE Install
      BY <1>9 DEF Install
<1> QED BY <1>1, <1>2, <1>3, <1>4, <1>5, <1>6, <1>7, <1>8, <1>9 DEF Debugger

(* The process runs, stops and ends only where the debugger waits or       *)
(* reaps, whatever signals it takes.                                       *)
LEMMA DebuggeeInv ==
    ASSUME Inv, Debuggee
    PROVE  Inv'
<1> USE DEF Inv, RunningInv, PidInv, ChildInv, StrikesChild, ByItself, Becomes,
            local, shared
<1>1. CASE Execs
      BY <1>1 DEF Execs
<1>2. CASE StopsItself \/ Exits
      BY <1>2 DEF StopsItself, Exits
<1>3. CASE TakesInterrupt
      BY <1>3 DEF TakesInterrupt
<1> QED BY <1>1, <1>2, <1>3 DEF Debuggee

(* The handler finds RUNNING only where pid is the process it should go    *)
(* to, or has just been reaped.                                            *)
LEMMA CtrlCInv ==
    ASSUME Inv, CtrlC
    PROVE  Inv'
<1> USE DEF Inv, RunningInv, PidInv, ChildInv, StrikesChild, CtrlC, Ends, local, shared
<1>1. CASE ~ handler
      BY <1>1
<1>2. CASE handler
    <2>1. CASE state = "RUNNING"
        <3>1. pid = runs /\ pid # 0 /\ at \in {"wait", "setstate"}
              BY <2>1
        <3>2. Target \in {"child", "reaped"} /\ (Target = "reaped" => at = "setstate")
              BY <3>1 DEF Target
        <3> QED BY <1>2, <2>1, <3>2
    <2>2. CASE state # "RUNNING"
          BY <1>2, <2>2
    <2> QED BY <2>1, <2>2
<1> QED BY <1>1, <1>2

-----------------------------------------------------------------------------
(* At every point of every command, wherever Ctrl-C falls, state and pid   *)
(* are as far along as the process is.                                     *)
THEOREM InterruptInvariant == Spec => []Inv
<1>1. Init => Inv
      BY DEF Init, Inv, RunningInv, PidInv, ChildInv, StrikesChild
<1>2. ASSUME Inv, [Next]_vars
      PROVE  Inv'
    <2>1. CASE UNCHANGED vars
          BY <1>2, <2>1 DEF vars, local, shared, kernel, Inv, RunningInv, PidInv, ChildInv,
                            StrikesChild
    <2>2. CASE Over
          BY <1>2, <2>2 DEF Over, vars, local, shared, kernel, Inv, RunningInv, PidInv,
                            ChildInv, StrikesChild
    <2> QED BY <1>2, <2>1, <2>2, UserInv, DebuggerInv, DebuggeeInv, CtrlCInv DEF Next
<1> QED BY <1>1, <1>2, PTL DEF Spec

(* The handler strikes the process of this run, or between waitpid and the *)
(* assignment of state the pid just reaped; never the process group of the *)
(* debugger, never an earlier process.                                     *)
THEOREM StrikesCorrect == Spec => []StrikesChild
<1>1. Inv => StrikesChild
      BY DEF Inv
<1> QED BY <1>1, InterruptInvariant, PTL

(* What the debugger believes at the prompt is so, and quit leaves no      *)
(* process, however many Ctrl-C there were.                                *)
THEOREM PromptStaysTrue == Spec => []PromptTrue
<1>1. Inv => PromptTrue
    <2>1. ASSUME Inv, at = "prompt", state # "IDLE"
          PROVE  state = "STOPPED" /\ child = "stopped" /\ pid = runs /\ ~ news
          BY <2>1 DEF Inv, RunningInv, PidInv, ChildInv
    <2>2. ASSUME Inv, at = "prompt", state = "IDLE"
          PROVE  child = "none" /\ pid = 0
          BY <2>2 DEF Inv, PidInv, ChildInv
    <2> QED BY <2>1, <2>2 DEF Inv, ChildInv, PromptTrue
<1> QED BY <1>1, InterruptInvariant, PTL
=============================================================================
