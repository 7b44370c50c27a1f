-------------------------- MODULE DebuggeeLifecycle --------------------------
(***************************************************************************)
(* The state machine of a debug session (cdbg_state_t, debugger.h; the     *)
(* diagram of docs/02 section 4): what `state` promises about the process. *)
(*                                                                         *)
(* `state` is the debugger's view and `proc` the kernel's: a process is    *)
(* stopped, running, or has exited and is not reaped.  The debugger        *)
(* resumes, steps or kills only a process it knows to be stopped, and it   *)
(* learns of a stop or an exit only by waiting for it.                     *)
(***************************************************************************)
VARIABLES state, proc

vars == <<state, proc>>

Init == state = "IDLE" /\ proc = "none"

\* run: start a process; a stopped one is killed and reaped first.
Launch ==
    /\ state \in {"IDLE", "STOPPED"}
    /\ state' = "RUNNING"
    /\ proc' \in {"stopped", "exited"}

\* PT_CONTINUE, PT_STEP.
Resume ==
    /\ state = "STOPPED" /\ proc = "stopped"
    /\ state' = "RUNNING" /\ proc' = "running"

\* The process stops or exits.
Halt ==
    /\ state = "RUNNING" /\ proc = "running"
    /\ proc' \in {"stopped", "exited"}
    /\ UNCHANGED state

\* waitpid returns.
Wait ==
    /\ state = "RUNNING"
    /\ \/ proc = "stopped" /\ state' = "STOPPED" /\ UNCHANGED proc
       \/ proc = "exited" /\ state' = "IDLE" /\ proc' = "none"

\* kill, quit.
Kill ==
    /\ state = "STOPPED" /\ proc = "stopped"
    /\ state' = "IDLE" /\ proc' = "none"

Next == Launch \/ Resume \/ Halt \/ Wait \/ Kill

Spec == Init /\ [][Next]_vars
=============================================================================
