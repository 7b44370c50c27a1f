----------------------------- MODULE DocClaims -----------------------------
(***************************************************************************)
(* What the documents and comments of the repository say of the debugger   *)
(* and the code does not do.  Each is checked by a run of its own, on the  *)
(* smallest set of commands that shows the disagreement.  A further one,   *)
(* that a passed breakpoint is in place again, is NeverRunThrough under    *)
(* signals.                                                                *)
(***************************************************************************)
EXTENDS Repl

(* docs/04 release list: a breakpoint deleted with del is not hit again.   *)
(* A second breakpoint at the address saved the BRK of the first.          *)
DeletedNeverHit ==
    at = "prompt" /\ state = "STOPPED" =>
        \A a \in Addr : text[a] = "brk" => \E i \in DOMAIN bps : bps[i].addr = a

(* docs/04 TC-02-03: run again stops before main again.  current_tid keeps *)
(* the id of a thread of the old process and run_to_entry_stop fails.      *)
RerunFindsThread == at = "entry" /\ rc = "ok" => Selected

(* The comment of cdbg_single_step: siblings are left running freely,      *)
(* since freezing them made waitpid hang.  report_stop freezes them, and   *)
(* with a stop attributed to another thread, the stepping one too.         *)
StepCanRun == run = "step" => \E t \in Tid : Runnable(t)

(* docs/04 TC-02-04: continue to the end reports the exit.  When the       *)
(* process ends in the step over a breakpoint, the debugger goes away with *)
(* the pid kept and the end untold.                                        *)
ExitReported ==
    at \in {"prompt", "quit", "failed"} /\ state = "IDLE" => pid = 0
=============================================================================
