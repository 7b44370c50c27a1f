---------------------------- MODULE MachThreads ----------------------------
(***************************************************************************)
(* threads.c: the debuggee's threads as the debugger addresses them.       *)
(*                                                                         *)
(* A thread is named by its stable thread_id, never reused, and 0 stands   *)
(* for the primary thread, the first that task_threads() returns.  `thr`   *)
(* is the sequence task_threads() returns; it is empty when there is no    *)
(* process, where task_for_pid fails.  `susp` is the kernel's suspend      *)
(* count of each thread: a thread runs only when it is 0.                  *)
(***************************************************************************)
EXTENDS Naturals, Sequences

CONSTANT MaxTid   \* bound: thread ids handed out over all runs

Tid == 1 .. MaxTid

Live(thr) == {thr[i] : i \in DOMAIN thr}

\* cdbg_threads_resolve_port finds a port for tid.
Resolves(thr, tid) == thr # <<>> /\ (tid = 0 \/ tid \in Live(thr))

\* The thread that tid resolves to.
Resolved(thr, tid) == IF tid = 0 THEN thr[1] ELSE tid

(* suspend_or_resume_others.  A keep_tid that names no thread keeps none:  *)
(* then every thread is suspended or resumed.  thread_resume on a thread   *)
(* that is not suspended fails and changes nothing.                        *)
Others(thr, keep) == Live(thr) \ (IF thr = <<>> THEN {} ELSE {Resolved(thr, keep)})

SuspendOthers(susp, thr, keep) ==
    [t \in Tid |-> IF t \in Others(thr, keep) THEN susp[t] + 1 ELSE susp[t]]

\* Mutation: the count is not checked.
ResumeUnchecked(susp, thr, keep) ==
    [t \in Tid |-> IF t \in Others(thr, keep) THEN susp[t] - 1 ELSE susp[t]]

ResumeOthers(susp, thr, keep) ==
    [t \in Tid |-> IF t \in Others(thr, keep) /\ susp[t] > 0
                   THEN susp[t] - 1 ELSE susp[t]]

\* The first thread, in task_threads() order, that satisfies the predicate
\* given as a set; 0 when there is none (the scans of find_*_hit_thread).
FirstIn(thr, S) ==
    LET First == {i \in DOMAIN thr : /\ thr[i] \in S
                                     /\ \A j \in 1 .. (i - 1) : thr[j] \notin S}
    IN  IF First = {} THEN 0 ELSE thr[CHOOSE i \in First : TRUE]
=============================================================================
