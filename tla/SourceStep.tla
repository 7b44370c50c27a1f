----------------------------- MODULE SourceStep -----------------------------
(***************************************************************************)
(* cdbg_step_next_line and cdbg_next_source_line: repeat PT_STEP until the *)
(* source line changes.  `next` puts a temporary breakpoint behind a BL    *)
(* instruction and continues to it instead of stepping into the call.      *)
(***************************************************************************)
EXTENDS Debugger

CONSTANTS
    Line,       \* the source line of an address; 0 when it has none
    Call,       \* the addresses that hold a BL instruction
    Ret,        \* the address behind each of them
    StepLimit   \* CDBG_MAX_STEP_ITERATIONS

ASSUME SourceStepAssumption ==
    /\ Line \in [Addr -> Nat]
    /\ Call \subseteq Addr
    /\ Ret \in [Call -> Addr]
    /\ \A c \in Call : Ret[c] # c       \* pc + 4
    /\ StepLimit \in Nat \ {0}

\* call_return_address: a BRK over the BL hides it.
CallAt(a) == a \in Call /\ text[a] = "orig"

\* The first half of the loop's body for command c: cdbg_single_step, or
\* step_over_call up to the wait.
Advance(c) ==
    IF c = "next" /\ CallAt(CurPc)
    THEN /\ temp' = EnabledBp(text, Ret[CurPc])
         /\ text' = WithTrap(text, Ret[CurPc])
         /\ Continue("call")
         /\ UNCHANGED regs
    ELSE /\ SingleStep("step")
         /\ UNCHANGED <<temp, text, susp, regs>>

\* The command itself.  A thread without line information is stepped once.
LineStep(c) ==
    /\ at = "prompt" /\ state # "IDLE"
    /\ \/ ~Selected /\ Die /\ UNCHANGED <<kernelVars, state, rc, loopVars>>
       \/ /\ Selected /\ cmd' = c
          /\ IF Line[CurPc] = 0
             THEN /\ SingleStep("resumed")
                  /\ UNCHANGED <<susp, text, regs, loopVars>>
             ELSE Advance(c) /\ line0' = Line[CurPc] /\ iter' = 0
          /\ UNCHANGED threadVars
    /\ UNCHANGED <<procVars, cur, bps, wps, ret>>

\* The wait of the loop's PT_STEP ended without a stop.
\* Mutation: an exit is reported by the loop and by the REPL.
StepFailedTwice ==
    /\ at = "step"
    /\ \/ rc = "exit" /\ ReportExit(2) /\ Back
       \/ rc = "fail" /\ Die /\ UNCHANGED <<procVars, bps, wps>>
    /\ UNCHANGED <<kernelVars, state, cur, rc, ret, loopVars>>

\* Mutation: an exit is not reported.
StepFailedSilently ==
    /\ at = "step" /\ rc \in {"exit", "fail"}
    /\ Back
    /\ UNCHANGED <<procVars, bps, wps>>
    /\ UNCHANGED <<kernelVars, state, cur, rc, ret, loopVars>>

StepFailed ==
    /\ at = "step"
    /\ \/ rc = "exit" /\ ReportExit(1) /\ Back
       \/ rc = "fail" /\ Die /\ UNCHANGED <<procVars, bps, wps>>
    /\ UNCHANGED <<kernelVars, state, cur, rc, ret, loopVars>>

\* The rest of step_over_call; the temporary breakpoint goes in every case.
\* A stop elsewhere is reported, and then the loop goes on.
CallReturned ==
    /\ at = "call" /\ rc # "wait"
    /\ temp' = NoTemp
    /\ text' = IF rc = "exit" THEN text ELSE WithoutTrap(text, temp)
    /\ \/ /\ rc = "exit" /\ ReportExit(1) /\ Back
          /\ UNCHANGED ret
       \/ /\ rc = "fail" \/ (rc = "ok" /\ ~Selected)
          /\ Die
          /\ UNCHANGED <<procVars, bps, wps, ret>>
       \/ /\ rc = "ok" /\ Selected
          /\ IF MatchesPc(CurPc, temp)
             THEN at' = "check" /\ UNCHANGED ret
             ELSE at' = "report" /\ ret' = "loop"
          /\ UNCHANGED <<procVars, bps, wps, cmd>>
    /\ UNCHANGED <<run, threadVars, susp, regs, state, cur, rc, line0, iter>>

-----------------------------------------------------------------------------
(* The second half of the loop's body, after a stop.                       *)

InLoop == at = "check" \/ (at = "step" /\ rc = "ok")

LeaveLoop == line0' = 0 /\ iter' = 0 /\ UNCHANGED temp

AtTrap == IsTrap(CurPc, bps)

AtWatch == wps # <<>> /\ esr[Resolved(thr, cur)] = "watch"

\* An address without line information counts as the same line.
LineChanged == Line[CurPc] # 0 /\ Line[CurPc] # line0

\* The rounds done so far, with this one.
\* Mutation: they are not counted.
Uncounted == iter

Rounds == iter + 1

LoopStops ==
    /\ InLoop
    /\ \/ ~Selected /\ Die /\ UNCHANGED ret
       \/ Selected /\ AtTrap /\ at' = "report" /\ ret' = "prompt" /\ UNCHANGED cmd
       \/ /\ Selected /\ ~AtTrap /\ ~AtWatch /\ UNCHANGED ret
          /\ \/ LineChanged /\ Back
             \/ ~LineChanged /\ Rounds = StepLimit /\ Die
    /\ LeaveLoop
    /\ UNCHANGED <<kernelVars, state, procVars, cur, bps, wps, rc>>

LoopWatch ==
    /\ InLoop /\ Selected /\ ~AtTrap /\ AtWatch
    /\ StepPastWatch("prompt") /\ LeaveLoop
    /\ UNCHANGED <<threadVars, susp, text, procVars, cur, bps, wps, cmd>>

LoopAgain ==
    /\ InLoop /\ Selected /\ ~AtTrap /\ ~AtWatch
    /\ ~LineChanged /\ Rounds # StepLimit
    /\ iter' = Rounds
    /\ Advance(cmd)
    /\ UNCHANGED <<threadVars, procVars, cur, bps, wps, cmd, ret, line0>>
=============================================================================
