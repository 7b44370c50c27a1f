----------------------------- MODULE Watchpoint -----------------------------
(***************************************************************************)
(* watchpoint.c and the watchpoint table of debugger.c: hardware           *)
(* watchpoints.  Every thread has its own debug registers; slot s of       *)
(* thread t holds the location it watches or NoLoc.                        *)
(*                                                                         *)
(* A location stands for the granule and byte mask that the WVR/WCR pair   *)
(* encodes, and for the access kinds it traps; the encoding itself is not  *)
(* modelled here.                                                          *)
(***************************************************************************)
EXTENDS Naturals, Sequences

CONSTANTS Loc,      \* the watchable data locations
          NoLoc,    \* none of them
          MaxWps,   \* CDBG_MAX_WATCHPOINTS: table entries and slots
          HwSlots   \* slots this CPU implements

ASSUME WatchAssumption ==
    /\ NoLoc \notin Loc
    /\ MaxWps \in Nat
    /\ HwSlots \in Nat

Slot == 0 .. (MaxWps - 1)

\* cdbg_watchpoint_t
Wp == [loc : Loc, slot : Slot, enabled : BOOLEAN]

NoRegs == [s \in Slot |-> NoLoc]

-----------------------------------------------------------------------------
\* The slots of the enabled entries, and find_free_watch_slot: the lowest
\* slot that is not among them, as a set of at most one.
\* Mutation: an entry's index serves as its slot.
IndexSlots(wps) == {i - 1 : i \in DOMAIN wps}

UsedSlots(wps) == {wps[i].slot : i \in {j \in DOMAIN wps : wps[j].enabled}}

FreeWatchSlot(wps) ==
    {s \in Slot : /\ s \notin UsedSlots(wps)
                  /\ \A r \in 0 .. (s - 1) : r \in UsedSlots(wps)}

\* cdbg_watch_arm succeeds only on a slot that reads back what was written.
Armable(s) == s < HwSlots

\* arm_watchpoint_all_threads on the threads T: cdbg_watch_arm on each.
Armed(regs, T, s, l) ==
    [t \in DOMAIN regs |-> IF t \in T THEN [regs[t] EXCEPT ![s] = l] ELSE regs[t]]

\* disarm_watchpoint_all_threads on the threads T: cdbg_watch_disarm on each.
Disarmed(regs, T, s) == Armed(regs, T, s, NoLoc)

\* The loops of step_past_all_watchpoints over the enabled entries.
\* Mutation: the watchpoints stay armed during the step.
NotDisarmed(regs, T, wps) == regs

DisarmedAll(regs, T, wps) ==
    [t \in DOMAIN regs |->
        [s \in Slot |-> IF t \in T /\ s \in UsedSlots(wps) THEN NoLoc ELSE regs[t][s]]]

EntryOf(wps, s) == CHOOSE i \in DOMAIN wps : wps[i].enabled /\ wps[i].slot = s

\* Mutation: they stay disarmed after it.
NotRearmed(regs, T, wps) == regs

ArmedAll(regs, T, wps) ==
    [t \in DOMAIN regs |->
        [s \in Slot |-> IF t \in T /\ s \in UsedSlots(wps)
                        THEN wps[EntryOf(wps, s)].loc ELSE regs[t][s]]]
=============================================================================
