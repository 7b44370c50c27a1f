----------------------------- MODULE TrapProofs -----------------------------
(***************************************************************************)
(* Software breakpoints: the BRK words in the process are exactly those of *)
(* the enabled breakpoints and of the temporary one, and PT_CONTINUE never *)
(* runs through a breakpoint.                                              *)
(*                                                                         *)
(* The code promises this to a program of one thread whose pc the user     *)
(* leaves alone, with one breakpoint at an address; without these limits   *)
(* it does not hold.                                                       *)
(***************************************************************************)
EXTENDS ControlProofs

\* No second breakpoint at an address.
OneEach == ~Repeats

\* The user does not write the pc (set $pc, up).
PcKept == Commands \cap {"setpc", "up"} = {}

-----------------------------------------------------------------------------
(* The table and the words.                                                *)

\* No two entries have one address.
Unique(table) ==
    \A i, j \in DOMAIN table : table[i].addr = table[j].addr => i = j

\* An enabled entry saved the program's own instruction.
Originals(table) == \A i \in DOMAIN table : table[i].enabled => table[i].saved = "orig"

\* The disabled entries are at a.
OffOnlyAt(table, a) == \A i \in DOMAIN table : ~table[i].enabled => table[i].addr = a

AllOn(table) == \A i \in DOMAIN table : table[i].enabled

\* The BRKs are those of the table and of the temporary breakpoint.
Accounted(txt, table, tmp) ==
    \A a \in Addr : txt[a] = "brk" <=> (IsTrap(a, table) \/ MatchesPc(a, tmp))

\* The temporary breakpoint saved what will be right when it goes.
Fits(tmp, table) ==
    tmp.enabled =>
        /\ tmp.saved = IF IsTrap(tmp.addr, table) THEN "brk" ELSE "orig"
        /\ ~DisabledAt(tmp.addr, table)

Sound(txt, table, tmp) ==
    /\ Unique(table) /\ Originals(table)
    /\ Accounted(txt, table, tmp) /\ Fits(tmp, table)

(* cmd_break: a new entry at an address that has none.                     *)
LEMMA BreakAdded ==
    ASSUME NEW txt \in [Addr -> Insn], NEW table \in Seq(Bp), NEW tmp \in Bp, NEW a \in Addr,
           Sound(txt, table, tmp), ~tmp.enabled, \A i \in DOMAIN table : table[i].addr # a
    PROVE  LET longer == Append(table, EnabledBp(txt, a))
           IN  /\ Sound(WithTrap(txt, a), longer, tmp)
               /\ \A c : OffOnlyAt(table, c) => OffOnlyAt(longer, c)
               /\ AllOn(table) => AllOn(longer)
<1> DEFINE e == EnabledBp(txt, a)
           longer == Append(table, e)
<1>1. /\ DOMAIN longer = DOMAIN table \cup {Len(table) + 1}
      /\ \A i \in DOMAIN table : longer[i] = table[i]
      /\ longer[Len(table) + 1] = e
      OBVIOUS
<1>2. /\ e.addr = a /\ e.enabled /\ e.saved = txt[a]
      BY DEF EnabledBp
<1> HIDE DEF e, longer
<1>3. ~IsTrap(a, table)
      BY DEF IsTrap, MatchesPc
<1>4. txt[a] = "orig"
      BY <1>3 DEF Sound, Accounted, MatchesPc, Insn
<1>5. \A c : IsTrap(c, longer) <=> IsTrap(c, table) \/ c = a
      BY <1>1, <1>2 DEF IsTrap, MatchesPc
<1>6. Unique(longer)
      BY <1>1, <1>2 DEF Sound, Unique
<1>7. Originals(longer)
      BY <1>1, <1>2, <1>4 DEF Sound, Originals
<1>8. Accounted(WithTrap(txt, a), longer, tmp)
      BY <1>5 DEF Sound, Accounted, WithTrap
<1>9. Fits(tmp, longer)
      BY DEF Fits
<1>10. \A c : OffOnlyAt(table, c) => OffOnlyAt(longer, c)
       BY <1>1, <1>2 DEF OffOnlyAt
<1>11. AllOn(table) => AllOn(longer)
       BY <1>1, <1>2 DEF AllOn
<1> QED BY <1>6, <1>7, <1>8, <1>9, <1>10, <1>11 DEF Sound, longer, e

(* What is left of a table without one entry.                              *)
LEMMA RestOfTable ==
    ASSUME NEW S, NEW table \in Seq(S), NEW i \in DOMAIN table
    PROVE  \E up \in [DOMAIN Without(table, i) -> DOMAIN table] :
               /\ \A k \in DOMAIN Without(table, i) :
                      up[k] # i /\ Without(table, i)[k] = table[up[k]]
               /\ \A j, k \in DOMAIN Without(table, i) : up[j] = up[k] => j = k
               /\ \A j \in DOMAIN table :
                      j # i => \E k \in DOMAIN Without(table, i) : up[k] = j
<1> DEFINE rest == Without(table, i)
           up == [k \in DOMAIN rest |-> IF k < i THEN k ELSE k + 1]
<1>1. /\ Len(table) \in Nat /\ DOMAIN table = 1 .. Len(table) /\ i \in 1 .. Len(table)
      BY TableFacts
<1>2. DOMAIN rest = 1 .. (Len(table) - 1)
      BY DEF Without
<1>3. \A k \in DOMAIN rest :
          /\ up[k] \in DOMAIN table /\ up[k] # i
          /\ rest[k] = table[up[k]]
      BY <1>1, <1>2 DEF Without
<1>4. \A j, k \in DOMAIN rest : up[j] = up[k] => j = k
      BY <1>1, <1>2
<1>5. ASSUME NEW j \in DOMAIN table, j # i
      PROVE  \E k \in DOMAIN rest : up[k] = j
    <2>1. CASE j < i
        <3>1. j \in DOMAIN rest /\ up[j] = j
              BY <1>1, <1>2, <2>1
        <3> QED BY <3>1
    <2>2. CASE ~(j < i)
        <3>1. j - 1 \in DOMAIN rest /\ up[j - 1] = j
              BY <1>1, <1>2, <1>5, <2>2
        <3> QED BY <3>1
    <2> QED BY <2>1, <2>2
<1>6. up \in [DOMAIN rest -> DOMAIN table]
      BY <1>3
<1> QED BY <1>3, <1>4, <1>5, <1>6

(* delete_breakpoint_at: the entry's word goes back, the others stay.      *)
LEMMA BreakDeleted ==
    ASSUME NEW txt \in [Addr -> Insn], NEW table \in Seq(Bp), NEW tmp \in Bp,
           NEW i \in DOMAIN table,
           Sound(txt, table, tmp), ~tmp.enabled
    PROVE  /\ Sound(WithoutTrap(txt, table[i]), Without(table, i), tmp)
           /\ \A c : OffOnlyAt(table, c) => OffOnlyAt(Without(table, i), c)
           /\ AllOn(table) => AllOn(Without(table, i))
<1> DEFINE rest == Without(table, i)
           less == WithoutTrap(txt, table[i])
<1>1. PICK up \in [DOMAIN rest -> DOMAIN table] :
          /\ \A k \in DOMAIN rest : up[k] # i /\ rest[k] = table[up[k]]
          /\ \A j, k \in DOMAIN rest : up[j] = up[k] => j = k
          /\ \A j \in DOMAIN table : j # i => \E k \in DOMAIN rest : up[k] = j
      BY RestOfTable
<1>2. table[i] \in Bp
      BY TableFacts
<1> HIDE DEF rest
<1>3. Unique(rest)
      BY <1>1 DEF Sound, Unique
<1>4. Originals(rest) /\ Fits(tmp, rest)
      BY <1>1 DEF Sound, Originals, Fits
<1>5. \A a : IsTrap(a, rest) <=> \E j \in DOMAIN table : j # i /\ MatchesPc(a, table[j])
      BY <1>1 DEF IsTrap
<1>6. \A a : IsTrap(a, rest) <=> IsTrap(a, table) /\ ~MatchesPc(a, table[i])
      BY <1>5 DEF Sound, Unique, IsTrap, MatchesPc
<1>7. \A a \in Addr : less[a] = IF MatchesPc(a, table[i]) THEN "orig" ELSE txt[a]
      BY <1>2 DEF WithoutTrap, MatchesPc, Sound, Originals, Bp
<1>8. Accounted(less, rest, tmp)
      BY <1>6, <1>7 DEF Sound, Accounted, MatchesPc
<1>9. \A c : OffOnlyAt(table, c) => OffOnlyAt(rest, c)
      BY <1>1 DEF OffOnlyAt
<1>10. AllOn(table) => AllOn(rest)
      BY <1>1 DEF AllOn
<1> QED BY <1>3, <1>4, <1>8, <1>9, <1>10 DEF Sound, rest

(* del without a number: every word goes back.                             *)
LEMMA AllDeleted ==
    ASSUME NEW txt \in [Addr -> Insn], NEW table \in Seq(Bp), NEW tmp \in Bp,
           Sound(txt, table, tmp), ~tmp.enabled
    PROVE  Sound(WithoutTraps(txt, table), <<>>, tmp)
<1>1. Unique(<<>>) /\ Originals(<<>>) /\ Fits(tmp, <<>>) /\ \A a : ~IsTrap(a, <<>>)
      BY DEF Unique, Originals, Fits, IsTrap
<1> SUFFICES ASSUME NEW a \in Addr
             PROVE  WithoutTraps(txt, table)[a] # "brk"
    BY <1>1 DEF Sound, Accounted, MatchesPc
<1>2. WithoutTraps(txt, table)[a] =
          IF HitIndex(a, table) = {} THEN txt[a]
          ELSE table[CHOOSE i \in HitIndex(a, table) : TRUE].saved
      BY DEF WithoutTraps
<1>3. CASE HitIndex(a, table) = {}
    <2>1. ASSUME NEW i \in DOMAIN table, MatchesPc(a, table[i])
          PROVE  i \in HitIndex(a, table)
        <3>1. DOMAIN table = 1 .. Len(table) /\ Len(table) \in Nat
              BY TableFacts
        <3>2. \A j \in 1 .. (i - 1) : j \in DOMAIN table /\ j # i
              BY <3>1
        <3>3. \A j \in 1 .. (i - 1) : ~MatchesPc(a, table[j])
              BY <2>1, <3>2 DEF Sound, Unique, MatchesPc
        <3> QED BY <2>1, <3>3 DEF HitIndex
    <2>2. ~IsTrap(a, table)
          BY <1>3, <2>1 DEF IsTrap
    <2> QED BY <1>2, <1>3, <2>2 DEF Sound, Accounted, MatchesPc
<1>4. CASE HitIndex(a, table) # {}
    <2>1. (CHOOSE i \in HitIndex(a, table) : TRUE) \in HitIndex(a, table)
          BY <1>4
    <2>2. \A i \in HitIndex(a, table) : table[i].saved = "orig"
          BY DEF HitIndex, MatchesPc, Sound, Originals
    <2> QED BY <1>2, <1>4, <2>1, <2>2
<1> QED BY <1>3, <1>4

(* reenable_breakpoints_after_step: the words saved are the program's own, *)
(* every BRK written belongs to an entry, and what stays disabled is at    *)
(* the pc.                                                                 *)
LEMMA BreaksReenabled ==
    ASSUME NEW txt \in [Addr -> Insn], NEW table \in Seq(Bp), NEW tmp \in Bp, NEW c,
           Sound(txt, table, tmp)
    PROVE  LET new == Reenabled(txt, table, c)
           IN  /\ Sound(ReenabledText(txt, table, c), new, tmp)
               /\ OffOnlyAt(new, c)
               /\ AllOn(table) => AllOn(new)
               /\ table = <<>> => new = <<>>
               /\ \A a : DisabledAt(a, new) => DisabledAt(a, table)
<1> DEFINE new == Reenabled(txt, table, c)
           words == ReenabledText(txt, table, c)
<1>1. new \in Seq(Bp) /\ DOMAIN new = DOMAIN table /\ Len(new) = Len(table)
      BY ReenabledType, TableFacts
<1>2. \A i \in DOMAIN table : table[i] \in Bp
      BY TableFacts
<1>3. ASSUME NEW i \in DOMAIN table, ~Missing(table, c, i)
      PROVE  new[i] = table[i]
      BY <1>3 DEF Reenabled
<1>4. ASSUME NEW i \in DOMAIN table, Missing(table, c, i)
      PROVE  new[i].addr = table[i].addr /\ new[i].saved = "orig" /\ new[i].enabled
    <2>1. ~\E j \in DOMAIN table : j < i /\ Missing(table, c, j) /\ table[j].addr = table[i].addr
        <3> SUFFICES ASSUME NEW j \in DOMAIN table, j < i, table[j].addr = table[i].addr
                     PROVE  FALSE
            OBVIOUS
        <3>1. j = i
              BY DEF Sound, Unique
        <3>2. j \in Nat /\ i \in Nat
              BY TableFacts
        <3> QED BY <3>1, <3>2
    <2>2. ~table[i].enabled /\ table[i].addr \in Addr
          BY <1>2, <1>4 DEF Missing, Bp
    <2>3. ~IsTrap(table[i].addr, table)
          BY <2>2 DEF IsTrap, MatchesPc, Sound, Unique
    <2>4. ~MatchesPc(table[i].addr, tmp)
          BY <2>2 DEF Sound, Fits, DisabledAt, MatchesPc
    <2>5. txt[table[i].addr] = "orig"
          BY <2>2, <2>3, <2>4 DEF Sound, Accounted, Insn
    <2>6. new[i] = [addr |-> table[i].addr, saved |-> "orig", enabled |-> TRUE]
          BY <1>4, <2>1, <2>5 DEF Reenabled
    <2> QED BY <2>6
<1> HIDE DEF new
<1>5. \A i \in DOMAIN table : new[i].addr = table[i].addr
      BY <1>3, <1>4
<1>6. Unique(new)
      BY <1>1, <1>5 DEF Sound, Unique
<1>7. Originals(new)
      BY <1>1, <1>3, <1>4 DEF Sound, Originals
<1>8. \A i \in DOMAIN table : ~new[i].enabled => ~table[i].enabled /\ table[i].addr = c
      BY <1>3, <1>4 DEF Missing
<1>9. OffOnlyAt(new, c) /\ \A a : DisabledAt(a, new) => DisabledAt(a, table)
      BY <1>1, <1>5, <1>8 DEF OffOnlyAt, DisabledAt
<1>10. \A a : IsTrap(a, new) <=>
           IsTrap(a, table) \/ \E i \in DOMAIN table : Missing(table, c, i) /\ table[i].addr = a
       BY <1>1, <1>3, <1>4 DEF IsTrap, MatchesPc, Missing
<1>11. \A a \in Addr : words[a] =
           IF \E i \in DOMAIN table : Missing(table, c, i) /\ table[i].addr = a
           THEN "brk" ELSE txt[a]
       BY DEF ReenabledText
<1>12. Accounted(words, new, tmp)
       BY <1>10, <1>11 DEF Sound, Accounted
<1>13. ASSUME tmp.enabled
       PROVE  IsTrap(tmp.addr, new) <=> IsTrap(tmp.addr, table)
       BY <1>10, <1>13 DEF Sound, Fits, DisabledAt, Missing
<1>14. Fits(tmp, new)
       BY <1>9, <1>13 DEF Sound, Fits
<1>15. AllOn(table) => AllOn(new)
       BY <1>1, <1>8 DEF AllOn
<1>16. table = <<>> => new = <<>>
       BY <1>1
<1> QED BY <1>6, <1>7, <1>9, <1>12, <1>14, <1>15, <1>16 DEF Sound, new
(* handle_breakpoint_hit: the entry that was hit is disabled and its word  *)
(* put back; the others that are disabled are at the same pc.              *)
LEMMA BreakHitDisabled ==
    ASSUME NEW txt \in [Addr -> Insn], NEW table \in Seq(Bp), NEW tmp \in Bp,
           NEW i \in DOMAIN table, table[i].enabled,
           Sound(txt, table, tmp), ~tmp.enabled, OffOnlyAt(table, table[i].addr)
    PROVE  LET new == [table EXCEPT ![i] = DisabledBp(@)]
           IN  /\ Sound(WithoutTrap(txt, table[i]), new, tmp)
               /\ OffOnlyAt(new, table[i].addr)
<1> DEFINE new == [table EXCEPT ![i] = DisabledBp(@)]
           less == WithoutTrap(txt, table[i])
<1>1. table[i] \in Bp
      BY TableFacts
<1>2. /\ DOMAIN new = DOMAIN table
      /\ \A j \in DOMAIN table : j # i => new[j] = table[j]
      /\ new[i] = DisabledBp(table[i])
      OBVIOUS
<1>3. new[i].addr = table[i].addr /\ ~new[i].enabled
      BY <1>1, <1>2 DEF DisabledBp, Bp
<1> HIDE DEF new
<1>4. \A j \in DOMAIN table : new[j].addr = table[j].addr
      BY <1>2, <1>3
<1>5. Unique(new)
      BY <1>2, <1>4 DEF Sound, Unique
<1>6. Originals(new) /\ Fits(tmp, new)
      BY <1>2, <1>3 DEF Sound, Originals, Fits
<1>7. \A a : IsTrap(a, new) <=> IsTrap(a, table) /\ a # table[i].addr
      BY <1>2, <1>3 DEF Sound, Unique, IsTrap, MatchesPc
<1>8. \A a \in Addr : less[a] = IF a = table[i].addr THEN "orig" ELSE txt[a]
      BY <1>1 DEF WithoutTrap, Sound, Originals, Bp
<1>9. Accounted(less, new, tmp)
      BY <1>7, <1>8 DEF Sound, Accounted, MatchesPc
<1>10. OffOnlyAt(new, table[i].addr)
       BY <1>2, <1>3 DEF OffOnlyAt
<1> QED BY <1>5, <1>6, <1>9, <1>10 DEF Sound, new

(* run_to_entry_stop and step_over_call: a temporary breakpoint, perhaps   *)
(* on top of one of the user's.                                            *)
LEMMA TempPlaced ==
    ASSUME NEW txt \in [Addr -> Insn], NEW table \in Seq(Bp), NEW tmp \in Bp, NEW a \in Addr,
           Sound(txt, table, tmp), ~tmp.enabled, ~DisabledAt(a, table)
    PROVE  Sound(WithTrap(txt, a), table, EnabledBp(txt, a))
<1> DEFINE e == EnabledBp(txt, a)
<1>1. e.addr = a /\ e.enabled /\ e.saved = txt[a]
      BY DEF EnabledBp
<1> HIDE DEF e
<1>2. txt[a] = IF IsTrap(a, table) THEN "brk" ELSE "orig"
      BY DEF Sound, Accounted, MatchesPc, Insn
<1>3. Fits(e, table)
      BY <1>1, <1>2 DEF Fits
<1>4. Accounted(WithTrap(txt, a), table, e)
      BY <1>1 DEF Sound, Accounted, WithTrap, MatchesPc
<1> QED BY <1>3, <1>4 DEF Sound, e

(* finish_temp_breakpoint: it goes, a breakpoint of the user's under it    *)
(* stays.                                                                  *)
LEMMA TempRemoved ==
    ASSUME NEW txt \in [Addr -> Insn], NEW table \in Seq(Bp), NEW tmp \in Bp,
           Sound(txt, table, tmp)
    PROVE  Sound(WithoutTrap(txt, tmp), table, NoTemp)
<1>1. ~NoTemp.enabled
      BY DEF NoTemp
<1>2. \A a \in Addr : WithoutTrap(txt, tmp)[a] =
          IF MatchesPc(a, tmp) THEN tmp.saved ELSE txt[a]
      BY DEF WithoutTrap, MatchesPc, Bp
<1>3. Accounted(WithoutTrap(txt, tmp), table, NoTemp)
      BY <1>1, <1>2 DEF Sound, Accounted, Fits, MatchesPc
<1>4. Fits(NoTemp, table)
      BY <1>1 DEF Fits
<1> QED BY <1>3, <1>4 DEF Sound

-----------------------------------------------------------------------------
(* The threads.                                                            *)

(* The scans over the threads find a live one or none.                     *)
LEMMA FirstInLive ==
    ASSUME NEW T \in Seq(Tid), NEW S
    PROVE  FirstIn(T, S) \in Live(T) \cup {0}
<1> DEFINE First == {i \in DOMAIN T : T[i] \in S /\ \A j \in 1 .. (i - 1) : T[j] \notin S}
<1>1. FirstIn(T, S) = IF First = {} THEN 0 ELSE T[CHOOSE i \in First : TRUE]
      BY DEF FirstIn
<1>2. CASE First # {}
    <2>1. (CHOOSE i \in First : TRUE) \in First
          BY <1>2
    <2> QED BY <1>1, <1>2, <2>1 DEF Live
<1> QED BY <1>1, <1>2

(* With one thread there is only one to resolve to.                        *)
LEMMA OnlyThread ==
    ASSUME NEW T \in Seq(Tid), Len(T) = 1
    PROVE  /\ Live(T) = {T[1]} /\ T[1] \in Tid
           /\ \A t : Resolves(T, t) => Resolved(T, t) = T[1]
<1>1. DOMAIN T = {1} /\ T[1] \in Tid
      OBVIOUS
<1>2. Live(T) = {T[1]}
      BY <1>1 DEF Live
<1> QED BY <1>1, <1>2 DEF Resolves, Resolved

(* The thread a report selects is there whenever the one selected before   *)
(* is.                                                                     *)
LEMMA NewCurResolves ==
    ASSUME TypeOK, thr # <<>>, ~Resolves(thr, NewCur)
    PROVE  NewCur = cur /\ ~Selected
<1>1. thr \in Seq(Tid)
      BY DEF TypeOK, DebuggeeTypeOK
<1>2. HitThread \in Live(thr) \cup {0}
      BY <1>1, FirstInLive DEF HitThread, BreakHit, WatchHit
<1> QED BY <1>2 DEF NewCur, Resolves, Selected

-----------------------------------------------------------------------------
(* The invariant.  TrapsAccounted itself needs to know what a disabled     *)
(* entry means: that its thread stands at it.  A stopped process whose     *)
(* stop was waited for has disabled entries only at its pc (cdbg_wait      *)
(* enables the others), unless the selection is stale, and then none was   *)
(* ever hit.  And no temporary breakpoint is on top of a disabled one,     *)
(* for it is behind a call and the thread stands at the call.              *)

Here == pc[thr[1]]

TempInUse ==
    temp.enabled => at \in {"entry", "over", "call"} /\ (at = "over" => cmd = "next")

Traps ==
    run # "none" =>
        /\ Len(thr) = 1 /\ stopThr = thr[1]
        /\ Sound(text, bps, temp)
        /\ ~Selected => AllOn(bps)
        /\ at \in {"exec", "entry"} => bps = <<>>
        /\ run = "stopped" /\ rc # "wait" => OffOnlyAt(bps, Here)

TrapInv == TempInUse /\ Traps

(* A step that leaves the breakpoints and the one thread alone.            *)
LEMMA TrapsUntouched ==
    ASSUME TrapInv, UNCHANGED <<thr, stopThr, text, bps, temp, cur>>,
           TempInUse', run = "none" => run' = "none",
           at' \in {"exec", "entry"} => at' = at,
           run' = "stopped" /\ rc' # "wait" =>
               run = "stopped" /\ rc # "wait" /\ UNCHANGED pc
    PROVE  TrapInv'
    BY DEF TrapInv, Traps, Selected, Here

(* Without a process there are no words.                                   *)
LEMMA TrapsGone ==
    ASSUME run' = "none", TempInUse'
    PROVE  TrapInv'
    BY DEF TrapInv, Traps
(* What the steps need to know of the types.                               *)
LEMMA TrapTypes ==
    ASSUME TypeOK
    PROVE  /\ text \in [Addr -> Insn] /\ bps \in Seq(Bp) /\ temp \in Bp
           /\ thr \in Seq(Tid) /\ cur \in 0 .. MaxTid
           /\ pc \in [Tid -> Addr]
    BY DEF TypeOK, DebuggeeTypeOK, DebuggerTypeOK

(* The pc of a selection that resolves is that of the one thread.          *)
LEMMA SelectedHere ==
    ASSUME TypeOK, TrapInv, run # "none", Selected
    PROVE  CurPc = Here /\ Here \in Addr
    BY TrapTypes, OnlyThread DEF TrapInv, Traps, CurPc, Here, Selected

(* The first half of the loop of step and next.                            *)
LEMMA AdvanceTraps ==
    ASSUME TypeOK, TrapInv, state = "STOPPED", Phase, Selected,
           at \in {"prompt", "check", "step"},
           NEW c, Advance(c), cmd' = c, UNCHANGED <<threadVars, cur, bps>>
    PROVE  TrapInv'
<1>0. /\ run = "stopped" /\ rc # "wait" /\ ~temp.enabled
      /\ CurPc = Here /\ Here \in Addr
      /\ Sound(text, bps, temp) /\ OffOnlyAt(bps, Here)
      /\ Len(thr) = 1 /\ stopThr = thr[1]
      BY SelectedHere DEF Phase, TrapInv, TempInUse, Traps
<1>1. /\ run' \in {"step", "cont"} /\ UNCHANGED <<thr, stopThr>>
      /\ at' \notin {"exec", "entry"}
      /\ Selected'
      BY <1>0 DEF Advance, Continue, Resume, SingleStep, threadVars, Selected
<1>2. CASE c = "next" /\ CallAt(CurPc)
    <2>1. /\ temp' = EnabledBp(text, Ret[CurPc]) /\ text' = WithTrap(text, Ret[CurPc])
          /\ at' \in {"call", "over"} /\ cmd' = "next"
          BY <1>2 DEF Advance, Continue, Resume, SingleStep
    <2>2. Ret[CurPc] \in Addr /\ Ret[CurPc] # CurPc
          BY <1>2, SourceStepAssumption DEF CallAt
    <2>3. ~DisabledAt(Ret[CurPc], bps)
          BY <1>0, <2>2 DEF OffOnlyAt, DisabledAt
    <2>4. Sound(text', bps, temp')
          BY <1>0, <2>1, <2>2, <2>3, TempPlaced, TrapTypes
    <2>5. TempInUse'
          BY <2>1 DEF TempInUse
    <2> QED BY <1>0, <1>1, <2>4, <2>5 DEF TrapInv, Traps
<1>3. CASE ~(c = "next" /\ CallAt(CurPc))
    <2>1. UNCHANGED <<temp, text>>
          BY <1>3 DEF Advance
    <2>2. TempInUse'
          BY <1>0, <2>1 DEF TempInUse
    <2> QED BY <1>0, <1>1, <2>1, <2>2 DEF TrapInv, Traps
<1> QED BY <1>2, <1>3

(* cmd_break, delete_breakpoint_at and del.                                *)
LEMMA TableTraps ==
    ASSUME OneEach, Control, TrapInv,
           \/ \E a \in Addr : CmdBreak(a)
           \/ \E i \in DOMAIN bps : CmdDel(i)
           \/ CmdDelAll
    PROVE  TrapInv'
<1>0. /\ at = "prompt" /\ ~temp.enabled
      /\ UNCHANGED <<run, thr, stopThr, pc, temp, cur, at, rc, cmd, state>>
      BY DEF CmdBreak, CmdDel, CmdDelAll, Command, threadVars, loopVars, TrapInv, TempInUse
<1>1. TempInUse'
      BY <1>0 DEF TempInUse
<1>2. CASE run = "none"
      BY <1>0, <1>1, <1>2, TrapsGone
<1>3. ASSUME run # "none",
             Sound(text', bps', temp),
             \A c : OffOnlyAt(bps, c) => OffOnlyAt(bps', c),
             AllOn(bps) => AllOn(bps')
      PROVE  TrapInv'
      BY <1>0, <1>1, <1>3 DEF TrapInv, Traps, Selected, Here
<1>4. ASSUME run # "none"
      PROVE  state # "IDLE" /\ Sound(text, bps, temp)
      BY <1>4 DEF Control, Phase, TrapInv, Traps
<1>5. ASSUME NEW a \in Addr, CmdBreak(a), run # "none"
      PROVE  TrapInv'
    <2>1. /\ \A i \in DOMAIN bps : bps[i].addr # a
          /\ bps' = Append(bps, EnabledBp(text, a)) /\ text' = WithTrap(text, a)
          BY <1>5 DEF CmdBreak, OneEach
    <2> QED BY <1>0, <1>3, <1>4, <1>5, <2>1, BreakAdded, TrapTypes DEF Control
<1>6. ASSUME NEW i \in DOMAIN bps, CmdDel(i), run # "none"
      PROVE  TrapInv'
    <2>1. bps' = Without(bps, i) /\ text' = WithoutTrap(text, bps[i])
          BY <1>4, <1>6 DEF CmdDel
    <2> QED BY <1>0, <1>3, <1>4, <1>6, <2>1, BreakDeleted, TrapTypes DEF Control
<1>7. ASSUME CmdDelAll, run # "none"
      PROVE  TrapInv'
    <2>1. bps' = <<>> /\ text' = WithoutTraps(text, bps)
          BY <1>4, <1>7 DEF CmdDelAll
    <2>2. Sound(text', bps', temp)
          BY <1>0, <1>4, <1>7, <2>1, AllDeleted, TrapTypes DEF Control
    <2>3. AllOn(bps') /\ \A c : OffOnlyAt(bps', c)
          BY <2>1 DEF AllOn, OffOnlyAt
    <2> QED BY <1>3, <1>7, <2>2, <2>3
<1> QED BY <1>2, <1>5, <1>6, <1>7

(* The commands.                                                           *)
LEMMA UserTraps ==
    ASSUME OneEach, PcKept, Control, TrapInv, UserStep
    PROVE  TrapInv'
<1> USE DEF kernelVars, threadVars, procVars, loopVars, Command, Resuming, Control, Phase,
            Die, TempInUse, TrapInv
<1>1. CASE CmdRun
    <2>1. /\ thr' = <<lastTid + 1>> /\ stopThr' = lastTid + 1 /\ bps' = <<>>
          /\ text' = [a \in Addr |-> "orig"] /\ at' = "exec" /\ rc' = "wait"
          /\ UNCHANGED temp /\ ~temp.enabled
          BY <1>1 DEF CmdRun, StartProcess, Spawn
    <2>2. Sound(text', bps', temp')
          BY <2>1 DEF Sound, Unique, Originals, Accounted, Fits, IsTrap, MatchesPc
    <2> QED BY <2>1, <2>2 DEF Traps, AllOn
<1>2. CASE CmdContinue
      BY <1>2, TrapsUntouched DEF CmdContinue, Continue, Resume, SingleStep
<1>3. CASE CmdSi
      BY <1>3, TrapsUntouched DEF CmdSi, SingleStep
<1>4. ASSUME NEW c, LineStep(c)
      PROVE  TrapInv'
    <2>1. CASE ~Selected \/ Line[CurPc] = 0
          BY <1>4, <2>1, TrapsUntouched DEF LineStep, SingleStep
    <2>2. CASE Selected /\ Line[CurPc] # 0
        <3>1. Advance(c) /\ cmd' = c /\ UNCHANGED <<threadVars, cur, bps>>
              BY <1>4, <2>2 DEF LineStep
        <3>2. state = "STOPPED" /\ at = "prompt"
              BY <1>4 DEF LineStep, TypeOK, DebuggerTypeOK, Waiting
        <3> QED BY <2>2, <3>1, <3>2, AdvanceTraps
    <2> QED BY <2>1, <2>2
<1>5. CASE CmdKill
      BY <1>5, TrapsGone DEF CmdKill, Reap
<1>6. CASE CmdQuit
      BY <1>6, TrapsGone DEF CmdQuit, Reap
<1>7. CASE CmdEof \/ CmdRegsFails
      BY <1>7, TrapsUntouched DEF CmdEof, CmdRegsFails
<1>8. CASE CmdDelAll \/ (\E a \in Addr : CmdBreak(a)) \/ \E i \in DOMAIN bps : CmdDel(i)
      BY <1>8, TableTraps
<1>9. ASSUME NEW x, CmdWatch(x) \/ CmdDelWatch(x)
      PROVE  TrapInv'
      BY <1>9, TrapsUntouched DEF CmdWatch, CmdDelWatch
<1>10. ASSUME NEW t \in Live(thr), CmdThread(t)
       PROVE  TrapInv'
    <2>1. /\ UNCHANGED <<kernelVars, bps, temp, at, cmd, rc>> /\ cur' = t
          /\ thr # <<>>
          BY <1>10 DEF CmdThread, Live
    <2>2. Selected'
          BY <2>1 DEF Selected, Resolves
    <2> QED BY <2>1, <2>2 DEF Traps, Here
<1>11. \A x : ~CmdSetPc(x) /\ ~CmdUp(x)
       BY DEF CmdSetPc, CmdUp, PcKept
<1> QED BY <1>1, <1>2, <1>3, <1>4, <1>5, <1>6, <1>7, <1>8, <1>9, <1>10, <1>11
        DEF UserStep, CmdStep, CmdNext

(* cdbg_wait.                                                              *)
LEMMA WaitTraps ==
    ASSUME Control, TrapInv, CdbgWait
    PROVE  TrapInv'
<1>0. UNCHANGED <<temp, at, cmd, cur>>
      BY DEF CdbgWait, loopVars
<1>1. TempInUse'
      BY <1>0 DEF TrapInv, TempInUse
<1>2. CASE run = "exited"
      BY <1>1, <1>2, TrapsGone DEF CdbgWait, Reap
<1>3. CASE run = "stopped"
    <2>1. /\ UNCHANGED <<run, thr, stopThr, pc>>
          /\ Sound(text, bps, temp) /\ Len(thr) = 1 /\ stopThr = thr[1]
          /\ ~Selected => AllOn(bps)
          /\ at \in {"exec", "entry"} => bps = <<>>
          /\ Selected' <=> Selected
          /\ Here' = Here
          BY <1>0, <1>3 DEF CdbgWait, threadVars, TrapInv, Traps, Selected, Here
    <2>2. CASE bps # <<>> /\ ~Selected
        <3>1. UNCHANGED <<bps, text>> /\ OffOnlyAt(bps, Here)
              BY <1>3, <2>1, <2>2 DEF CdbgWait, AllOn, OffOnlyAt
        <3> QED BY <1>0, <1>1, <2>1, <3>1 DEF TrapInv, Traps
    <2>3. CASE ~(bps # <<>> /\ ~Selected)
        <3>1. bps' = Reenabled(text, bps, CurPc) /\ text' = ReenabledText(text, bps, CurPc)
              BY <1>3, <2>3 DEF CdbgWait
        <3>2. /\ Sound(text', bps', temp) /\ OffOnlyAt(bps', CurPc)
              /\ AllOn(bps) => AllOn(bps')
              /\ bps = <<>> => bps' = <<>>
              BY <2>1, <3>1, BreaksReenabled, TrapTypes DEF Control
        <3>3. OffOnlyAt(bps', Here)
            <4>1. CASE bps = <<>>
                  BY <3>2, <4>1 DEF OffOnlyAt
            <4>2. CASE Selected
                  BY <1>3, <3>2, <4>2, SelectedHere DEF Control
            <4> QED BY <2>3, <4>1, <4>2
        <3> QED BY <1>0, <1>1, <2>1, <3>2, <3>3 DEF TrapInv, Traps
    <2> QED BY <2>2, <2>3
<1> QED BY <1>2, <1>3 DEF CdbgWait

(* The temporary breakpoint goes.                                          *)
LEMMA TempTraps ==
    ASSUME Control, TrapInv, temp' = NoTemp,
           UNCHANGED <<run, threadVars, cur>>,
           run # "none" => UNCHANGED <<bps, rc>> /\ text' = WithoutTrap(text, temp),
           at' \notin {"exec", "entry"}
    PROVE  TrapInv'
<1>1. TempInUse'
      BY DEF TempInUse, NoTemp
<1>2. CASE run = "none"
      BY <1>1, <1>2, TrapsGone
<1>3. CASE run # "none"
    <2>1. Sound(text', bps', temp')
          BY <1>3, TempRemoved, TrapTypes DEF Control, TrapInv, Traps
    <2> QED BY <1>1, <1>3, <2>1 DEF TrapInv, Traps, Selected, Here, threadVars
<1> QED BY <1>2, <1>3
(* report_stop: the entry that was hit is disabled, on the thread that     *)
(* stands at it.                                                           *)
LEMMA ReportTraps ==
    ASSUME Control, TrapInv, ReportBreak \/ ReportWatch \/ ReportPlain
    PROVE  TrapInv'
<1>0. /\ at = "report" /\ state = "STOPPED" /\ run = "stopped" /\ rc # "wait"
      /\ ~temp.enabled /\ UNCHANGED <<threadVars, temp>> /\ cur' = NewCur
      /\ Sound(text, bps, temp) /\ Len(thr) = 1 /\ stopThr = thr[1]
      /\ OffOnlyAt(bps, Here)
      BY DEF ReportBreak, ReportWatch, ReportPlain, Reporting, Control, Phase, TrapInv,
             TempInUse, Traps, loopVars
<1>1. TempInUse' /\ thr \in Seq(Tid) /\ thr # <<>>
    <2>1. TempInUse'
          BY <1>0 DEF TempInUse
    <2>2. thr \in Seq(Tid)
          BY TrapTypes DEF Control
    <2> QED BY <1>0, <2>1, <2>2
<1>2. CASE ReportBreak
    <2>1. PICK i \in HitIndex(NewPc, bps) :
              /\ text' = WithoutTrap(text, bps[i])
              /\ bps' = [bps EXCEPT ![i] = DisabledBp(@)]
          BY <1>2 DEF ReportBreak
    <2>2. Resolves(thr, NewCur) /\ NewPc = Here
          BY <1>0, <1>1, <1>2, OnlyThread DEF ReportBreak, NewPc, Here
    <2>3. i \in DOMAIN bps /\ bps[i].enabled /\ bps[i].addr = Here
          BY <2>2 DEF HitIndex, MatchesPc
    <2>4. Sound(text', bps', temp) /\ OffOnlyAt(bps', Here)
          BY <1>0, <2>1, <2>3, BreakHitDisabled, TrapTypes DEF Control
    <2>5. run' = run /\ rc' = rc /\ at' \in {"check", "prompt"}
          BY <1>2 DEF ReportBreak, AfterReport, Back
    <2>6. Selected'
          BY <1>0, <2>2 DEF Selected, threadVars
    <2> QED BY <1>0, <1>1, <2>4, <2>5, <2>6 DEF TrapInv, Traps, Here, threadVars
<1>3. CASE ReportWatch
    <2>1. /\ UNCHANGED <<text, bps>> /\ Resolves(thr, NewCur)
          /\ run' = "step" /\ at' = "watch"
          BY <1>3 DEF ReportWatch, IsWatchStop, StepPastWatch, SingleStep
    <2>2. Selected'
          BY <1>0, <2>1 DEF Selected, threadVars
    <2> QED BY <1>0, <1>1, <2>1, <2>2 DEF TrapInv, Traps, threadVars
<1>4. CASE ReportPlain
    <2>1. /\ UNCHANGED <<run, text, bps, rc>> /\ at' \in {"check", "prompt", "failed"}
          BY <1>4 DEF ReportPlain, AfterReport, Back, Die
    <2>2. ~Selected' => AllOn(bps)
        <3> SUFFICES ASSUME ~Resolves(thr, NewCur)
                     PROVE  AllOn(bps)
            BY <1>0 DEF Selected, threadVars
        <3>1. ~Selected
              BY <1>1, NewCurResolves DEF Control
        <3> QED BY <1>0, <3>1 DEF TrapInv, Traps
    <2> QED BY <1>0, <1>1, <2>1, <2>2 DEF TrapInv, Traps, Here, threadVars
<1> QED BY <1>2, <1>3, <1>4

(* What the debugger does by itself.                                       *)
LEMMA DebuggerTraps ==
    ASSUME Control, TrapInv, DebuggerStep
    PROVE  TrapInv'
<1> USE DEF Control, Phase, Waiting, kernelVars, threadVars, loopVars, TempInUse, TrapInv,
            Back, Die, RunFailed
<1>1. CASE CdbgWait
      BY <1>1, WaitTraps
<1>2. CASE ExecReturned
    <2>1. CASE rc = "exit"
        <3>1. UNCHANGED <<run, temp>> /\ run = "none" /\ ~temp.enabled
              BY <1>2, <2>1 DEF ExecReturned
        <3> QED BY <3>1, TrapsGone
    <2>2. CASE rc = "ok" /\ ~HasMain
          BY <1>2, <2>2, TrapsUntouched DEF ExecReturned
    <2>3. CASE rc = "ok" /\ HasMain
        <3>1. /\ temp' = EnabledBp(text, Entry) /\ text' = WithTrap(text, Entry)
              /\ UNCHANGED <<thr, stopThr, bps, cur>> /\ bps = <<>> /\ ~temp.enabled
              /\ run # "none" /\ run' = "cont" /\ at' = "entry"
              BY <1>2, <2>3 DEF ExecReturned, Resume, Traps
        <3>2. ~DisabledAt(Entry, bps)
              BY <3>1 DEF DisabledAt
        <3>3. Sound(text', bps', temp')
              BY <3>1, <3>2, TempPlaced, TrapTypes, DebuggerAssumption DEF Traps
        <3> QED BY <3>1, <3>3 DEF Traps, AllOn
    <2> QED BY <1>2, <2>1, <2>2, <2>3 DEF ExecReturned
<1>3. CASE EntryReturned
    <2>1. /\ temp' = NoTemp /\ UNCHANGED <<run, threadVars, cur, rc>>
          /\ at' \notin {"exec", "entry"}
          BY <1>3 DEF EntryReturned
    <2>2. run # "none" => UNCHANGED bps /\ text' = WithoutTrap(text, temp)
          BY <1>3 DEF EntryReturned, EntryText
    <2> QED BY <2>1, <2>2, TempTraps
<1>4. CASE OverReturned
    <2>1. CASE rc = "ok"
          BY <1>4, <2>1, TrapsUntouched DEF OverReturned, Resume
    <2>2. CASE rc # "ok"
        <3>1. /\ temp' = NoTemp /\ UNCHANGED <<run, threadVars, cur, rc>>
              /\ at' \notin {"exec", "entry"}
              BY <1>4, <2>2 DEF OverReturned
        <3>2. run # "none" => UNCHANGED bps /\ text' = WithoutTrap(text, temp)
              BY <1>4, <2>2 DEF OverReturned
        <3> QED BY <3>1, <3>2, TempTraps
    <2> QED BY <2>1, <2>2
<1>5. ASSUME ReportExit(1), rc = "exit", at \in Waiting, run' = run, TempInUse'
      PROVE  TrapInv'
      BY <1>5, TrapsGone
<1>6. CASE ResumeReturned
      BY <1>6, <1>5, TrapsUntouched DEF ResumeReturned
<1>7. CASE ReportBreak \/ ReportWatch \/ ReportPlain
      BY <1>7, ReportTraps
<1>8. CASE WatchReturned
    <2>1. CASE rc = "exit"
          BY <1>8, <2>1, TrapsGone DEF WatchReturned
    <2>2. CASE rc # "exit"
          BY <1>8, <2>2, TrapsUntouched DEF WatchReturned, AfterReport
    <2> QED BY <2>1, <2>2
<1>9. CASE StepFailed
      BY <1>9, <1>5, TrapsUntouched DEF StepFailed
<1>10. CASE CallReturned
    <2>1. /\ temp' = NoTemp /\ UNCHANGED <<run, threadVars, cur, rc>>
          /\ at' \notin {"exec", "entry"}
          BY <1>10 DEF CallReturned
    <2>2. run # "none" => UNCHANGED bps /\ text' = WithoutTrap(text, temp)
          BY <1>10 DEF CallReturned
    <2> QED BY <2>1, <2>2, TempTraps
<1>11. CASE LoopStops
       BY <1>11, TrapsUntouched DEF LoopStops, LeaveLoop, InLoop
<1>12. CASE LoopWatch
       BY <1>12, TrapsUntouched DEF LoopWatch, LeaveLoop, InLoop, StepPastWatch, SingleStep
<1>13. CASE LoopAgain
       BY <1>13, AdvanceTraps DEF LoopAgain, InLoop
<1> QED BY <1>1, <1>2, <1>3, <1>4, <1>6, <1>7, <1>8, <1>9, <1>10, <1>11, <1>12, <1>13
        DEF DebuggerStep

(* The program does not change its words, and the debugger knows nothing   *)
(* of its pc until the wait returns.                                       *)
LEMMA KernelTraps ==
    ASSUME OneThread, Control, TrapInv, KernelStep
    PROVE  TrapInv'
<1>1. PICK t \in Tid : DebuggeeStep(t) /\ UNCHANGED debuggerVars
      BY DEF KernelStep
<1>2. run \in {"step", "cont"} /\ rc = "wait"
      BY <1>1, KernelPhase DEF Control, Phase, DebuggeeStep, TrapBrk, TrapWatch, SignalStop,
             Executed, Plain, SpawnThread, EndThread, EndProcess, Executes, Runnable
<1>3. Len(thr) = 1 /\ stopThr = thr[1] /\ thr \in Seq(Tid)
      BY <1>2, TrapTypes DEF TrapInv, Traps, Control
<1>4. UNCHANGED <<thr, text>>
      BY <1>1, <1>3, ThreadStays DEF Control
<1>5. t = thr[1]
      BY <1>1, <1>3, OnlyThread
      DEF DebuggeeStep, TrapBrk, TrapWatch, SignalStop, Executed, Plain, SpawnThread,
          EndThread, EndProcess, Executes, Runnable
<1>6. stopThr' = stopThr
      BY <1>1, <1>3, <1>5
      DEF DebuggeeStep, TrapBrk, TrapWatch, SignalStop, StopWith, Executed, Plain,
          SpawnThread, EndThread, EndProcess, threadVars
<1> QED BY <1>1, <1>2, <1>4, <1>6, TrapsUntouched
        DEF debuggerVars, loopVars, TrapInv, TempInUse

(* TrapInv is an invariant under the limits.                               *)
LEMMA TrapInvariant ==
    ASSUME OneThread, OneEach, PcKept
    PROVE  Spec => []TrapInv
<1>1. Init => TrapInv
      BY DEF Init, DebuggeeInit, DebuggerInit, TrapInv, TempInUse, Traps, NoTemp
<1>2. Control /\ TrapInv /\ [Next]_vars => TrapInv'
    <2> SUFFICES ASSUME Control, TrapInv, [Next]_vars
                 PROVE  TrapInv'
        OBVIOUS
    <2>1. CASE UNCHANGED vars
          BY <2>1, TrapsUntouched
          DEF vars, kernelVars, threadVars, debuggerVars, loopVars, TrapInv, TempInUse
    <2> QED BY <2>1, UserTraps, DebuggerTraps, KernelTraps DEF Next, Gone
<1> QED BY <1>1, <1>2, Controlled, PTL DEF Spec

(* The BRK words in a live process are exactly those of the enabled        *)
(* breakpoints and of the temporary one, for any program of one thread,    *)
(* any calls, lines and signals, through hits, re-enabling, deletion,      *)
(* temporary breakpoints on top of the user's, watchpoint hits, failed     *)
(* waits and new runs: no breakpoint is lost and none is left behind.      *)
THEOREM TrapsCorrect ==
    ASSUME OneThread, OneEach, PcKept
    PROVE  Spec => []TrapsAccounted
<1>1. TrapInv => TrapsAccounted
      BY DEF TrapInv, Traps, Sound, Accounted, TrapsAccounted
<1> QED BY <1>1, TrapInvariant, PTL
-----------------------------------------------------------------------------
(* NeverRunThrough.  A breakpoint is out of the text only between its      *)
(* report and the step behind it.  Without signals that step ends in one   *)
(* of three ways: the thread moved, and cdbg_wait put the BRK back; a      *)
(* watchpoint stopped the instruction before it was executed, and stops it *)
(* again when it is continued; or the process is gone.                     *)

Undisturbed == ~Signals

\* No instruction branches to itself: its BRK would not be put back.
NoSelfBranch == \A a \in Addr : Kind[a] = "plain" => a \notin Succ[a]

OffHere == DisabledAt(Here, bps)

Through ==
    run # "none" =>
        /\ run = "cont" => OffOnlyAt(bps, Here) /\ (OffHere => Watched(thr[1]))
        /\ at = "over" /\ run = "step" => OffOnlyAt(bps, Here) /\ OffHere
        /\ at = "over" /\ run = "stopped" => (OffHere => Watched(thr[1]))
        /\ at = "over" => run # "cont"

NotThrough ==
    \A t \in Tid : run = "cont" /\ Executed(t) =>
        \A i \in DOMAIN bps : bps[i].addr # pc[t]

(* Steps that neither resume nor end a wait of the step over a breakpoint. *)
LEMMA ThroughElsewhere ==
    ASSUME run' # "cont", at' # "over" \/ run' = "none"
    PROVE  Through'
    BY DEF Through

(* cdbg_continue steps over a disabled breakpoint at the pc, and otherwise *)
(* there is no disabled one.                                               *)
LEMMA ContinueThrough ==
    ASSUME TypeOK, Phase, TrapInv, state = "STOPPED", NEW point, point # "over",
           Continue(point), UNCHANGED <<thr, pc, bps>>
    PROVE  Through'
<1>1. run = "stopped" /\ OffOnlyAt(bps, Here) /\ (Selected => CurPc = Here) /\ Here' = Here
      BY SelectedHere DEF Phase, TrapInv, Traps, Here
<1>2. CASE Resume(point) /\ (bps = <<>> \/ (Selected /\ ~DisabledAt(CurPc, bps)))
    <2>1. ~OffHere /\ ~OffHere'
          BY <1>1, <1>2 DEF OffHere, DisabledAt
    <2> QED BY <1>1, <1>2, <2>1 DEF Through, Resume
<1>3. CASE Selected /\ DisabledAt(CurPc, bps) /\ SingleStep("over")
      BY <1>1, <1>3 DEF Through, SingleStep, OffHere
<1> QED BY <1>2, <1>3 DEF Continue

LEMMA AdvanceThrough ==
    ASSUME TypeOK, Phase, TrapInv, state = "STOPPED", NEW c, Advance(c),
           UNCHANGED <<thr, pc, bps>>
    PROVE  Through'
<1>1. CASE SingleStep("step")
      BY <1>1, ThroughElsewhere DEF SingleStep
<1>2. CASE Continue("call")
      BY <1>2, ContinueThrough
<1> QED BY <1>1, <1>2 DEF Advance

(* The commands.                                                           *)
LEMMA UserThrough ==
    ASSUME Control, TrapInv, Through, UserStep
    PROVE  Through'
<1> USE DEF kernelVars, threadVars, Command, Resuming, Control, Phase, Die
<1>0. at \in {"prompt", "main"} => state \in {"IDLE", "STOPPED"} /\ run \in {"none", "stopped"}
      BY DEF TypeOK, DebuggerTypeOK, Waiting
<1>1. CASE CmdRun
      BY <1>1, ThroughElsewhere DEF CmdRun, StartProcess, Spawn
<1>2. CASE CmdContinue
    <2>1. CASE Continue("resumed")
          BY <1>0, <1>2, <2>1, ContinueThrough DEF CmdContinue
    <2>2. CASE ContinueFails
          BY <1>0, <1>2, <2>2, ThroughElsewhere DEF CmdContinue, Continue, ContinueFails
    <2> QED BY <1>2, <2>1, <2>2 DEF CmdContinue
<1>3. CASE CmdSi
      BY <1>3, ThroughElsewhere DEF CmdSi, SingleStep
<1>4. ASSUME NEW c, LineStep(c)
      PROVE  Through'
    <2>1. CASE ~Selected \/ Line[CurPc] = 0
          BY <1>0, <1>4, <2>1, ThroughElsewhere DEF LineStep, SingleStep
    <2>2. CASE Selected /\ Line[CurPc] # 0
          BY <1>0, <1>4, <2>2, AdvanceThrough DEF LineStep
    <2> QED BY <2>1, <2>2
<1>5. CASE CmdKill \/ CmdQuit
      BY <1>0, <1>5, ThroughElsewhere DEF CmdKill, CmdQuit, Reap
<1>6. CASE CmdEof \/ CmdRegsFails \/ CmdDelAll
      BY <1>0, <1>6, ThroughElsewhere DEF CmdEof, CmdRegsFails, CmdDelAll
<1>7. ASSUME NEW x, \/ CmdBreak(x) \/ CmdDel(x) \/ CmdThread(x) \/ CmdWatch(x)
                    \/ CmdDelWatch(x) \/ CmdSetPc(x) \/ CmdUp(x)
      PROVE  Through'
      BY <1>0, <1>7, ThroughElsewhere
      DEF CmdBreak, CmdDel, CmdThread, CmdWatch, CmdDelWatch, CmdSetPc, CmdUp, SetPc
<1> QED BY <1>1, <1>2, <1>3, <1>4, <1>5, <1>6, <1>7 DEF UserStep, CmdStep, CmdNext

(* step_over_disabled_breakpoint and what else the debugger does.          *)
LEMMA DebuggerThrough ==
    ASSUME Control, TrapInv, Through, DebuggerStep
    PROVE  Through'
<1> USE DEF kernelVars, threadVars, Control, Phase, Waiting, Back, Die, RunFailed
<1>0. rc # "wait" => run \in {"none", "stopped"}
      BY DEF TypeOK, DebuggerTypeOK
<1>1. CASE CdbgWait
    <2>1. CASE run = "exited"
          BY <1>1, <2>1, ThroughElsewhere DEF CdbgWait, Reap
    <2>2. CASE run = "stopped"
        <3>1. UNCHANGED <<run, at, thr, pc, regs>>
              BY <1>1, <2>2 DEF CdbgWait
        <3>2. OffHere' => OffHere
            <4>1. CASE UNCHANGED bps
                  BY <3>1, <4>1 DEF OffHere, Here
            <4>2. CASE bps' = Reenabled(text, bps, CurPc)
                <5>1. \A a : DisabledAt(a, bps') => DisabledAt(a, bps)
                      BY <2>2, <4>2, BreaksReenabled, TrapTypes DEF TrapInv, Traps
                <5> QED BY <3>1, <5>1 DEF OffHere, Here
            <4> QED BY <1>1, <2>2, <4>1, <4>2 DEF CdbgWait
        <3> QED BY <2>2, <3>1, <3>2 DEF Through, Watched
    <2> QED BY <1>1, <2>1, <2>2 DEF CdbgWait
<1>2. CASE ExecReturned
    <2>1. CASE rc = "ok" /\ HasMain
        <3>1. /\ bps = <<>> /\ UNCHANGED bps /\ at' = "entry"
              BY <1>2, <2>1 DEF ExecReturned, Resume, TrapInv, Traps
        <3> QED BY <3>1 DEF Through, OffOnlyAt, OffHere, DisabledAt
    <2>2. CASE ~(rc = "ok" /\ HasMain)
          BY <1>0, <1>2, <2>2, ThroughElsewhere DEF ExecReturned
    <2> QED BY <2>1, <2>2
<1>3. CASE EntryReturned
      BY <1>0, <1>3, ThroughElsewhere DEF EntryReturned
<1>4. CASE OverReturned
    <2>1. CASE rc = "ok"
        <3>1. /\ UNCHANGED <<thr, pc, regs, bps>> /\ run = "stopped" /\ at = "over"
              /\ at' \in {"call", "resumed"} /\ run' = "cont"
              BY <1>4, <2>1 DEF OverReturned, Resume
        <3>2. OffOnlyAt(bps, Here) /\ (OffHere => Watched(thr[1]))
              BY <2>1, <3>1 DEF TrapInv, Traps, Through
        <3> QED BY <3>1, <3>2 DEF Through, OffHere, Here, Watched
    <2>2. CASE rc # "ok"
          BY <1>0, <1>4, <2>2, ThroughElsewhere DEF OverReturned
    <2> QED BY <2>1, <2>2
<1>5. CASE ResumeReturned \/ StepFailed \/ CallReturned \/ LoopStops
      BY <1>0, <1>5, ThroughElsewhere
      DEF ResumeReturned, StepFailed, CallReturned, LoopStops, InLoop
<1>6. CASE ReportBreak \/ ReportWatch \/ ReportPlain \/ WatchReturned
      BY <1>0, <1>6, ThroughElsewhere
      DEF ReportBreak, ReportWatch, ReportPlain, WatchReturned, Reporting, AfterReport,
          StepPastWatch, SingleStep
<1>7. CASE LoopWatch
      BY <1>7, ThroughElsewhere DEF LoopWatch, StepPastWatch, SingleStep
<1>8. CASE LoopAgain
      BY <1>8, AdvanceThrough DEF LoopAgain, InLoop
<1> QED BY <1>1, <1>2, <1>3, <1>4, <1>5, <1>6, <1>7, <1>8 DEF DebuggerStep

(* While the process is continued, the instruction at a breakpoint is not  *)
(* executed: an enabled one is in the text, and where a disabled one is,   *)
(* a watchpoint stops the thread.                                          *)
LEMMA ThroughCatches ==
    ASSUME Control, TrapInv, Through
    PROVE  NotThrough
<1> SUFFICES ASSUME NEW t \in Tid, run = "cont", Executed(t),
                    NEW i \in DOMAIN bps, bps[i].addr = pc[t]
             PROVE  FALSE
    BY DEF NotThrough
<1>1. /\ t \in Live(thr) /\ text[pc[t]] = "orig" /\ ~Watched(t)
      BY DEF Executed, Plain, SpawnThread, EndThread, EndProcess, Executes, Runnable
<1>2. /\ Len(thr) = 1 /\ thr \in Seq(Tid) /\ Sound(text, bps, temp)
      /\ pc \in [Tid -> Addr]
      BY TrapTypes DEF TrapInv, Traps, Control
<1>3. t = thr[1] /\ pc[t] = Here /\ Here \in Addr
      BY <1>1, <1>2, OnlyThread DEF Here
<1>4. ~IsTrap(Here, bps)
      BY <1>1, <1>2, <1>3 DEF Sound, Accounted
<1>5. OffHere
      BY <1>3, <1>4 DEF IsTrap, MatchesPc, OffHere, DisabledAt
<1> QED BY <1>1, <1>3, <1>5 DEF Through

(* A thread at a disabled breakpoint moves only in the step that was made  *)
(* for it.                                                                 *)
LEMMA KernelThrough ==
    ASSUME OneThread, Undisturbed, NoSelfBranch, Control, TrapInv, Through, KernelStep
    PROVE  Through'
<1>1. PICK t \in Tid : DebuggeeStep(t) /\ UNCHANGED debuggerVars
      BY DEF KernelStep
<1>2. run \in {"step", "cont"} /\ t \in Live(thr)
      BY <1>1 DEF DebuggeeStep, TrapBrk, TrapWatch, SignalStop,
             Executed, Plain, SpawnThread, EndThread, EndProcess, Executes, Runnable
<1>3. Len(thr) = 1 /\ stopThr = thr[1] /\ thr \in Seq(Tid) /\ Sound(text, bps, temp)
      BY <1>2, TrapTypes DEF TrapInv, Traps, Control
<1>4. UNCHANGED <<thr, text, regs, bps, at, rc>>
      BY <1>1, <1>3, ThreadStays DEF Control, debuggerVars
<1>5. t = thr[1] /\ pc[t] = Here
      BY <1>2, <1>3, OnlyThread DEF Here
<1>6. pc \in [Tid -> Addr] /\ pc[t] \in Addr
      BY TrapTypes DEF Control
<1>7. OffHere => text[Here] = "orig"
    <2>1. OffHere => ~IsTrap(Here, bps) /\ ~MatchesPc(Here, temp)
          BY <1>3 DEF OffHere, DisabledAt, IsTrap, MatchesPc, Sound, Unique, Fits
    <2>2. Here \in Addr
          BY <1>5, <1>6
    <2> QED BY <1>3, <2>1, <2>2, TrapTypes DEF Sound, Accounted, Insn, Control
<1>8. CASE TrapBrk(t)
    <2>1. ~OffHere /\ run' = "stopped" /\ UNCHANGED pc
          BY <1>5, <1>7, <1>8 DEF TrapBrk, StopWith
    <2> QED BY <1>2, <1>4, <2>1 DEF Through, OffHere, Here
<1>9. CASE TrapWatch(t)
    <2>1. Watched(t) /\ run' = "stopped" /\ UNCHANGED pc
          BY <1>9 DEF TrapWatch, StopWith
    <2>2. Watched(thr[1])'
          BY <1>4, <1>5, <2>1 DEF Watched
    <2> QED BY <1>4, <2>1, <2>2 DEF Through
<1>10. CASE SignalStop(t)
       BY <1>10 DEF SignalStop, Undisturbed
<1>11. CASE Plain(t)
    <2>1. /\ Kind[pc[t]] = "plain" /\ ~Watched(t)
          /\ \E a \in Succ[pc[t]] : pc' = [pc EXCEPT ![t] = a]
          BY <1>6, <1>11 DEF Plain, Executes, OneThread
    <2>2. Here' # Here
          BY <1>4, <1>5, <1>6, <2>1 DEF NoSelfBranch, Here
    <2>3. CASE run = "cont"
        <3>1. run' = "cont" /\ ~OffHere /\ OffOnlyAt(bps, Here)
              BY <1>5, <1>11, <2>1, <2>3 DEF Plain, Retired, Through
        <3>2. \A i \in DOMAIN bps : bps[i].enabled
              BY <3>1 DEF OffOnlyAt, OffHere, DisabledAt
        <3> QED BY <1>4, <2>3, <3>1, <3>2 DEF Through, OffOnlyAt, OffHere, DisabledAt
    <2>4. CASE run = "step"
        <3>1. run' = "stopped"
              BY <1>3, <1>5, <1>11, <2>4 DEF Plain, Retired
        <3>2. at = "over" => ~OffHere'
              BY <1>4, <2>2, <2>4 DEF Through, OffOnlyAt, OffHere, DisabledAt
        <3> QED BY <1>4, <3>1, <3>2 DEF Through
    <2> QED BY <1>2, <2>3, <2>4
<1>12. CASE EndProcess(t)
       BY <1>12 DEF EndProcess, Through
<1>13. ~SpawnThread(t) /\ ~EndThread(t)
       BY <1>3, <1>6 DEF SpawnThread, EndThread, OneThread
<1> QED BY <1>1, <1>8, <1>9, <1>10, <1>11, <1>12, <1>13 DEF DebuggeeStep, Executed

(* PT_CONTINUE never executes an instruction that has a breakpoint: with   *)
(* the reported one taken out, cdbg_continue steps before it resumes, and  *)
(* every other is in the text.                                             *)
THEOREM NoneRunThrough ==
    ASSUME OneThread, OneEach, PcKept, Undisturbed, NoSelfBranch
    PROVE  Spec => NeverRunThrough
<1>1. Init => Through
      BY DEF Init, DebuggeeInit, Through
<1>2. Control /\ TrapInv /\ Through /\ [Next]_vars => Through' /\ [NotThrough]_vars
    <2> SUFFICES ASSUME Control, TrapInv, Through, [Next]_vars
                 PROVE  Through' /\ NotThrough
        OBVIOUS
    <2>1. NotThrough
          BY ThroughCatches
    <2>2. CASE UNCHANGED vars
          BY <2>1, <2>2 DEF Through, OffHere, Here, Watched, vars, kernelVars, threadVars,
                      debuggerVars
    <2>3. CASE UserStep \/ DebuggerStep
          BY <2>1, <2>3, UserThrough, DebuggerThrough
    <2>4. CASE KernelStep
          BY <2>1, <2>4, KernelThrough
    <2> QED BY <2>2, <2>3, <2>4 DEF Next, Gone
<1>3. [][NotThrough]_vars => NeverRunThrough
      BY PTL DEF NotThrough, NeverRunThrough
<1> QED BY <1>1, <1>2, <1>3, Controlled, TrapInvariant, PTL DEF Spec
=============================================================================
