--------------------------- MODULE WatchRegisters ---------------------------
(***************************************************************************)
(* watchpoint.c: what a watched range looks like in the debug registers of *)
(* a thread, and how a trapped access is attributed to a watchpoint.  The  *)
(* byte address select field is the set of the byte offsets it has a bit   *)
(* for.  A table entry is [addr, size, kinds, slot, last], where kinds is  *)
(* a set of "load" and "store" and last the value remembered, <<>> for     *)
(* none.                                                                   *)
(***************************************************************************)
EXTENDS Memory, FiniteSets

CONSTANT MaxWps     \* CDBG_MAX_WATCHPOINTS

Granule == 8
NoWatch == [enabled |-> FALSE, wvr |-> 0, bas |-> {}, kinds |-> {}]
Slots == 0 .. MaxWps - 1

\* cdbg_watch_arm refuses what one pair of registers cannot cover.
Coverable(addr, size) == size \in 1 .. 8 /\ (addr % Granule) + size <= 8

\* Mutation: the mask is one byte short.
EncodedShort(addr, size, kinds) ==
    [enabled |-> TRUE, wvr |-> addr - (addr % Granule),
     bas |-> Span(addr % Granule, size - 1), kinds |-> kinds]

\* cdbg_watch_arm: WVR and WCR of the slot.
Encoded(addr, size, kinds) ==
    [enabled |-> TRUE, wvr |-> addr - (addr % Granule),
     bas |-> Span(addr % Granule, size), kinds |-> kinds]

\* cdbg_watch_disarm leaves the rest of the registers.
DisarmedSlot(dr, s) == [dr EXCEPT ![s].enabled = FALSE]

\* The architecture: the bytes of an access the registers trap.
Trapped(dr, a, n, kind) ==
    {x \in Span(a, n) : \E s \in DOMAIN dr :
        /\ dr[s].enabled /\ kind \in dr[s].kinds
        /\ dr[s].wvr = x - (x % Granule) /\ x % Granule \in dr[s].bas}

\* cdbg_watch_addr_hit, find_watchpoint_hit: the first entry whose range the
\* reported address is in, whatever the kind of the access.
AddrHit(wp, addr) == addr \in Span(wp.addr, wp.size)

WatchHit(wps, addr) ==
    {i \in DOMAIN wps : AddrHit(wps[i], addr) /\ \A j \in 1 .. i - 1 : ~ AddrHit(wps[j], addr)}
=============================================================================
