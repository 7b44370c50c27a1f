----------------------------- MODULE DataState -----------------------------
(***************************************************************************)
(* The data of a stopped process and the debugger's watchpoints: what set, *)
(* set $reg, up, watch and delwatch do once their expressions have been    *)
(* evaluated, and what the process does when it goes on.  DataCommands     *)
(* says which places and values the expressions have; here they are any.   *)
(* There is one thread; the tables and registers of several are in Repl.   *)
(***************************************************************************)
EXTENDS Frames, WatchRegisters, SequencesExt

CONSTANTS
    Memory0,        \* the memory when main is reached
    Stops,          \* the registers wherever the program itself stops
    CallerOf,       \* of a stop: the registers of the caller
    Accesses,       \* what the program may execute: [addr, size, kind, value]
    MaxSets,        \* how many sets one behaviour has
    MaxUps,         \* how many ups
    MaxCount        \* how many sets, watches and accesses together

\* Memory is mapped by the page, a page is whole granules, and the program
\* touches what is mapped.  Registers have their names.
ASSUME DataAssumption ==
    /\ MaxWps \in Nat /\ MaxFrames \in Nat \ {0}
    /\ PageSize % Granule = 0
    /\ Memory0 = [bytes |-> Memory0.bytes, prot |-> Memory0.prot]
    /\ Memory0.bytes = [x \in DOMAIN Memory0.bytes |-> Memory0.bytes[x]]
    /\ Memory0.prot \in [DOMAIN Memory0.prot -> {"rw", "rx"}]
    /\ DOMAIN Memory0.bytes \subseteq Int /\ DOMAIN Memory0.prot \subseteq Int
    /\ \A x \in DOMAIN Memory0.bytes : Page(x) \in DOMAIN Memory0.prot
    /\ \A q \in DOMAIN Memory0.prot :
          q % PageSize = 0 /\ Span(q, PageSize) \subseteq DOMAIN Memory0.bytes
    /\ \A a \in Accesses :
          /\ a.addr \in Int /\ a.size \in Nat /\ CanRead(Memory0, a.addr, a.size)
    /\ \A s \in Stops : {"pc", "fp"} \subseteq DOMAIN s

VARIABLES
    mem,        \* the memory
    regs,       \* the thread's registers [pc, fp, sp, lr, x0]
    wps,        \* dbg->watchpoints
    dr,         \* the thread's debug registers
    out,        \* the last answer
    stale,      \* slots whose value changed unreported (history)
    count       \* how many commands and accesses there were

vars == <<mem, regs, wps, dr, out, stale, count>>

Silent == [cmd |-> "none"]

Init ==
    /\ mem = Memory0
    /\ regs \in Stops
    /\ wps = <<>>
    /\ dr = [s \in Slots |-> NoWatch]
    /\ out = Silent
    /\ stale = {}
    /\ count = [sets |-> 0, ups |-> 0, all |-> 0]

-----------------------------------------------------------------------------
(* set                                                                     *)

\* A command that fails, or only looks.
Refused ==
    /\ out' = Silent
    /\ UNCHANGED <<mem, regs, wps, dr, stale, count>>

Changed(new) == {x \in DOMAIN mem.bytes : new.bytes[x] # mem.bytes[x]}
SlotsOver(bytes) == {wps[i].slot : i \in {j \in DOMAIN wps : Span(wps[j].addr, wps[j].size) \cap bytes # {}}}

Counted(kind, bound) ==
    /\ count[kind] < bound /\ count.all < MaxCount
    /\ count' = [count EXCEPT ![kind] = @ + 1, !.all = @ + 1]

\* The end of cmd_set: the value is written to the place of the expression l.
Store(l, addr, size, value) ==
    /\ Counted("sets", MaxSets)
    /\ \E w \in WriteScalar(mem, addr, size, value) :
         /\ mem' = w.mem
         /\ out' = [cmd |-> "set", lhs |-> l, addr |-> addr, size |-> size,
                    ok |-> w.ok, value |-> value]
         /\ stale' = stale \cup SlotsOver(Changed(w.mem))
    /\ UNCHANGED <<regs, wps, dr>>

\* cdbg_regs_set_by_name
StoreRegister(f, value) ==
    /\ regs' = [regs EXCEPT ![f] = value]
    /\ Counted("sets", MaxSets)
    /\ out' = Silent
    /\ UNCHANGED <<mem, wps, dr, stale>>

-----------------------------------------------------------------------------
(* up                                                                      *)

\* cdbg_frame_up: the caller's registers are written into the thread.
CmdUp ==
    /\ count.ups < MaxUps
    /\ count' = [count EXCEPT !.ups = @ + 1]
    /\ IF FrameUp(mem, regs) = {}
       THEN out' = Silent /\ regs' = regs
       ELSE out' = [cmd |-> "up"] /\ regs' \in FrameUp(mem, regs)
    /\ UNCHANGED <<mem, wps, dr, stale>>

-----------------------------------------------------------------------------
(* watch, delwatch                                                         *)

FreeSlots == {s \in Slots : /\ \A i \in DOMAIN wps : wps[i].slot # s
                            /\ \A r \in 0 .. s - 1 : \E i \in DOMAIN wps : wps[i].slot = r}

\* Mutation: the initial value is a word, whatever the size of the place.
InitialWord(addr, size) ==
    IF CanRead(mem, addr, WordSize) THEN <<ValueOf(ReadBytes(mem, addr, WordSize))>> ELSE <<>>

Initial(addr, size) ==
    IF CanRead(mem, addr, size) THEN <<ValueOf(ReadBytes(mem, addr, size))>> ELSE <<>>

\* The end of cmd_watch.
Room == Len(wps) < MaxWps
WatchRange(addr, size, kinds) ==
    /\ Coverable(addr, size) /\ Room
    /\ count.all < MaxCount
    /\ count' = [count EXCEPT !.all = @ + 1]
    /\ \E s \in FreeSlots :
         /\ wps' = Append(wps, [addr |-> addr, size |-> size, kinds |-> kinds,
                                slot |-> s, last |-> Initial(addr, size)])
         /\ dr' = [dr EXCEPT ![s] = Encoded(addr, size, kinds)]
         /\ stale' = stale \ {s}
    /\ out' = Silent
    /\ UNCHANGED <<mem, regs>>

\* delete_watchpoint_at
CmdDelWatch(i) ==
    /\ i \in DOMAIN wps
    /\ dr' = DisarmedSlot(dr, wps[i].slot)
    /\ wps' = RemoveAt(wps, i)
    /\ out' = Silent
    /\ UNCHANGED <<mem, regs, stale, count>>

-----------------------------------------------------------------------------
(* continue                                                                *)

\* The program goes on until it is at another stop.
Resume(stop) ==
    /\ regs \in Stops /\ regs # stop
    /\ regs' = stop
    /\ out' = Silent
    /\ UNCHANGED <<mem, wps, dr, stale, count>>

Performed(a) ==
    IF a.kind = "store" THEN Put(mem, a.addr, BytesOf(a.value, a.size)) ELSE mem

\* step_past_all_watchpoints arms every entry again.
Rearmed ==
    [s \in Slots |-> IF \E i \in DOMAIN wps : wps[i].slot = s
        THEN LET wp == wps[CHOOSE i \in DOMAIN wps : wps[i].slot = s]
             IN  Encoded(wp.addr, wp.size, wp.kinds)
        ELSE dr[s]]

\* The program loads or stores.  When that traps, the address reported is one
\* the access touches, not above the last watched byte of it.
\* try_report_watchpoint_hit attributes it to an entry, or to none;
\* step_past_all_watchpoints disarms and arms every entry around the step, and
\* handle_watchpoint_hit tells the value remembered and the new one.
Access(a) ==
    LET trapped == Trapped(dr, a.addr, a.size, a.kind)
        over == SlotsOver(Changed(Performed(a)))
    IN  /\ count.all < MaxCount
        /\ count' = [count EXCEPT !.all = @ + 1]
        /\ mem' = Performed(a)
        /\ dr' = Rearmed
        /\ \/ /\ trapped = {}
              /\ out' = [cmd |-> "ran", by |-> a]
              /\ stale' = stale \cup over
              /\ wps' = wps
           \/ \E far \in Span(a.addr, a.size) :
              /\ \E x \in trapped : far <= x
              /\ \/ /\ WatchHit(wps, far) = {}
                    /\ out' = [cmd |-> "near", by |-> a]
                    /\ stale' = stale \cup over
                    /\ wps' = wps
                 \/ \E i \in WatchHit(wps, far) :
                    /\ wps' = [wps EXCEPT ![i].last =
                         <<ValueOf(ReadBytes(mem', wps[i].addr, wps[i].size))>>]
                    /\ out' = [cmd |-> "hit", by |-> a, entry |-> i,
                               old |-> IF a.kind = "store" THEN wps[i].last ELSE <<>>,
                               new |-> wps'[i].last]
                    /\ stale' = (stale \cup over) \ {wps[i].slot}
        /\ UNCHANGED regs

-----------------------------------------------------------------------------
(* Any place and any value: a step tells which ones it was made with.      *)

WordsOf64 == 0 .. WordValues - 1

SetAny ==
    /\ out'.cmd = "set" /\ out'.addr \in WordsOf64 /\ out'.size \in Nat /\ out'.value \in WordsOf64
    /\ Store(out'.lhs, out'.addr, out'.size, out'.value)
SetAnyRegister == \E f \in DOMAIN regs : regs'[f] \in WordsOf64 /\ StoreRegister(f, regs'[f])
WatchAny ==
    LET wp == Last(wps')
    IN  wps' # <<>> /\ wp.addr \in WordsOf64 /\ WatchRange(wp.addr, wp.size, wp.kinds)

AnyStep ==
    \/ Refused \/ SetAny \/ SetAnyRegister \/ CmdUp \/ WatchAny
    \/ \E i \in DOMAIN wps : CmdDelWatch(i)
    \/ \E s \in Stops : Resume(s)
    \/ \E a \in Accesses : Access(a)

AnyDataSpec == Init /\ [][AnyStep]_vars

-----------------------------------------------------------------------------
(* Properties                                                              *)

\* Text never stays writable, and a data page never loses its permission except
\* through a write that leaves the page (mem_write_mach gives the first page of
\* a refused write the protection of text).
PagesKept ==
    [][\A q \in DOMAIN mem.prot :
        /\ mem.prot[q] = "rx" => mem'.prot[q] = "rx"
        /\ mem'.prot[q] # mem.prot[q] =>
              /\ out'.cmd = "set"
              /\ q = Page(out'.addr)
              /\ Page(out'.addr + ScalarBytes(out'.size) - 1) # q]_vars

\* up goes where bt says: what bt shows after it is what it showed before
\* without the first frame, and at most one frame more where bt had stopped at
\* its limit (cdbg_regs_frame_up against frame_record_next and cmd_backtrace).
UpFollowsBt ==
    [][out'.cmd = "up" =>
        LET before == Backtrace(mem, regs)
            after == Backtrace(mem', regs')
        IN  Len(before) > 1 =>
              /\ IsPrefix(Tail(before), after)
              /\ Len(before) < MaxFrames => after = Tail(before)]_vars

\* The registers after up are the ones the caller has, sp included, if its
\* record was not changed (cdbg_regs_frame_up).
UpIsCaller ==
    [][(/\ out'.cmd = "up" /\ regs' # regs
        /\ regs \in Stops
        /\ \A x \in Span(regs.fp, 2 * WordSize) : mem.bytes[x] = Memory0.bytes[x])
        => [pc |-> regs'.pc, fp |-> regs'.fp, sp |-> regs'.sp] = CallerOf[regs]]_vars

\* The program is stopped by an access exactly when it touches a watched byte
\* with a kind that is watched, however the ranges lie in their granules, and a
\* stop that names a watchpoint names one the access touched.
Touches(wp, a) == Span(wp.addr, wp.size) \cap Span(a.addr, a.size) # {}
HitReported ==
    [][out'.cmd \in {"ran", "near", "hit"} =>
        LET a == out'.by
        IN  /\ (out'.cmd \in {"hit", "near"}) <=>
                  (\E i \in DOMAIN wps : a.kind \in wps[i].kinds /\ Touches(wps[i], a))
            /\ out'.cmd = "hit" => Touches(wps[out'.entry], a)]_vars

\* The old value told at a write is the one the place had, and the new one the
\* one it has now, unless set or an access told of another watchpoint, or of
\* none, changed it in between (handle_watchpoint_hit; only hits refresh
\* last_value).
OldValueTrue ==
    [][out'.cmd = "hit" =>
        LET wp == wps[out'.entry]
        IN  /\ out'.old # <<>> /\ wp.slot \notin stale =>
                  out'.old[1] = ValueOf(ReadBytes(mem, wp.addr, wp.size))
            /\ out'.new[1] = ValueOf(ReadBytes(mem', wp.addr, wp.size))]_vars
=============================================================================
