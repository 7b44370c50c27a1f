----------------------------- MODULE DataProofs -----------------------------
(***************************************************************************)
(* Theorems about memory, the debug registers, the values told of a watch- *)
(* point and up, for every address, size and table.  Addresses are         *)
(* unbounded here and in the modules.                                      *)
(***************************************************************************)
EXTENDS DataState, SequenceLemmas

-----------------------------------------------------------------------------
(* The write                                                               *)

\* A memory, and what a write of these bytes at a may leave behind: the first
\* k of them, and the first page as it was or with the protection of text.
IsMemory(m) ==
    /\ m = [bytes |-> m.bytes, prot |-> m.prot]
    /\ m.bytes = [x \in DOMAIN m.bytes |-> m.bytes[x]]
    /\ m.prot = [p \in DOMAIN m.prot |-> m.prot[p]]

FirstBytes(m, a, bytes, k) == Put(m, a, SubSeq(bytes, 1, k)).bytes

ClosedOrSame(m, a, new) ==
    \A p \in DOMAIN m.prot : new.prot[p] = m.prot[p] \/ (p = Page(a) /\ new.prot[p] = "rx")

(* Writing nothing changes nothing.                                        *)
LEMMA PutNothing ==
    ASSUME NEW m, IsMemory(m), NEW a \in Int, NEW V, NEW bytes \in Seq(V)
    PROVE  FirstBytes(m, a, bytes, 0) = m.bytes
<1>1. Len(SubSeq(bytes, 1, 0)) = 0
      OBVIOUS
<1>2. Span(a, 0) = {}
      BY DEF Span
<1> QED BY <1>1, <1>2 DEF IsMemory, FirstBytes, Put

(* The Mach part of a write: all or nothing of the bytes, and the page.    *)
LEMMA MachWriteOutcome ==
    ASSUME NEW m, IsMemory(m), NEW a \in Int, NEW V, NEW bytes \in Seq(V),
           NEW w \in MachWrite(m, a, bytes)
    PROVE  /\ IsMemory(w.mem)
           /\ w.mem.bytes = IF w.ok THEN Put(m, a, bytes).bytes ELSE m.bytes
           /\ DOMAIN w.mem.prot = DOMAIN m.prot
           /\ ClosedOrSame(m, a, w.mem)
<1> USE DEF Outcome
<1>1. CASE w = Outcome(TRUE, Put(m, a, bytes))
    <2>1. w.mem = [bytes |-> Put(m, a, bytes).bytes, prot |-> m.prot] /\ w.ok = TRUE
          BY <1>1 DEF Put, IsMemory
    <2> QED BY <2>1 DEF Put, IsMemory, ClosedOrSame
<1>2. CASE w = Outcome(FALSE, m)
    <2>1. w.mem = m /\ w.ok = FALSE
          BY <1>2
    <2> QED BY <2>1 DEF IsMemory, ClosedOrSame
<1>3. ASSUME NEW p \in {Page(a)} \cap DOMAIN m.prot, NEW done \in BOOLEAN,
             NEW open, open = [m EXCEPT !.prot[p] = "rw"],
             NEW written, written = (IF done THEN Put(open, a, bytes) ELSE open),
             w = Outcome(done, [written EXCEPT !.prot[p] = "rx"])
      PROVE  /\ IsMemory(w.mem)
             /\ w.mem.bytes = IF w.ok THEN Put(m, a, bytes).bytes ELSE m.bytes
             /\ DOMAIN w.mem.prot = DOMAIN m.prot
             /\ ClosedOrSame(m, a, w.mem)
    <2>1. open = [bytes |-> m.bytes, prot |-> [m.prot EXCEPT ![p] = "rw"]]
          BY <1>3 DEF IsMemory
    <2>2. written = [bytes |-> IF done THEN Put(m, a, bytes).bytes ELSE m.bytes,
                     prot |-> [m.prot EXCEPT ![p] = "rw"]]
          BY <1>3, <2>1 DEF Put, IsMemory
    <2>3. w.mem = [bytes |-> IF done THEN Put(m, a, bytes).bytes ELSE m.bytes,
                   prot |-> [m.prot EXCEPT ![p] = "rx"]]
        <3>1. written.prot = [m.prot EXCEPT ![p] = "rw"]
              BY <2>2
        <3>2. [written.prot EXCEPT ![p] = "rx"] = [m.prot EXCEPT ![p] = "rx"]
              BY <3>1
        <3>3. w.mem = [written EXCEPT !.prot[p] = "rx"]
              BY <1>3
        <3> QED BY <2>2, <3>2, <3>3
    <2>4. w.ok = done
          BY <1>3
    <2>5. w.mem.bytes = (IF w.ok THEN Put(m, a, bytes).bytes ELSE m.bytes)
          BY <2>3, <2>4
    <2>6. Put(m, a, bytes).bytes = [x \in DOMAIN m.bytes |-> Put(m, a, bytes).bytes[x]]
          BY DEF Put, IsMemory
    <2>7. w.mem.bytes = [x \in DOMAIN w.mem.bytes |-> w.mem.bytes[x]]
          BY <2>5, <2>6 DEF IsMemory
    <2>8. w.mem.prot = [q \in DOMAIN m.prot |-> IF q = p THEN "rx" ELSE m.prot[q]]
          BY <2>3 DEF IsMemory
    <2>9. IsMemory(w.mem)
          BY <2>3, <2>7, <2>8 DEF IsMemory
    <2> QED BY <2>5, <2>8, <2>9 DEF ClosedOrSame
<1> QED BY <1>1, <1>2, <1>3 DEF MachWrite, Writable

(* Whatever Mach and ptrace refuse and wherever they stop, a write of      *)
(* cdbg_mem_write leaves a first part of its bytes and nothing else        *)
(* changed; all of them when it reports success; and no page but the first *)
(* one gets another protection, which is then that of text.                *)
THEOREM WriteTouchesItsRange ==
    ASSUME NEW m, IsMemory(m), NEW a \in Int, NEW V, NEW bytes \in Seq(V),
           NEW w \in WriteOutcomes(m, a, bytes)
    PROVE  /\ \E k \in 0 .. Len(bytes) :
                /\ w.mem.bytes = FirstBytes(m, a, bytes, k)
                /\ w.ok => k = Len(bytes)
           /\ IsMemory(w.mem) /\ DOMAIN w.mem.prot = DOMAIN m.prot
           /\ ClosedOrSame(m, a, w.mem)
<1>1. PICK mach \in MachWrite(m, a, bytes) :
           w \in (IF mach.ok THEN {mach} ELSE PtraceWrite(mach.mem, a, bytes))
      BY DEF WriteOutcomes
<1>2. /\ IsMemory(mach.mem)
      /\ mach.mem.bytes = IF mach.ok THEN Put(m, a, bytes).bytes ELSE m.bytes
      /\ DOMAIN mach.mem.prot = DOMAIN m.prot
      /\ ClosedOrSame(m, a, mach.mem)
      BY MachWriteOutcome
<1>3. CASE mach.ok
    <2>1. w = mach /\ SubSeq(bytes, 1, Len(bytes)) = bytes /\ Len(bytes) \in 0 .. Len(bytes)
          BY <1>1, <1>3
    <2> QED BY <1>2, <1>3, <2>1 DEF FirstBytes
<1>4. CASE ~ mach.ok
    <2>1. PICK k \in 0 .. Len(bytes) :
               w = Outcome(k = Len(bytes), Put(mach.mem, a, SubSeq(bytes, 1, k)))
          BY <1>1, <1>4 DEF PtraceWrite
    <2>2. w.mem = Put(mach.mem, a, SubSeq(bytes, 1, k)) /\ w.ok = (k = Len(bytes))
          BY <2>1 DEF Outcome
    <2>3. w.mem.bytes = FirstBytes(m, a, bytes, k)
        <3> DEFINE part == SubSeq(bytes, 1, k)
        <3>1. /\ w.mem.bytes = [x \in DOMAIN mach.mem.bytes |->
                    IF x \in Span(a, Len(part)) THEN part[x - a + 1] ELSE mach.mem.bytes[x]]
              /\ mach.mem.bytes = m.bytes
              BY <1>2, <1>4, <2>2 DEF Put, IsMemory
        <3>2. FirstBytes(m, a, bytes, k) = [x \in DOMAIN m.bytes |->
                    IF x \in Span(a, Len(part)) THEN part[x - a + 1] ELSE m.bytes[x]]
              BY DEF FirstBytes, Put, IsMemory
        <3> QED BY <3>1, <3>2
    <2>4. w.mem.prot = mach.mem.prot /\ IsMemory(w.mem)
          BY <1>2, <2>2 DEF Put, IsMemory
    <2> QED BY <1>2, <2>2, <2>3, <2>4 DEF ClosedOrSame
<1> QED BY <1>3, <1>4

-----------------------------------------------------------------------------
(* The debug registers                                                     *)

Kinds == SUBSET {"load", "store"}

(* The mask of one pair of registers selects the bytes of the range and no *)
(* others, also at the end of its granule and in the granules beside it.   *)
LEMMA MaskIsRange ==
    ASSUME NEW addr \in Int, NEW size \in Int, Coverable(addr, size), NEW x \in Int, NEW kinds
    PROVE  LET r == Encoded(addr, size, kinds)
           IN  r.wvr = x - (x % Granule) /\ x % Granule \in r.bas <=> x \in Span(addr, size)
<1> DEFINE off == addr % Granule
<1>1. off \in 0 .. 7 /\ x % Granule \in 0 .. 7 /\ off + size <= 8
      BY DEF Granule, Coverable
<1>2. addr - off = x - (x % Granule) /\ x % Granule \in off .. off + size - 1
      <=> x \in addr .. addr + size - 1
      BY <1>1, SMTT(60) DEF Granule, Coverable
<1> QED BY <1>2 DEF Encoded, Span

\* What the table and the registers have in common (WatchRegsAccounted for a
\* single thread).
Accounted(d, t) ==
    /\ DOMAIN d = Slots
    /\ \A i \in DOMAIN t :
          /\ t[i].addr \in Int /\ t[i].size \in Int /\ Coverable(t[i].addr, t[i].size)
          /\ t[i].slot \in Slots
          /\ d[t[i].slot] = Encoded(t[i].addr, t[i].size, t[i].kinds)
    /\ \A s \in Slots : d[s].enabled => \E i \in DOMAIN t : t[i].slot = s

(* With the table in the registers, the bytes of an access that trap are   *)
(* exactly those that an entry watches for this kind of access, for any    *)
(* number of entries, overlapping or sharing a granule.                    *)
THEOREM TrapsAreWatched ==
    ASSUME NEW d, NEW t, Accounted(d, t), NEW a \in Int, NEW n \in Int, NEW kind
    PROVE  Trapped(d, a, n, kind) =
               {x \in Span(a, n) : \E i \in DOMAIN t :
                    kind \in t[i].kinds /\ x \in Span(t[i].addr, t[i].size)}
<1> SUFFICES ASSUME NEW x \in Span(a, n)
             PROVE  (\E s \in DOMAIN d :
                        /\ d[s].enabled /\ kind \in d[s].kinds
                        /\ d[s].wvr = x - (x % Granule) /\ x % Granule \in d[s].bas)
                    <=> \E i \in DOMAIN t :
                            kind \in t[i].kinds /\ x \in Span(t[i].addr, t[i].size)
      BY DEF Trapped
<1>1. x \in Int
      BY DEF Span
<1>2. ASSUME NEW i \in DOMAIN t
      PROVE  LET r == d[t[i].slot]
             IN  /\ r.enabled /\ r.kinds = t[i].kinds
                 /\ r.wvr = x - (x % Granule) /\ x % Granule \in r.bas
                    <=> x \in Span(t[i].addr, t[i].size)
    <2>1. d[t[i].slot] = Encoded(t[i].addr, t[i].size, t[i].kinds)
          BY DEF Accounted
    <2>2. LET r == Encoded(t[i].addr, t[i].size, t[i].kinds)
          IN  r.wvr = x - (x % Granule) /\ x % Granule \in r.bas
              <=> x \in Span(t[i].addr, t[i].size)
          BY <1>1, MaskIsRange DEF Accounted
    <2> QED BY <2>1, <2>2 DEF Encoded
<1>3. ASSUME NEW s \in DOMAIN d, d[s].enabled
      PROVE  \E i \in DOMAIN t : t[i].slot = s
      BY <1>3 DEF Accounted
<1>4. ASSUME NEW i \in DOMAIN t
      PROVE  t[i].slot \in DOMAIN d
      BY DEF Accounted
<1> QED BY <1>2, <1>3, <1>4
-----------------------------------------------------------------------------
(* Pages                                                                   *)

\* The memory is that of the beginning but for its bytes and protections.
MemoryKept(m) ==
    /\ IsMemory(m)
    /\ DOMAIN m.bytes = DOMAIN Memory0.bytes /\ DOMAIN m.prot = DOMAIN Memory0.prot
    /\ \A q \in DOMAIN m.prot : m.prot[q] \in {"rw", "rx"}

(* Quotient and rest.                                                      *)
LEMMA Division ==
    ASSUME NEW n \in Nat \ {0}, NEW x \in Int
    PROVE  x = (x \div n) * n + (x % n) /\ x % n \in 0 .. n - 1 /\ x \div n \in Int
OBVIOUS

(* The addresses of a page have no other page.                             *)
LEMMA PageOf ==
    ASSUME NEW x \in Int
    PROVE  /\ Page(x) \in Int /\ Page(x) % PageSize = 0 /\ x \in Span(Page(x), PageSize)
           /\ \A q \in Int : q % PageSize = 0 /\ x \in Span(q, PageSize) => Page(x) = q
<1>1. PageSize \in Nat \ {0} /\ x % PageSize \in 0 .. PageSize - 1 /\ x \div PageSize \in Int
      BY MemoryAssumption
<1>2. x = (x \div PageSize) * PageSize + (x % PageSize)
      BY <1>1, Division
<1>3. Page(x) = (x \div PageSize) * PageSize
      BY <1>1, <1>2 DEF Page
<1>4. Page(x) \in Int /\ Page(x) % PageSize = 0
      BY <1>1, <1>3, Multiple
<1>5. x \in Span(Page(x), PageSize)
      BY <1>1 DEF Page, Span
<1>6. ASSUME NEW q \in Int, q % PageSize = 0, x \in Span(q, PageSize)
      PROVE  Page(x) = q
    <2> DEFINE k == q \div PageSize
               r == x - q
    <2>1. k \in Int /\ k * PageSize = q
          BY <1>1, <1>6, Multiple
    <2>2. r \in 0 .. PageSize - 1
          BY <1>1, <1>6 DEF Span
    <2>3. r + PageSize * k = x
          BY <1>1, <2>1
    <2> HIDE DEF k, r
    <2>4. (r + PageSize * k) % PageSize = r
          BY <1>1, <2>1, <2>2, DivMod
    <2>5. x % PageSize = r
          BY <2>3, <2>4
    <2> QED BY <2>5, <2>1 DEF Page, r
<1> QED BY <1>4, <1>5, <1>6

(* Between two addresses of a page is nothing else.                        *)
LEMMA PageBetween ==
    ASSUME NEW a \in Int, NEW b \in Int, Page(a) = Page(b), NEW x \in a .. b
    PROVE  Page(x) = Page(a)
<1>1. PageSize \in Nat \ {0}
      BY MemoryAssumption
<1>2. /\ Page(a) \in Int /\ Page(a) % PageSize = 0
      /\ a \in Span(Page(a), PageSize) /\ b \in Span(Page(a), PageSize)
      BY PageOf
<1>3. x \in Int /\ x \in Span(Page(a), PageSize)
      BY <1>1, <1>2 DEF Span
<1> QED BY <1>2, <1>3, PageOf

(* What is put leaves the protections and what is mapped.                  *)
LEMMA PutIs ==
    ASSUME NEW m, IsMemory(m), NEW a, NEW bytes
    PROVE  /\ IsMemory(Put(m, a, bytes)) /\ Put(m, a, bytes).prot = m.prot
           /\ DOMAIN Put(m, a, bytes).bytes = DOMAIN m.bytes
<1> DEFINE new == [x \in DOMAIN m.bytes |->
                      IF x \in Span(a, Len(bytes)) THEN bytes[x - a + 1] ELSE m.bytes[x]]
<1>1. Put(m, a, bytes) = [m EXCEPT !.bytes = new]
      BY DEF Put
<1>2. DOMAIN new = DOMAIN m.bytes /\ new = [x \in DOMAIN new |-> new[x]]
      OBVIOUS
<1> HIDE DEF new
<1>3. Put(m, a, bytes) = [bytes |-> new, prot |-> m.prot]
      BY <1>1 DEF IsMemory
<1> QED BY <1>2, <1>3 DEF IsMemory

(* A range of one page that may be written is written: the protection is   *)
(* only touched when the range is of text or leaves its page.              *)
LEMMA PageOfWrite ==
    ASSUME DataAssumption, NEW m, MemoryKept(m), NEW a \in Int, NEW V, NEW bytes \in Seq(V), bytes # <<>>,
           NEW w \in WriteOutcomes(m, a, bytes), NEW q \in DOMAIN m.prot,
           w.mem.prot[q] # m.prot[q]
    PROVE  q = Page(a) /\ m.prot[q] = "rw" /\ Page(a + Len(bytes) - 1) # q
<1>1. q = Page(a) /\ w.mem.prot[q] = "rx" /\ m.prot[q] = "rw"
      BY WriteTouchesItsRange DEF MemoryKept, ClosedOrSame
<1>2. ASSUME Page(a + Len(bytes) - 1) = q
      PROVE  FALSE
    <2>1. Len(bytes) \in Nat /\ a + Len(bytes) - 1 \in Int
          OBVIOUS
    <2>2. \A x \in Span(a, Len(bytes)) : x \in Int /\ Page(x) = q
          BY <1>1, <1>2, <2>1, PageBetween DEF Span
    <2>3. Span(q, PageSize) \subseteq DOMAIN m.bytes
          BY DEF DataAssumption, MemoryKept
    <2>4. CanRead(m, a, Len(bytes))
          BY <2>2, <2>3, PageOf DEF CanRead
    <2>5. Writable(m, a, Len(bytes))
          BY <1>1, <2>2, <2>4 DEF Writable
    <2>6. MachWrite(m, a, bytes) = {Outcome(TRUE, Put(m, a, bytes))}
          BY <2>5 DEF MachWrite
    <2>7. w = Outcome(TRUE, Put(m, a, bytes))
          BY <2>6 DEF WriteOutcomes, Outcome
    <2>8. w.mem = Put(m, a, bytes)
          BY <2>7 DEF Outcome
    <2>9. w.mem.prot = m.prot
          BY <2>8, PutIs DEF MemoryKept
    <2> QED BY <2>9
<1> QED BY <1>1, <1>2

(* What the process itself stores leaves the protections.                  *)
LEMMA PerformedKeeps ==
    ASSUME NEW a, MemoryKept(mem)
    PROVE  /\ MemoryKept(Performed(a)) /\ Performed(a).prot = mem.prot
           /\ DOMAIN Performed(a).bytes = DOMAIN mem.bytes
BY PutIs DEF MemoryKept, Performed

(* The bytes of a value, and how many a scalar has.                        *)
LEMMA BytesOfIs ==
    ASSUME NEW value, NEW n \in Nat
    PROVE  /\ BytesOf(value, n) \in Seq(Range(BytesOf(value, n)))
           /\ Len(BytesOf(value, n)) = n
<1> DEFINE b == BytesOf(value, n)
<1>1. b = [i \in 1 .. n |-> b[i]]
      BY DEF BytesOf
<1> HIDE DEF b
<1>2. b \in Seq(Range(b)) /\ Len(b) = n
      BY <1>1, FunctionSeq
<1> QED BY <1>2 DEF b

(* A scalar has 1 to 8 bytes.                                              *)
LEMMA ScalarBytesIs ==
    ASSUME NEW n
    PROVE  ScalarBytes(n) \in 1 .. 8
BY DEF ScalarBytes, WordSize

(* What set does to the memory.                                            *)
LEMMA StoreKeeps ==
    ASSUME DataAssumption, MemoryKept(mem), NEW l, NEW addr \in Int, NEW size, NEW value,
           Store(l, addr, size, value)
    PROVE  /\ MemoryKept(mem')
           /\ \A q \in DOMAIN mem.prot : mem'.prot[q] # mem.prot[q] =>
                 /\ q = Page(addr) /\ mem.prot[q] = "rw"
                 /\ Page(addr + ScalarBytes(size) - 1) # q
           /\ out'.addr = addr /\ out'.size = size /\ out'.cmd = "set"
<1> DEFINE n == ScalarBytes(size)
           bytes == BytesOf(value, n)
           V == Range(bytes)
<1>1. n \in 1 .. 8
      BY ScalarBytesIs
<1>2. n \in Nat /\ bytes \in Seq(V) /\ Len(bytes) = n
    <2> HIDE DEF n
    <2> QED BY <1>1, BytesOfIs
<1>3. PICK w \in WriteOutcomes(mem, addr, bytes) : mem' = w.mem
      BY DEF Store, WriteScalar
<1>4. out'.addr = addr /\ out'.size = size /\ out'.cmd = "set"
      BY DEF Store
<1> HIDE DEF n, bytes, V
<1>5. bytes # <<>>
      BY <1>1, <1>2
<1>6. /\ \E k \in 0 .. Len(bytes) : w.mem.bytes = FirstBytes(mem, addr, bytes, k)
      /\ IsMemory(w.mem) /\ DOMAIN w.mem.prot = DOMAIN mem.prot
      /\ ClosedOrSame(mem, addr, w.mem)
      BY <1>2, WriteTouchesItsRange DEF MemoryKept
<1>7. MemoryKept(mem')
    <2>1. \A k \in 0 .. Len(bytes) :
             DOMAIN FirstBytes(mem, addr, bytes, k) = DOMAIN mem.bytes
        <3>1. \A c : DOMAIN Put(mem, addr, c).bytes = DOMAIN mem.bytes
              BY DEF Put, MemoryKept, IsMemory
        <3> QED BY <3>1 DEF FirstBytes
    <2>2. \A q \in DOMAIN mem.prot : w.mem.prot[q] \in {"rw", "rx"}
          BY <1>6 DEF ClosedOrSame, MemoryKept
    <2> QED BY <1>3, <1>6, <2>1, <2>2 DEF MemoryKept
<1>8. \A q \in DOMAIN mem.prot : mem'.prot[q] # mem.prot[q] =>
         q = Page(addr) /\ mem.prot[q] = "rw" /\ Page(addr + Len(bytes) - 1) # q
      BY <1>2, <1>3, <1>5, PageOfWrite
<1> QED BY <1>2, <1>4, <1>7, <1>8 DEF n

(* set stores at an integer.                                               *)
LEMMA SetAnyIs ==
    ASSUME SetAny
    PROVE  /\ out'.addr \in Int
           /\ Store(out'.lhs, out'.addr, out'.size, out'.value)
<1>1. WordValues \in Int \/ WordsOf64 \subseteq Int
      BY DEF WordsOf64
<1> QED BY <1>1 DEF SetAny, WordsOf64
-----------------------------------------------------------------------------
(* The table of watchpoints                                                *)

\* The table is a sequence of entries, no two with one slot.
Tabled(t) ==
    /\ t \in Seq(Range(t))
    /\ \A i \in DOMAIN t : {"addr", "size", "kinds", "slot", "last"} \subseteq DOMAIN t[i]
    /\ \A i, j \in DOMAIN t : t[i].slot = t[j].slot => i = j

\* A value that is remembered is that of the place, unless something changed it
\* unreported.
Remembered(m, t, st) ==
    \A i \in DOMAIN t : t[i].last # <<>> =>
        /\ CanRead(m, t[i].addr, t[i].size)
        /\ t[i].slot \notin st => t[i].last = <<ValueOf(ReadBytes(m, t[i].addr, t[i].size))>>

WatchInv == Tabled(wps) /\ Accounted(dr, wps) /\ Remembered(mem, wps, stale)

\* t and u are the same but for the values remembered.
SameRanges(t, u) ==
    /\ DOMAIN u = DOMAIN t
    /\ \A i \in DOMAIN t : /\ u[i].addr = t[i].addr /\ u[i].size = t[i].size
                           /\ u[i].kinds = t[i].kinds /\ u[i].slot = t[i].slot

(* Arming every entry again changes no register.                           *)
LEMMA RearmedIs ==
    ASSUME Accounted(dr, wps)
    PROVE  DOMAIN Rearmed = Slots /\ \A s \in Slots : Rearmed[s] = dr[s]
<1>1. DOMAIN Rearmed = Slots
      BY DEF Rearmed
<1>2. ASSUME NEW s \in Slots
      PROVE  Rearmed[s] = dr[s]
    <2>1. CASE \E i \in DOMAIN wps : wps[i].slot = s
        <3> DEFINE i == CHOOSE i \in DOMAIN wps : wps[i].slot = s
        <3>1. i \in DOMAIN wps /\ wps[i].slot = s
              BY <2>1
        <3>2. Rearmed[s] = Encoded(wps[i].addr, wps[i].size, wps[i].kinds)
              BY <2>1 DEF Rearmed
        <3> HIDE DEF i
        <3> QED BY <3>1, <3>2 DEF Accounted
    <2>2. CASE ~ \E i \in DOMAIN wps : wps[i].slot = s
          BY <2>2 DEF Rearmed
    <2> QED BY <2>1, <2>2
<1> QED BY <1>1, <1>2

(* What registers and table have in common does not depend on the values.  *)
LEMMA AccountedSame ==
    ASSUME NEW d, NEW e, NEW t, NEW u, Accounted(d, t), SameRanges(t, u),
           DOMAIN e = Slots, \A s \in Slots : e[s] = d[s]
    PROVE  Accounted(e, u)
BY DEF Accounted, SameRanges

(* A hit refreshes the value of its entry.                                 *)
LEMMA Refreshed ==
    ASSUME Tabled(wps), NEW i \in DOMAIN wps, NEW v, wps' = [wps EXCEPT ![i].last = v]
    PROVE  /\ Tabled(wps') /\ SameRanges(wps, wps') /\ wps'[i].last = v
           /\ \A j \in DOMAIN wps \ {i} : wps'[j] = wps[j]
<1> DEFINE e == [wps[i] EXCEPT !.last = v]
<1>1. /\ DOMAIN e = DOMAIN wps[i] /\ e.last = v /\ e.addr = wps[i].addr /\ e.size = wps[i].size
      /\ e.kinds = wps[i].kinds /\ e.slot = wps[i].slot
      BY DEF Tabled
<1>2. wps' = [wps EXCEPT ![i] = e]
      OBVIOUS
<1> HIDE DEF e
<1>3. wps \in Seq(Range(wps)) /\ DOMAIN wps = 1 .. Len(wps) /\ Len(wps) \in Nat
      BY DEF Tabled
<1>4. DOMAIN wps' = DOMAIN wps /\ wps'[i] = e /\ \A j \in DOMAIN wps \ {i} : wps'[j] = wps[j]
      BY <1>2, <1>3
<1>5. wps' \in Seq(Range(wps'))
    <2>1. wps' = [j \in 1 .. Len(wps) |-> wps'[j]]
          BY <1>2, <1>3
    <2> DEFINE n == Len(wps)
    <2>2. n \in Nat /\ wps' = [j \in 1 .. n |-> wps'[j]]
          BY <1>3, <2>1
    <2> HIDE DEF n
    <2> QED BY <2>2, FunctionSeq
<1>6. SameRanges(wps, wps')
      BY <1>1, <1>4 DEF SameRanges
<1>7. Tabled(wps')
    <2>1. \A j \in DOMAIN wps' : {"addr", "size", "kinds", "slot", "last"} \subseteq DOMAIN wps'[j]
          BY <1>1, <1>4 DEF Tabled
    <2>2. \A j, k \in DOMAIN wps' : wps'[j].slot = wps'[k].slot => j = k
          BY <1>6 DEF Tabled, SameRanges
    <2> QED BY <1>5, <2>1, <2>2 DEF Tabled
<1> QED BY <1>1, <1>4, <1>6, <1>7

(* watch: the new entry has a slot of its own, its registers and, when it  *)
(* can be read, its value.                                                 *)
LEMMA WatchKeeps ==
    ASSUME WatchInv, NEW addr \in Int, NEW size, NEW kinds, WatchRange(addr, size, kinds)
    PROVE  WatchInv'
<1>1. PICK s \in FreeSlots :
        /\ wps' = Append(wps, [addr |-> addr, size |-> size, kinds |-> kinds,
                               slot |-> s, last |-> Initial(addr, size)])
        /\ dr' = [dr EXCEPT ![s] = Encoded(addr, size, kinds)]
        /\ stale' = stale \ {s}
      BY DEF WatchRange
<1> DEFINE e == [addr |-> addr, size |-> size, kinds |-> kinds, slot |-> s,
                 last |-> Initial(addr, size)]
           n == Len(wps)
           S == Range(wps) \cup {e}
<1>2. /\ e.addr = addr /\ e.size = size /\ e.kinds = kinds /\ e.slot = s
      /\ e.last = Initial(addr, size) /\ DOMAIN e = {"addr", "size", "kinds", "slot", "last"}
      OBVIOUS
<1>3. wps' = Append(wps, e)
      BY <1>1
<1> HIDE DEF e
<1>4. wps \in Seq(S) /\ e \in S /\ n \in Nat /\ DOMAIN wps = 1 .. n
    <2>1. wps \in Seq(Range(wps))
          BY DEF WatchInv, Tabled
    <2> QED BY <2>1
<1>5. /\ DOMAIN wps' = 1 .. n + 1 /\ wps'[n + 1] = e
      /\ \A i \in DOMAIN wps : wps'[i] = wps[i] /\ i \in DOMAIN wps'
      BY <1>3, <1>4, AppendProperties
<1>6. wps' \in Seq(Range(wps'))
    <2> HIDE DEF S
    <2>1. Append(wps, e) \in Seq(S) /\ Range(Append(wps, e)) = Range(wps) \cup {e}
          BY <1>4, AppendRange
    <2> QED BY <1>3, <2>1 DEF S
<1> HIDE DEF S, n
<1>7. s \in Slots /\ \A i \in DOMAIN wps : wps[i].slot # s
      BY DEF FreeSlots
<1>8. /\ DOMAIN dr' = Slots /\ dr'[s] = Encoded(addr, size, kinds)
      /\ \A r \in Slots \ {s} : dr'[r] = dr[r]
      BY <1>1, <1>7 DEF WatchInv, Accounted
<1>9. \A i \in DOMAIN wps' : i \in DOMAIN wps \/ i = n + 1
    <2>1. n \in Nat
          BY <1>4
    <2> QED BY <1>4, <1>5, <2>1
<1>10. Coverable(addr, size) /\ size \in Int /\ mem' = mem
      BY DEF WatchRange, Coverable
<1>11. Tabled(wps')
    <2>1. \A i \in DOMAIN wps' : {"addr", "size", "kinds", "slot", "last"} \subseteq DOMAIN wps'[i]
          BY <1>2, <1>5, <1>9 DEF WatchInv, Tabled
    <2>2. \A i, j \in DOMAIN wps' : wps'[i].slot = wps'[j].slot => i = j
          BY <1>2, <1>5, <1>7, <1>9 DEF WatchInv, Tabled
    <2> QED BY <1>6, <2>1, <2>2 DEF Tabled
<1>12. Accounted(dr', wps')
    <2>1. \A i \in DOMAIN wps' :
            /\ wps'[i].addr \in Int /\ wps'[i].size \in Int
            /\ Coverable(wps'[i].addr, wps'[i].size) /\ wps'[i].slot \in Slots
            /\ dr'[wps'[i].slot] = Encoded(wps'[i].addr, wps'[i].size, wps'[i].kinds)
        <3> TAKE i \in DOMAIN wps'
        <3>1. CASE i \in DOMAIN wps
              BY <1>5, <1>7, <1>8, <3>1 DEF WatchInv, Accounted
        <3>2. CASE i = n + 1
              BY <1>2, <1>5, <1>7, <1>8, <1>10, <3>2
        <3> QED BY <1>9, <3>1, <3>2
    <2>2. ASSUME NEW r \in Slots, dr'[r].enabled
          PROVE  \E i \in DOMAIN wps' : wps'[i].slot = r
        <3>1. CASE r = s
            <4>1. n + 1 \in DOMAIN wps'
                <5>1. n \in Nat
                      BY <1>4
                <5> QED BY <1>5, <5>1
            <4> QED BY <1>2, <1>5, <3>1, <4>1
        <3>2. CASE r # s
              BY <1>5, <1>8, <2>2, <3>2 DEF WatchInv, Accounted
        <3> QED BY <3>1, <3>2
    <2> QED BY <1>8, <2>1, <2>2 DEF Accounted
<1>13. Remembered(mem', wps', stale')
    <2> SUFFICES ASSUME NEW i \in DOMAIN wps', wps'[i].last # <<>>
                 PROVE  /\ CanRead(mem, wps'[i].addr, wps'[i].size)
                        /\ wps'[i].slot \notin stale' =>
                             wps'[i].last = <<ValueOf(ReadBytes(mem, wps'[i].addr, wps'[i].size))>>
        BY <1>10 DEF Remembered
    <2>1. CASE i \in DOMAIN wps
          BY <1>1, <1>5, <1>7, <2>1 DEF WatchInv, Remembered
    <2>2. CASE i = n + 1
          BY <1>2, <1>5, <2>2 DEF Initial
    <2> QED BY <1>9, <2>1, <2>2
<1> QED BY <1>11, <1>12, <1>13 DEF WatchInv

(* delwatch: the slot is free again and its registers are off.             *)
LEMMA DelWatchKeeps ==
    ASSUME WatchInv, NEW k \in DOMAIN wps, CmdDelWatch(k)
    PROVE  WatchInv'
<1> DEFINE n == Len(wps)
           S == Range(wps)
           from(j) == IF j < k THEN j ELSE j + 1
<1>1. wps \in Seq(S) /\ n \in Nat /\ DOMAIN wps = 1 .. n /\ k \in 1 .. n
    <2>1. Tabled(wps)
          BY DEF WatchInv
    <2>2. wps \in Seq(S)
          BY <2>1 DEF Tabled
    <2> HIDE DEF S
    <2> QED BY <2>2
<1>2. /\ wps' \in Seq(S) /\ Len(wps') = n - 1
      /\ \A j \in 1 .. n - 1 : wps'[j] = IF j < k THEN wps[j] ELSE wps[j + 1]
    <2> HIDE DEF S
    <2>1. wps' = RemoveAt(wps, k)
          BY DEF CmdDelWatch
    <2> QED BY <1>1, <2>1, RemoveIs
<1>3. DOMAIN wps' = 1 .. n - 1
      BY <1>1, <1>2
<1> HIDE DEF S, n
<1>4. ASSUME NEW j \in DOMAIN wps'
      PROVE  j \in Int /\ from(j) \in DOMAIN wps \ {k} /\ wps'[j] = wps[from(j)]
      BY <1>1, <1>2, <1>3
<1>5. ASSUME NEW i \in DOMAIN wps \ {k}
      PROVE  \E j \in DOMAIN wps' : from(j) = i
    <2>1. CASE i < k
        <3>1. i \in DOMAIN wps' /\ from(i) = i
              BY <1>1, <1>3, <2>1
        <3> QED BY <3>1
    <2>2. CASE i > k
        <3>1. i - 1 \in DOMAIN wps' /\ from(i - 1) = i
              BY <1>1, <1>3, <2>2
        <3> QED BY <3>1
    <2> QED BY <1>1, <2>1, <2>2
<1>6. \A i, j \in DOMAIN wps' : from(i) = from(j) => i = j
    <2> TAKE i, j \in DOMAIN wps'
    <2>1. i \in Int /\ j \in Int /\ k \in Int
          BY <1>1, <1>4
    <2> QED BY <2>1
<1> HIDE DEF from
<1>7. Tabled(wps')
    <2>1. wps' \in Seq(Range(wps'))
          BY <1>2, RangeSeq
    <2>2. \A i \in DOMAIN wps' : {"addr", "size", "kinds", "slot", "last"} \subseteq DOMAIN wps'[i]
          BY <1>4 DEF WatchInv, Tabled
    <2>3. \A i, j \in DOMAIN wps' : wps'[i].slot = wps'[j].slot => i = j
          BY <1>4, <1>6 DEF WatchInv, Tabled
    <2> QED BY <2>1, <2>2, <2>3 DEF Tabled
<1>8. wps[k].slot \in Slots /\ DOMAIN dr = Slots /\ dr[wps[k].slot].enabled
    <2>1. dr[wps[k].slot] = Encoded(wps[k].addr, wps[k].size, wps[k].kinds)
          BY DEF WatchInv, Accounted
    <2> QED BY <2>1 DEF WatchInv, Accounted, Encoded
<1>9. /\ DOMAIN dr' = Slots
      /\ \A s \in Slots \ {wps[k].slot} : dr'[s] = dr[s]
      /\ ~ dr'[wps[k].slot].enabled
    <2>1. dr' = [dr EXCEPT ![wps[k].slot].enabled = FALSE]
          BY DEF CmdDelWatch, DisarmedSlot
    <2>2. "enabled" \in DOMAIN dr[wps[k].slot]
        <3>1. dr[wps[k].slot] = Encoded(wps[k].addr, wps[k].size, wps[k].kinds)
              BY DEF WatchInv, Accounted
        <3> QED BY <3>1 DEF Encoded
    <2> QED BY <1>8, <2>1, <2>2
<1>10. \A i \in DOMAIN wps \ {k} : wps[i].slot # wps[k].slot
      BY DEF WatchInv, Tabled
<1>11. Accounted(dr', wps')
    <2>1. \A i \in DOMAIN wps' :
            /\ wps'[i].addr \in Int /\ wps'[i].size \in Int
            /\ Coverable(wps'[i].addr, wps'[i].size) /\ wps'[i].slot \in Slots
            /\ dr'[wps'[i].slot] = Encoded(wps'[i].addr, wps'[i].size, wps'[i].kinds)
          BY <1>4, <1>9, <1>10 DEF WatchInv, Accounted
    <2>2. ASSUME NEW s \in Slots, dr'[s].enabled
          PROVE  \E i \in DOMAIN wps' : wps'[i].slot = s
        <3>1. s # wps[k].slot /\ dr[s].enabled
              BY <1>9, <2>2
        <3>2. PICK i \in DOMAIN wps : wps[i].slot = s
              BY <3>1 DEF WatchInv, Accounted
        <3> QED BY <1>4, <1>5, <3>1, <3>2
    <2> QED BY <1>9, <2>1, <2>2 DEF Accounted
<1>12. Remembered(mem', wps', stale')
    <2>1. mem' = mem /\ stale' = stale
          BY DEF CmdDelWatch
    <2>2. Remembered(mem, wps, stale)
          BY DEF WatchInv
    <2>3. ASSUME NEW j \in DOMAIN wps', wps'[j].last # <<>>
          PROVE  /\ CanRead(mem, wps'[j].addr, wps'[j].size)
                 /\ wps'[j].slot \notin stale =>
                      wps'[j].last = <<ValueOf(ReadBytes(mem, wps'[j].addr, wps'[j].size))>>
        <3>1. PICK i \in DOMAIN wps : wps'[j] = wps[i]
              BY <1>4
        <3> QED BY <2>2, <2>3, <3>1 DEF Remembered
    <2> QED BY <2>1, <2>3 DEF Remembered
<1> QED BY <1>7, <1>11, <1>12 DEF WatchInv
-----------------------------------------------------------------------------
(* Values                                                                  *)

(* What the bytes of a range are is all that is read of it.                *)
LEMMA SameRead ==
    ASSUME NEW m, NEW k, DOMAIN k.bytes = DOMAIN m.bytes, NEW a \in Int, NEW n \in Int,
           \A x \in Span(a, n) : k.bytes[x] = m.bytes[x]
    PROVE  /\ CanRead(m, a, n) => CanRead(k, a, n)
           /\ ReadBytes(k, a, n) = ReadBytes(m, a, n)
<1>1. \A i \in 1 .. n : a + i - 1 \in Span(a, n)
      BY DEF Span
<1> QED BY <1>1 DEF CanRead, ReadBytes

(* An entry that is over no changed byte reads as before.                  *)
LEMMA SlotUnchanged ==
    ASSUME WatchInv, MemoryKept(mem), NEW m, MemoryKept(m), NEW i \in DOMAIN wps
    PROVE  /\ CanRead(mem, wps[i].addr, wps[i].size) => CanRead(m, wps[i].addr, wps[i].size)
           /\ /\ wps[i].slot \notin SlotsOver(Changed(m))
              /\ CanRead(mem, wps[i].addr, wps[i].size)
              => ReadBytes(m, wps[i].addr, wps[i].size) = ReadBytes(mem, wps[i].addr, wps[i].size)
<1>1. wps[i].addr \in Int /\ wps[i].size \in Int /\ DOMAIN m.bytes = DOMAIN mem.bytes
      BY DEF WatchInv, Accounted, MemoryKept
<1>2. ASSUME wps[i].slot \notin SlotsOver(Changed(m)), CanRead(mem, wps[i].addr, wps[i].size)
      PROVE  ReadBytes(m, wps[i].addr, wps[i].size) = ReadBytes(mem, wps[i].addr, wps[i].size)
    <2>1. Span(wps[i].addr, wps[i].size) \cap Changed(m) = {}
          BY <1>2 DEF SlotsOver
    <2>2. \A x \in Span(wps[i].addr, wps[i].size) : m.bytes[x] = mem.bytes[x]
          BY <1>2, <2>1 DEF Changed, CanRead
    <2> QED BY <1>1, <2>2, SameRead
<1> QED BY <1>1, <1>2 DEF CanRead

(* So what is remembered stays true when the entries over changed bytes    *)
(* are put aside.                                                          *)
LEMMA RememberedKept ==
    ASSUME WatchInv, MemoryKept(mem), NEW m, MemoryKept(m), NEW i \in DOMAIN wps,
           wps[i].last # <<>>
    PROVE  /\ CanRead(m, wps[i].addr, wps[i].size)
           /\ wps[i].slot \notin stale \cup SlotsOver(Changed(m)) =>
                wps[i].last = <<ValueOf(ReadBytes(m, wps[i].addr, wps[i].size))>>
<1>1. /\ CanRead(mem, wps[i].addr, wps[i].size)
      /\ wps[i].slot \notin stale =>
           wps[i].last = <<ValueOf(ReadBytes(mem, wps[i].addr, wps[i].size))>>
      BY DEF WatchInv, Remembered
<1> QED BY <1>1, SlotUnchanged

(* A watched range one byte of which is mapped is mapped: it lies in a     *)
(* granule, and a granule in a page.                                       *)
LEMMA RangeMapped ==
    ASSUME DataAssumption, NEW m, MemoryKept(m), NEW addr \in Int, NEW size \in Int,
           Coverable(addr, size), NEW x \in Span(addr, size), x \in DOMAIN m.bytes
    PROVE  CanRead(m, addr, size)
<1> DEFINE P == PageSize
           q == Page(x)
           r == addr % 8
           g == addr - r
<1>1. P \in Nat \ {0} /\ P % 8 = 0 /\ x \in Int
      BY MemoryAssumption DEF DataAssumption, Granule, Span
<1>2. q \in Int /\ q % P = 0 /\ x \in q .. q + P - 1
      BY <1>1, PageOf DEF Span
<1>3. Span(q, P) \subseteq DOMAIN m.bytes
      BY DEF DataAssumption, MemoryKept
<1>4. r \in 0 .. 7 /\ size \in 1 .. 8 /\ r + size <= 8
      BY DEF Coverable, Granule
<1>5. addr = (addr \div 8) * 8 + r /\ addr \div 8 \in Int
    <2>1. 8 \in Nat \ {0}
          OBVIOUS
    <2> QED BY <2>1, Division
<1> HIDE DEF P, q, r
<1>6. P = (P \div 8) * 8 /\ P \div 8 \in Int
      BY <1>1, Multiple
<1>7. q = (q \div P) * P /\ q \div P \in Int
      BY <1>1, <1>2, Multiple
<1> DEFINE p == P \div 8
           k == q \div P
           l == addr \div 8
           j == k * p
<1>8. p \in Int /\ k \in Int /\ l \in Int /\ j \in Int
      BY <1>5, <1>6, <1>7
<1> HIDE DEF g
<1>9. P = p * 8 /\ q = k * P /\ addr = l * 8 + r /\ g = l * 8
      BY <1>4, <1>5, <1>6, <1>7 DEF g
<1> HIDE DEF p, k, l
<1>10. q = j * 8
      BY <1>8, <1>9
<1> HIDE DEF j
<1>11. x \in g .. g + 7 /\ addr \in g .. g + 7 /\ addr + size <= g + 8
      BY <1>1, <1>4, <1>8, <1>9 DEF Span
<1>12. g = 8 * l /\ q = 8 * j /\ P = 8 * p
      BY <1>8, <1>9, <1>10
<1>13. 8 * j <= 8 * l + 7 /\ 8 * l <= 8 * j + 8 * p - 1
    <2>1. x \in Int /\ q <= x /\ x <= q + P - 1 /\ g <= x /\ x <= g + 7
          BY <1>1, <1>2, <1>8, <1>11, <1>12
    <2> QED BY <1>8, <1>12, <2>1
<1>14. j <= l /\ l + 1 <= j + p
      BY <1>8, <1>13
<1>15. q <= g /\ g + 8 <= q + P
      BY <1>8, <1>12, <1>14
<1>16. Span(addr, size) \subseteq Span(q, P)
    <2>1. g \in Int /\ q \in Int /\ P \in Int
          BY <1>1, <1>2, <1>8, <1>9
    <2>2. q <= addr /\ addr + size <= q + P
          BY <2>1, <1>11, <1>15
    <2> QED BY <2>1, <2>2 DEF Span
<1> QED BY <1>3, <1>16 DEF CanRead

(* set: the entries over the bytes it changed are put aside.               *)
LEMMA StoreWatches ==
    ASSUME DataAssumption, MemoryKept(mem), WatchInv, NEW l, NEW addr \in Int, NEW size, NEW value,
           Store(l, addr, size, value)
    PROVE  WatchInv'
<1>1. wps' = wps /\ dr' = dr /\ stale' = stale \cup SlotsOver(Changed(mem'))
      BY DEF Store
<1>2. MemoryKept(mem')
      BY StoreKeeps
<1>3. Remembered(mem', wps, stale \cup SlotsOver(Changed(mem')))
    <2> DEFINE m == mem'
    <2>1. MemoryKept(m)
          BY <1>2
    <2> HIDE DEF m
    <2>2. Remembered(m, wps, stale \cup SlotsOver(Changed(m)))
          BY <2>1, RememberedKept DEF Remembered
    <2> QED BY <2>2 DEF m
<1> QED BY <1>1, <1>3 DEF WatchInv

(* A load or store, and the hit that is told of it.                        *)
LEMMA AccessKeeps ==
    ASSUME DataAssumption, MemoryKept(mem), WatchInv, NEW a \in Accesses, Access(a)
    PROVE  MemoryKept(mem') /\ WatchInv'
<1> DEFINE m == Performed(a)
           over == SlotsOver(Changed(m))
<1>1. mem' = m /\ dr' = Rearmed
      BY DEF Access
<1>2. MemoryKept(m)
      BY PerformedKeeps
<1>3. DOMAIN dr' = Slots /\ \A s \in Slots : dr'[s] = dr[s]
      BY <1>1, RearmedIs DEF WatchInv
<1>4. CASE wps' = wps /\ stale' = stale \cup over
    <2> HIDE DEF m
    <2>1. Remembered(m, wps, stale \cup over)
          BY <1>2, RememberedKept DEF Remembered
    <2>2. Accounted(dr', wps)
          BY <1>3, AccountedSame DEF WatchInv, SameRanges
    <2> QED BY <1>1, <1>2, <1>4, <2>1, <2>2 DEF WatchInv
<1>5. ASSUME NEW far \in Span(a.addr, a.size), NEW i \in WatchHit(wps, far),
             wps' = [wps EXCEPT ![i].last = <<ValueOf(ReadBytes(mem', wps[i].addr, wps[i].size))>>],
             stale' = (stale \cup over) \ {wps[i].slot}
      PROVE  WatchInv'
    <2> DEFINE v == <<ValueOf(ReadBytes(mem', wps[i].addr, wps[i].size))>>
    <2>1. i \in DOMAIN wps /\ far \in Span(wps[i].addr, wps[i].size)
          BY <1>5 DEF WatchHit, AddrHit
    <2>2. /\ Tabled(wps') /\ SameRanges(wps, wps') /\ wps'[i].last = v
          /\ \A j \in DOMAIN wps \ {i} : wps'[j] = wps[j]
          BY <1>5, <2>1, Refreshed DEF WatchInv
    <2>3. Accounted(dr', wps')
          BY <1>3, <2>2, AccountedSame DEF WatchInv
    <2>4. far \in DOMAIN m.bytes
        <3>1. CanRead(Memory0, a.addr, a.size)
              BY DEF DataAssumption
        <3> HIDE DEF m
        <3> QED BY <1>2, <1>5, <3>1 DEF CanRead, MemoryKept
    <2> HIDE DEF m
    <2>5. CanRead(m, wps[i].addr, wps[i].size)
        <3>1. wps[i].addr \in Int /\ wps[i].size \in Int /\ Coverable(wps[i].addr, wps[i].size)
              BY <2>1 DEF WatchInv, Accounted
        <3> QED BY <1>2, <2>1, <2>4, <3>1, RangeMapped
    <2>6. Remembered(m, wps', stale')
        <3> SUFFICES ASSUME NEW j \in DOMAIN wps', wps'[j].last # <<>>
                     PROVE  /\ CanRead(m, wps'[j].addr, wps'[j].size)
                            /\ wps'[j].slot \notin stale' => wps'[j].last =
                                 <<ValueOf(ReadBytes(m, wps'[j].addr, wps'[j].size))>>
            BY DEF Remembered
        <3>1. CASE j = i
              BY <1>1, <2>1, <2>2, <2>5, <3>1 DEF SameRanges
        <3>2. CASE j # i
            <4>1. j \in DOMAIN wps /\ wps'[j] = wps[j] /\ wps[j].slot # wps[i].slot
                  BY <2>1, <2>2, <3>2 DEF SameRanges, WatchInv, Tabled
            <4>2. wps[j].slot \notin stale' => wps[j].slot \notin stale \cup over
                  BY <1>5, <4>1
            <4> QED BY <1>2, <4>1, <4>2, RememberedKept
        <3> QED BY <3>1, <3>2
    <2> QED BY <1>1, <2>2, <2>3, <2>6 DEF WatchInv
<1>6. \/ wps' = wps /\ stale' = stale \cup over
      \/ \E far \in Span(a.addr, a.size) : \E i \in WatchHit(wps, far) :
            /\ wps' = [wps EXCEPT ![i].last =
                         <<ValueOf(ReadBytes(mem', wps[i].addr, wps[i].size))>>]
            /\ stale' = (stale \cup over) \ {wps[i].slot}
      BY DEF Access
<1> QED BY <1>1, <1>2, <1>4, <1>5, <1>6
-----------------------------------------------------------------------------
(* The invariant                                                           *)

DataInv == MemoryKept(mem) /\ WatchInv /\ {"pc", "fp"} \subseteq DOMAIN regs

(* It holds at main.                                                       *)
LEMMA DataInit == DataAssumption /\ Init => DataInv
<1> SUFFICES ASSUME DataAssumption, Init PROVE DataInv
    OBVIOUS
<1>1. MemoryKept(mem)
    <2>1. Memory0.prot = [q \in DOMAIN Memory0.prot |-> Memory0.prot[q]]
          BY DEF DataAssumption
    <2> QED BY <2>1 DEF Init, DataAssumption, MemoryKept, IsMemory
<1>2. WatchInv
    <2>1. wps = <<>> /\ DOMAIN wps = {} /\ wps \in Seq(Range(wps))
          BY DEF Init
    <2>2. DOMAIN dr = Slots /\ \A s \in Slots : ~ dr[s].enabled
          BY DEF Init, NoWatch
    <2> QED BY <2>1, <2>2 DEF WatchInv, Tabled, Accounted, Remembered
<1>3. {"pc", "fp"} \subseteq DOMAIN regs
      BY DEF Init, DataAssumption
<1> QED BY <1>1, <1>2, <1>3 DEF DataInv

(* Every step keeps it.                                                    *)
LEMMA DataStep == DataAssumption /\ DataInv /\ [AnyStep]_vars => DataInv'
<1> SUFFICES ASSUME DataAssumption, DataInv, [AnyStep]_vars PROVE DataInv'
    OBVIOUS
<1>0. MemoryKept(mem) /\ WatchInv /\ {"pc", "fp"} \subseteq DOMAIN regs
      BY DEF DataInv
<1>1. ASSUME mem' = mem, wps' = wps, dr' = dr, stale' = stale, {"pc", "fp"} \subseteq DOMAIN regs'
      PROVE  DataInv'
      BY <1>0, <1>1 DEF DataInv, WatchInv
<1>2. CASE Refused \/ UNCHANGED vars
      BY <1>0, <1>1, <1>2 DEF Refused, vars
<1>3. CASE SetAny
    <2>1. /\ out'.addr \in Int
          /\ Store(out'.lhs, out'.addr, out'.size, out'.value)
          BY <1>3, SetAnyIs
    <2>2. MemoryKept(mem') /\ WatchInv'
          BY <1>0, <2>1, StoreKeeps, StoreWatches
    <2>3. regs' = regs
          BY <2>1 DEF Store
    <2> QED BY <1>0, <2>2, <2>3 DEF DataInv
<1>4. CASE SetAnyRegister
    <2>1. PICK f \in DOMAIN regs : StoreRegister(f, regs'[f])
          BY <1>4 DEF SetAnyRegister
    <2>2. DOMAIN regs' = DOMAIN regs
          BY <2>1 DEF StoreRegister
    <2> QED BY <1>0, <1>1, <2>1, <2>2 DEF StoreRegister
<1>5. CASE CmdUp
    <2>1. regs' = regs \/ regs' \in FrameUp(mem, regs)
          BY <1>5 DEF CmdUp
    <2>2. \A r \in FrameUp(mem, regs) : DOMAIN r = DOMAIN regs
          BY DEF FrameUp, FromLinkRegister
    <2> QED BY <1>0, <1>1, <1>5, <2>1, <2>2 DEF CmdUp
<1>6. CASE WatchAny
    <2> DEFINE wp == Last(wps')
    <2>1. wp.addr \in Int /\ WatchRange(wp.addr, wp.size, wp.kinds)
          BY <1>6 DEF WatchAny, WordsOf64
    <2> HIDE DEF wp
    <2>2. WatchInv'
          BY <1>0, <2>1, WatchKeeps
    <2>3. mem' = mem /\ regs' = regs
          BY <2>1 DEF WatchRange
    <2> QED BY <1>0, <2>2, <2>3 DEF DataInv
<1>7. ASSUME NEW i \in DOMAIN wps, CmdDelWatch(i)
      PROVE  DataInv'
    <2>1. WatchInv'
          BY <1>0, <1>7, DelWatchKeeps
    <2>2. mem' = mem /\ regs' = regs
          BY <1>7 DEF CmdDelWatch
    <2> QED BY <1>0, <2>1, <2>2 DEF DataInv
<1>8. ASSUME NEW s \in Stops, Resume(s)
      PROVE  DataInv'
    <2>1. {"pc", "fp"} \subseteq DOMAIN regs'
          BY <1>8 DEF Resume, DataAssumption
    <2> QED BY <1>1, <1>8, <2>1 DEF Resume
<1>9. ASSUME NEW a \in Accesses, Access(a)
      PROVE  DataInv'
    <2>1. MemoryKept(mem') /\ WatchInv'
          BY <1>0, <1>9, AccessKeeps
    <2>2. regs' = regs
          BY <1>9 DEF Access
    <2> QED BY <1>0, <2>1, <2>2 DEF DataInv
<1> QED BY <1>2, <1>3, <1>4, <1>5, <1>6, <1>7, <1>8, <1>9 DEF AnyStep

(* The assumption on the constants.                                        *)
LEMMA Given == DataAssumption
BY DataAssumption DEF DataAssumption

(* The memory stays mapped as it was, the table of watchpoints is what the *)
(* debug registers hold, and each value remembered is the one of its place *)
(* or put aside.                                                           *)
THEOREM DataInvariant == AnyDataSpec => []DataInv
<1>1. Init => DataInv
      BY DataInit, Given
<1>2. DataInv /\ [AnyStep]_vars => DataInv'
      BY DataStep, Given
<1> QED BY <1>1, <1>2, PTL DEF AnyDataSpec

-----------------------------------------------------------------------------
(* The properties of steps                                                 *)

(* What the answer of a step tells: which step it was.                     *)
LEMMA StepsTold ==
    ASSUME [AnyStep]_vars
    PROVE  \/ vars' = vars
           \/ out' = Silent
           \/ SetAny /\ out'.cmd = "set"
           \/ CmdUp /\ out' = [cmd |-> "up"]
           \/ \E a \in Accesses : Access(a)
<1>1. SetAny => out'.cmd = "set"
      BY DEF SetAny
<1>2. CmdUp => out' = Silent \/ out' = [cmd |-> "up"]
      BY DEF CmdUp
<1>3. WatchAny => out' = Silent
    <2> DEFINE wp == Last(wps')
    <2>1. WatchAny => WatchRange(wp.addr, wp.size, wp.kinds)
          BY DEF WatchAny
    <2> QED BY <2>1 DEF WatchRange
<1> QED BY <1>1, <1>2, <1>3 DEF AnyStep, Refused, SetAnyRegister, StoreRegister, CmdDelWatch, Resume

(* Only set and accesses change the memory.                                *)
LEMMA MemorySteps ==
    ASSUME [AnyStep]_vars
    PROVE  mem' = mem \/ SetAny \/ \E a \in Accesses : Access(a)
<1>1. WatchAny => mem' = mem
    <2> DEFINE wp == Last(wps')
    <2>1. WatchAny => WatchRange(wp.addr, wp.size, wp.kinds)
          BY DEF WatchAny
    <2> QED BY <2>1 DEF WatchRange
<1> QED BY <1>1 DEF AnyStep, vars, Refused, SetAnyRegister, StoreRegister, CmdUp, CmdDelWatch, Resume

\* The step of PagesKept, of HitReported, of OldValueTrue and of UpFollowsBt,
\* here and below.
PageStep ==
    \A q \in DOMAIN mem.prot :
        /\ mem.prot[q] = "rx" => mem'.prot[q] = "rx"
        /\ mem'.prot[q] # mem.prot[q] =>
              /\ out'.cmd = "set"
              /\ q = Page(out'.addr)
              /\ Page(out'.addr + ScalarBytes(out'.size) - 1) # q

(* For every memory and every address, size and value that set is given,   *)
(* whatever Mach refuses: text is never left writable, and a page of data  *)
(* loses its permission only to a write that leaves the page.              *)
THEOREM PagesCorrect == AnyDataSpec => PagesKept
<1>1. DataInv /\ [AnyStep]_vars => [PageStep]_vars
    <2> SUFFICES ASSUME DataInv, [AnyStep]_vars PROVE PageStep
        OBVIOUS
    <2>0. MemoryKept(mem) /\ WatchInv
          BY DEF DataInv
    <2>1. CASE mem' = mem
          BY <2>1 DEF PageStep
    <2>2. CASE SetAny
        <3>1. /\ out'.addr \in Int
              /\ Store(out'.lhs, out'.addr, out'.size, out'.value)
              BY <2>2, SetAnyIs
        <3>2. DataAssumption /\ MemoryKept(mem)
              BY <2>0, Given, Zenon
        <3>3. /\ out'.cmd = "set"
              /\ \A q \in DOMAIN mem.prot : mem'.prot[q] # mem.prot[q] =>
                    /\ q = Page(out'.addr) /\ mem.prot[q] = "rw"
                    /\ Page(out'.addr + ScalarBytes(out'.size) - 1) # q
              BY <3>1, <3>2, StoreKeeps, ZenonT(30)
        <3> QED BY <3>3 DEF PageStep
    <2>3. ASSUME NEW a \in Accesses, Access(a)
          PROVE  PageStep
        <3>1. mem'.prot = mem.prot
              BY <2>0, <2>3, PerformedKeeps DEF Access
        <3> QED BY <3>1 DEF PageStep
    <2> QED BY <2>1, <2>2, <2>3, MemorySteps
<1>2. AnyDataSpec => []DataInv
      BY DataInvariant
<1> QED BY <1>1, <1>2, PTL DEF AnyDataSpec, PagesKept, PageStep

HitStep ==
    out'.cmd \in {"ran", "near", "hit"} =>
        LET a == out'.by
        IN  /\ (out'.cmd \in {"hit", "near"}) <=>
                  (\E i \in DOMAIN wps : a.kind \in wps[i].kinds /\ Touches(wps[i], a))
            /\ out'.cmd = "hit" => Touches(wps[out'.entry], a)

(* The bytes of an access that trap are those of an entry it touches.      *)
LEMMA TrappedTouches ==
    ASSUME DataAssumption, WatchInv, NEW a \in Accesses
    PROVE  Trapped(dr, a.addr, a.size, a.kind) # {} <=>
               \E i \in DOMAIN wps : a.kind \in wps[i].kinds /\ Touches(wps[i], a)
<1> DEFINE kind == a.kind
<1>1. a.addr \in Int /\ a.size \in Int /\ Accounted(dr, wps)
      BY DEF DataAssumption, WatchInv
<1> HIDE DEF kind
<1>2. Trapped(dr, a.addr, a.size, kind) =
          {x \in Span(a.addr, a.size) : \E i \in DOMAIN wps :
               kind \in wps[i].kinds /\ x \in Span(wps[i].addr, wps[i].size)}
      BY <1>1, TrapsAreWatched
<1>3. Trapped(dr, a.addr, a.size, kind) # {} <=>
          \E i \in DOMAIN wps : kind \in wps[i].kinds /\ Touches(wps[i], a)
      BY <1>2, Zenon DEF Touches
<1> QED BY <1>3 DEF kind

(* For any table, registers and program: an access stops the process       *)
(* exactly when it touches a watched byte with a kind that is watched, and *)
(* the watchpoint that is named is one it touched.                         *)
THEOREM HitsReported == AnyDataSpec => HitReported
<1>1. DataInv /\ [AnyStep]_vars => [HitStep]_vars
    <2> SUFFICES ASSUME DataInv, [AnyStep]_vars, vars' # vars PROVE HitStep
        OBVIOUS
    <2>0. WatchInv
          BY DEF DataInv
    <2>1. CASE out' = Silent \/ out'.cmd = "set" \/ out' = [cmd |-> "up"]
          BY <2>1 DEF HitStep, Silent
    <2>2. ASSUME NEW a \in Accesses, Access(a)
          PROVE  HitStep
        <3> DEFINE trapped == Trapped(dr, a.addr, a.size, a.kind)
                   touched == \E i \in DOMAIN wps : a.kind \in wps[i].kinds /\ Touches(wps[i], a)
        <3>1. trapped # {} <=> touched
              BY <2>0, TrappedTouches, Given
        <3> HIDE DEF touched
        <3>2. CASE trapped = {} /\ out' = [cmd |-> "ran", by |-> a]
            <4>1. out'.cmd = "ran" /\ out'.by = a /\ ~ touched
                  BY <3>1, <3>2
            <4> QED BY <4>1 DEF HitStep, touched
        <3>3. ASSUME trapped # {}, out' = [cmd |-> "near", by |-> a]
              PROVE  HitStep
            <4>1. out'.cmd = "near" /\ out'.by = a /\ touched
                  BY <3>1, <3>3
            <4> QED BY <4>1 DEF HitStep, touched
        <3>4. ASSUME trapped # {}, NEW far \in Span(a.addr, a.size), NEW i \in WatchHit(wps, far),
                     out'.cmd = "hit", out'.by = a, out'.entry = i
              PROVE  HitStep
            <4>1. touched
                  BY <3>1, <3>4
            <4>2. Touches(wps[i], a)
                  BY <3>4 DEF WatchHit, AddrHit, Touches
            <4> QED BY <3>4, <4>1, <4>2 DEF HitStep, touched
        <3>5. \/ trapped = {} /\ out' = [cmd |-> "ran", by |-> a]
              \/ trapped # {} /\ out' = [cmd |-> "near", by |-> a]
              \/ /\ trapped # {}
                 /\ \E far \in Span(a.addr, a.size) : \E i \in WatchHit(wps, far) :
                        out'.cmd = "hit" /\ out'.by = a /\ out'.entry = i
            <4>1. \/ trapped = {} /\ out' = [cmd |-> "ran", by |-> a]
                  \/ \E far \in Span(a.addr, a.size) :
                        /\ \E x \in trapped : far <= x
                        /\ \/ out' = [cmd |-> "near", by |-> a]
                           \/ \E i \in WatchHit(wps, far) :
                                out' = [cmd |-> "hit", by |-> a, entry |-> i,
                                        old |-> IF a.kind = "store" THEN wps[i].last ELSE <<>>,
                                        new |-> wps'[i].last]
                  BY <2>2, Zenon DEF Access
            <4> HIDE DEF trapped
            <4> QED BY <4>1
        <3> QED BY <3>2, <3>3, <3>4, <3>5
    <2>3. SetAny => out'.cmd = "set"
          BY DEF SetAny
    <2> QED BY <2>1, <2>2, <2>3, StepsTold
<1>2. AnyDataSpec => []DataInv
      BY DataInvariant
<1> QED BY <1>1, <1>2, PTL DEF AnyDataSpec, HitReported, HitStep

ValueStep ==
    out'.cmd = "hit" =>
        LET wp == wps[out'.entry]
        IN  /\ out'.old # <<>> /\ wp.slot \notin stale =>
                  out'.old[1] = ValueOf(ReadBytes(mem, wp.addr, wp.size))
            /\ out'.new[1] = ValueOf(ReadBytes(mem', wp.addr, wp.size))

(* For any memory, table and program: the old value told at a hit is the   *)
(* one the place had before the access, unless something changed it        *)
(* unreported, and the new one the one it has after it.                    *)
THEOREM ValuesTold == AnyDataSpec => OldValueTrue
<1>1. DataInv /\ [AnyStep]_vars => [ValueStep]_vars
    <2> SUFFICES ASSUME DataInv, [AnyStep]_vars, vars' # vars PROVE ValueStep
        OBVIOUS
    <2>0. WatchInv
          BY DEF DataInv
    <2>1. CASE out' = Silent \/ out'.cmd = "set" \/ out' = [cmd |-> "up"]
          BY <2>1 DEF ValueStep, Silent
    <2>2. ASSUME NEW a \in Accesses, Access(a)
          PROVE  ValueStep
        <3>1. CASE out' \in {[cmd |-> "ran", by |-> a], [cmd |-> "near", by |-> a]}
              BY <3>1 DEF ValueStep
        <3>2. ASSUME NEW far \in Span(a.addr, a.size), NEW i \in WatchHit(wps, far),
                     wps' = [wps EXCEPT ![i].last =
                               <<ValueOf(ReadBytes(mem', wps[i].addr, wps[i].size))>>],
                     out' = [cmd |-> "hit", by |-> a, entry |-> i,
                             old |-> IF a.kind = "store" THEN wps[i].last ELSE <<>>,
                             new |-> wps'[i].last]
              PROVE  ValueStep
            <4> DEFINE wp == wps[i]
                       new == <<ValueOf(ReadBytes(mem', wp.addr, wp.size))>>
            <4>1. i \in DOMAIN wps
                  BY DEF WatchHit
            <4>2. wps'[i].last = new
                  BY <2>0, <3>2, <4>1, Refreshed DEF WatchInv
            <4>3. wp.last # <<>> /\ wp.slot \notin stale =>
                      wp.last = <<ValueOf(ReadBytes(mem, wp.addr, wp.size))>>
                  BY <2>0, <4>1 DEF WatchInv, Remembered
            <4> HIDE DEF wp
            <4>4. /\ out'.entry = i /\ out'.new = new
                  /\ out'.old = IF a.kind = "store" THEN wp.last ELSE <<>>
                  BY <3>2, <4>2 DEF wp
            <4> QED BY <4>3, <4>4 DEF ValueStep, wp
        <3>3. \/ out' \in {[cmd |-> "ran", by |-> a], [cmd |-> "near", by |-> a]}
              \/ \E far \in Span(a.addr, a.size) : \E i \in WatchHit(wps, far) :
                    /\ wps' = [wps EXCEPT ![i].last =
                                 <<ValueOf(ReadBytes(mem', wps[i].addr, wps[i].size))>>]
                    /\ out' = [cmd |-> "hit", by |-> a, entry |-> i,
                               old |-> IF a.kind = "store" THEN wps[i].last ELSE <<>>,
                               new |-> wps'[i].last]
              BY <2>2 DEF Access
        <3> QED BY <3>1, <3>2, <3>3
    <2>3. SetAny => out'.cmd = "set"
          BY DEF SetAny
    <2> QED BY <2>1, <2>2, <2>3, StepsTold
<1>2. AnyDataSpec => []DataInv
      BY DataInvariant
<1> QED BY <1>1, <1>2, PTL DEF AnyDataSpec, OldValueTrue, ValueStep
-----------------------------------------------------------------------------
(* up and bt                                                               *)

Frame(r) == [pc |-> r.pc, fp |-> r.fp]

\* One frame more, when the walk has come to frame k - 1 and this has a caller.
Longer(m, s, k) ==
    LET fp == s[Len(s)].fp
    IN  IF Len(s) = k - 1 /\ fp # 0 /\ HasCaller(m, fp)
        THEN Append(s, [pc |-> SavedPc(m, fp).value, fp |-> SavedFp(m, fp).value])
        ELSE s

\* h is the first n stages of the walk of bt.
IsWalk(h, m, r, n) ==
    h = [k \in 1 .. n |-> IF k = 1 THEN <<Frame(r)>> ELSE Longer(m, h[k - 1], k)]

(* The walk of bt can be made.                                             *)
LEMMA WalkExists ==
    ASSUME NEW m, NEW r, NEW n \in Nat
    PROVE  \E h : IsWalk(h, m, r, n)
<1> DEFINE N == {j \in Nat : \E h : IsWalk(h, m, r, j)}
<1>1. 0 \in N
    <2>1. IsWalk(<<>>, m, r, 0)
          BY DEF IsWalk
    <2> QED BY <2>1
<1>2. \A j \in Nat : j \in N => j + 1 \in N
    <2> SUFFICES ASSUME NEW j \in Nat, j \in N
                 PROVE  \E h : IsWalk(h, m, r, j + 1)
        OBVIOUS
    <2>1. PICK h : IsWalk(h, m, r, j)
          OBVIOUS
    <2> DEFINE g == [k \in 1 .. j + 1 |->
                        IF k = j + 1
                        THEN IF k = 1 THEN <<Frame(r)>> ELSE Longer(m, h[k - 1], k)
                        ELSE h[k]]
    <2>2. ASSUME NEW k \in 1 .. j
          PROVE  h[k] = IF k = 1 THEN <<Frame(r)>> ELSE Longer(m, h[k - 1], k)
          BY <2>1 DEF IsWalk
    <2>3. ASSUME NEW k \in 1 .. j + 1
          PROVE  g[k] = IF k = 1 THEN <<Frame(r)>> ELSE Longer(m, g[k - 1], k)
        <3>1. k # 1 => k - 1 \in 1 .. j + 1 /\ k - 1 # j + 1 /\ g[k - 1] = h[k - 1]
              OBVIOUS
        <3>2. CASE k = j + 1
              BY <3>1, <3>2
        <3>3. CASE k # j + 1
            <4>1. k \in 1 .. j /\ g[k] = h[k]
                  BY <3>3
            <4> QED BY <2>2, <3>1, <4>1
        <3> QED BY <3>2, <3>3
    <2>4. g = [k \in 1 .. j + 1 |-> g[k]]
          OBVIOUS
    <2> HIDE DEF g
    <2>5. IsWalk(g, m, r, j + 1)
          BY <2>3, <2>4 DEF IsWalk
    <2> QED BY <2>5
<1> HIDE DEF N
<1>3. Nat \subseteq N
      BY <1>1, <1>2, SetInduction, SMTT(30)
<1> QED BY <1>3 DEF N

(* bt prints the last stage of it.                                         *)
LEMMA BacktraceIs ==
    ASSUME MaxFrames \in Nat \ {0}, NEW m, NEW r
    PROVE  \E h : IsWalk(h, m, r, MaxFrames) /\ Backtrace(m, r) = h[MaxFrames]
<1> DEFINE walk == CHOOSE g : g = [k \in 1 .. MaxFrames |->
                       IF k = 1 THEN <<[pc |-> r.pc, fp |-> r.fp]>>
                       ELSE IF /\ Len(g[k - 1]) = k - 1 /\ g[k - 1][Len(g[k - 1])].fp # 0
                               /\ HasCaller(m, g[k - 1][Len(g[k - 1])].fp)
                            THEN Append(g[k - 1],
                                    [pc |-> SavedPc(m, g[k - 1][Len(g[k - 1])].fp).value,
                                     fp |-> SavedFp(m, g[k - 1][Len(g[k - 1])].fp).value])
                            ELSE g[k - 1]]
<1>1. PICK h : IsWalk(h, m, r, MaxFrames)
      BY WalkExists
<1>2. IsWalk(walk, m, r, MaxFrames)
    <2>1. walk = CHOOSE g : IsWalk(g, m, r, MaxFrames)
          BY Zenon DEF IsWalk, Longer, Frame
    <2> HIDE DEF walk
    <2> QED BY <1>1, <2>1
<1>3. Backtrace(m, r) = walk[MaxFrames]
      BY Zenon DEF Backtrace
<1> QED BY <1>2, <1>3

(* The stages of a walk: sequences of frames, no longer than the stage.    *)
LEMMA WalkTyped ==
    ASSUME NEW m, NEW r, NEW n \in Nat, NEW h, IsWalk(h, m, r, n), NEW k \in 1 .. n
    PROVE  h[k] \in Seq(Range(h[k])) /\ Len(h[k]) \in 1 .. k
<1> DEFINE Typed(j) == h[j] \in Seq(Range(h[j])) /\ Len(h[j]) \in 1 .. j
           N == {j \in Nat : j + 1 <= n => Typed(j + 1)}
<1>0. /\ \A j \in 1 .. n : h[j] = IF j = 1 THEN <<Frame(r)>> ELSE Longer(m, h[j - 1], j)
      BY DEF IsWalk
<1> HIDE DEF Typed
<1>1. 0 \in N
    <2> SUFFICES ASSUME 1 <= n PROVE Typed(1)
        OBVIOUS
    <2>1. h[1] = <<Frame(r)>>
          BY <1>0
    <2>2. h[1] \in Seq({Frame(r)}) /\ Len(h[1]) = 1
          BY <2>1
    <2>3. h[1] \in Seq(Range(h[1]))
          BY <2>2, RangeSeq
    <2> QED BY <2>2, <2>3 DEF Typed
<1>2. \A j \in Nat : j \in N => j + 1 \in N
    <2> SUFFICES ASSUME NEW j \in Nat, j \in N, j + 2 <= n
                 PROVE  Typed(j + 2)
        OBVIOUS
    <2>0. Typed(j + 1)
          OBVIOUS
    <2> DEFINE s == h[j + 1]
               e == [pc |-> SavedPc(m, s[Len(s)].fp).value, fp |-> SavedFp(m, s[Len(s)].fp).value]
    <2>1. s \in Seq(Range(s)) /\ Len(s) \in 1 .. j + 1
          BY <2>0 DEF Typed
    <2>2. h[j + 2] = Longer(m, s, j + 2)
        <3>1. j + 2 \in 1 .. n /\ j + 2 # 1 /\ j + 2 - 1 = j + 1
              OBVIOUS
        <3> QED BY <1>0, <3>1
    <2> HIDE DEF s, N
    <2>3. h[j + 2] = s \/ h[j + 2] = Append(s, e)
          BY <2>2 DEF Longer
    <2> HIDE DEF e
    <2>4. Append(s, e) \in Seq(Range(Append(s, e))) /\ Len(Append(s, e)) = Len(s) + 1
        <3> DEFINE S == Range(s) \cup {e}
        <3>1. s \in Seq(S) /\ e \in S
              BY <2>1
        <3> HIDE DEF S
        <3>2. Append(s, e) \in Seq(S) /\ Len(Append(s, e)) = Len(s) + 1
              BY <3>1, AppendProperties
        <3> QED BY <3>2, RangeSeq
    <2>5. CASE h[j + 2] = s
          BY <2>1, <2>5 DEF Typed
    <2>6. CASE h[j + 2] = Append(s, e)
          BY <2>1, <2>4, <2>6 DEF Typed
    <2> QED BY <2>3, <2>5, <2>6
<1> HIDE DEF N
<1>3. Nat \subseteq N
      BY <1>1, <1>2, SetInduction
<1>4. k - 1 \in N /\ (k - 1) + 1 = k
      BY <1>3
<1>5. Typed(k)
      BY <1>4 DEF N
<1> QED BY <1>5 DEF Typed

(* Appending after one frame more.                                         *)
LEMMA AppendAfter ==
    ASSUME NEW s, s \in Seq(Range(s)), NEW a, NEW e
    PROVE  /\ Append(<<a>> \o s, e) = <<a>> \o Append(s, e)
           /\ Len(<<a>> \o s) = Len(s) + 1
           /\ Len(s) # 0 => (<<a>> \o s)[Len(<<a>> \o s)] = s[Len(s)]
           /\ Tail(<<a>> \o s) = s
<1> DEFINE S == Range(s) \cup {a, e}
<1>1. s \in Seq(S) /\ a \in S /\ e \in S
      OBVIOUS
<1> HIDE DEF S
<1>2. Len(s) \in Nat /\ <<a>> \in Seq(S) /\ Len(<<a>>) = 1 /\ <<e>> \in Seq(S)
      BY <1>1
<1>3. /\ <<a>> \o s \in Seq(S) /\ Len(<<a>> \o s) = Len(s) + 1
      /\ \A i \in 1 .. Len(s) + 1 : (<<a>> \o s)[i] = IF i <= 1 THEN <<a>>[i] ELSE s[i - 1]
      BY <1>1, <1>2, ConcatProperties
<1>4. Append(<<a>> \o s, e) = <<a>> \o Append(s, e)
    <2>1. Append(<<a>> \o s, e) = (<<a>> \o s) \o <<e>> /\ Append(s, e) = s \o <<e>>
          BY <1>1, <1>3, AppendIsConcat
    <2> QED BY <1>1, <1>2, <2>1, ConcatAssociative
<1>5. Len(s) # 0 => (<<a>> \o s)[Len(<<a>> \o s)] = s[Len(s)]
    <2>1. Len(s) # 0 => Len(s) + 1 \in 1 .. Len(s) + 1 /\ ~ (Len(s) + 1 <= 1)
                        /\ Len(s) + 1 - 1 = Len(s)
          BY <1>2
    <2> QED BY <1>3, <2>1
<1>6. Tail(<<a>> \o s) = s
    <2> DEFINE c == <<a>> \o s
    <2>1. c \in Seq(S) /\ c # <<>> /\ Len(c) = Len(s) + 1
          BY <1>2, <1>3
    <2>2. /\ Tail(c) \in Seq(S) /\ Len(Tail(c)) = Len(c) - 1
          /\ \A i \in 1 .. Len(Tail(c)) : Tail(c)[i] = c[i + 1]
        <3> HIDE DEF c
        <3> QED BY <2>1, HeadTailProperties
    <2>3. \A i \in 1 .. Len(s) : c[i + 1] = s[i]
          BY <1>2, <1>3
    <2> HIDE DEF c
    <2>4. Tail(c) = s
          BY <1>1, <1>2, <2>1, <2>2, <2>3, SeqEqual
    <2> QED BY <2>4 DEF c
<1> QED BY <1>3, <1>4, <1>5, <1>6

\* h is the walk of bt from r, and g the one from its caller q.
AreWalks(h, g, m, r, q, n) ==
    /\ n \in Nat /\ IsWalk(h, m, r, n) /\ IsWalk(g, m, q, n)
    /\ r.fp # 0 /\ HasCaller(m, r.fp)
    /\ q.pc = SavedPc(m, r.fp).value /\ q.fp = SavedFp(m, r.fp).value

(* From the caller the walk is the one before without its first frame, one *)
(* stage later.                                                            *)
LEMMA WalkUp ==
    ASSUME NEW m, NEW r, NEW q, NEW n, NEW h, NEW g, AreWalks(h, g, m, r, q, n),
           NEW k \in 1 .. n, k < n
    PROVE  h[k + 1] = <<Frame(r)>> \o g[k]
<1> DEFINE a == Frame(r)
           Later(j) == h[j + 1] = <<a>> \o g[j]
           N == {j \in Nat : j + 2 <= n => Later(j + 1)}
<1>a. /\ n \in Nat /\ IsWalk(h, m, r, n) /\ IsWalk(g, m, q, n)
      /\ r.fp # 0 /\ HasCaller(m, r.fp)
      /\ q.pc = SavedPc(m, r.fp).value /\ q.fp = SavedFp(m, r.fp).value
      BY DEF AreWalks
<1>b. n \in Nat
      BY <1>a
<1>0. /\ \A j \in 1 .. n : h[j] = IF j = 1 THEN <<Frame(r)>> ELSE Longer(m, h[j - 1], j)
      /\ \A j \in 1 .. n : g[j] = IF j = 1 THEN <<Frame(q)>> ELSE Longer(m, g[j - 1], j)
      BY <1>a DEF IsWalk
<1>1. 0 \in N
    <2> SUFFICES ASSUME 2 <= n PROVE h[2] = <<a>> \o g[1]
        <3>1. Later(1) <=> h[2] = <<a>> \o g[1]
              OBVIOUS
        <3> HIDE DEF Later
        <3> QED BY <3>1
    <2>1. h[1] = <<a>> /\ g[1] = <<Frame(q)>> /\ h[2] = Longer(m, h[1], 2)
        <3>1. 1 \in 1 .. n /\ 2 \in 1 .. n /\ 2 - 1 = 1
              BY <1>a
        <3> QED BY <1>0, <3>1
    <2>2. Len(<<a>>) = 1 /\ <<a>>[1].fp = r.fp
          BY DEF Frame
    <2>3. Longer(m, <<a>>, 2) = Append(<<a>>, Frame(q))
          BY <1>a, <2>2 DEF Longer, Frame
    <2>4. Append(<<a>>, Frame(q)) = <<a>> \o <<Frame(q)>>
          OBVIOUS
    <2> QED BY <2>1, <2>3, <2>4
<1>2. \A j \in Nat : j \in N => j + 1 \in N
    <2> SUFFICES ASSUME NEW j \in Nat, Later(j + 1), j + 3 <= n
                 PROVE  Later(j + 2)
        <3> HIDE DEF Later
        <3> QED BY <1>b
    <2> DEFINE s == g[j + 1]
               c == <<a>> \o s
               fp == s[Len(s)].fp
               e == [pc |-> SavedPc(m, fp).value, fp |-> SavedFp(m, fp).value]
    <2>1. h[j + 2] = c
        <3>1. (j + 1) + 1 = j + 2
              OBVIOUS
        <3> QED BY <3>1
    <2>2. h[j + 3] = Longer(m, c, j + 3) /\ g[j + 2] = Longer(m, s, j + 2)
        <3>1. j + 3 \in 1 .. n /\ j + 3 # 1 /\ j + 3 - 1 = j + 2
              BY <1>b
        <3>2. j + 2 \in 1 .. n /\ j + 2 # 1 /\ j + 2 - 1 = j + 1
              BY <1>b
        <3> HIDE DEF a, c, Later, N
        <3>3. h[j + 3] = Longer(m, h[j + 2], j + 3)
              BY <1>0, <3>1
        <3>4. g[j + 2] = Longer(m, g[j + 1], j + 2)
              BY <1>0, <3>2
        <3> QED BY <2>1, <3>3, <3>4
    <2>3. s \in Seq(Range(s)) /\ Len(s) \in 1 .. j + 1
        <3>1. j + 1 \in 1 .. n
              BY <1>b
        <3> HIDE DEF N
        <3> QED BY <1>a, <3>1, WalkTyped
    <2> HIDE DEF s, N, a
    <2>4. /\ Append(c, e) = <<a>> \o Append(s, e) /\ Len(c) = Len(s) + 1
          /\ c[Len(c)] = s[Len(s)]
        <3> HIDE DEF e, fp, Later
        <3>1. Len(s) # 0
              BY <2>3
        <3> QED BY <2>3, <3>1, AppendAfter
    <2>5. Longer(m, c, j + 3) = IF Len(c) = j + 2 /\ fp # 0 /\ HasCaller(m, fp)
                                THEN Append(c, e) ELSE c
        <3>1. j + 3 - 1 = j + 2 /\ c[Len(c)].fp = fp
              BY <2>4
        <3> HIDE DEF c, fp
        <3> QED BY <3>1 DEF Longer
    <2>6. Longer(m, s, j + 2) = IF Len(s) = j + 1 /\ fp # 0 /\ HasCaller(m, fp)
                                THEN Append(s, e) ELSE s
        <3>1. j + 2 - 1 = j + 1
              OBVIOUS
        <3> QED BY <3>1 DEF Longer
    <2>7. Len(c) = j + 2 <=> Len(s) = j + 1
          BY <2>3, <2>4
    <2> HIDE DEF e, fp
    <2>8. h[j + 3] = <<a>> \o g[j + 2]
        <3>1. CASE Len(s) = j + 1 /\ fp # 0 /\ HasCaller(m, fp)
            <4>1. h[j + 3] = Append(c, e) /\ g[j + 2] = Append(s, e)
                  BY <2>2, <2>5, <2>6, <2>7, <3>1
            <4> QED BY <2>4, <4>1
        <3>2. CASE ~ (Len(s) = j + 1 /\ fp # 0 /\ HasCaller(m, fp))
              BY <2>2, <2>5, <2>6, <2>7, <3>2
        <3> QED BY <3>1, <3>2
    <2>9. (j + 2) + 1 = j + 3
          OBVIOUS
    <2> QED BY <2>8, <2>9
<1> HIDE DEF N
<1>3. Nat \subseteq N
      BY <1>1, <1>2, SetInduction
<1>4. k - 1 \in N /\ (k - 1) + 2 <= n /\ (k - 1) + 1 = k
      BY <1>b, <1>3
<1>5. Later(k)
    <2> HIDE DEF Later
    <2> QED BY <1>4 DEF N
<1> QED BY <1>5

(* Without a caller the walk ends where it begins.                         *)
LEMMA WalkEnds ==
    ASSUME NEW m, NEW r, NEW n \in Nat \ {0}, NEW h, IsWalk(h, m, r, n),
           ~ (r.fp # 0 /\ HasCaller(m, r.fp))
    PROVE  h[n] = <<Frame(r)>>
<1> DEFINE N == {j \in Nat : j + 1 <= n => h[j + 1] = <<Frame(r)>>}
<1>0. \A j \in 1 .. n : h[j] = IF j = 1 THEN <<Frame(r)>> ELSE Longer(m, h[j - 1], j)
      BY DEF IsWalk
<1>1. 0 \in N
      BY <1>0
<1>2. \A j \in Nat : j \in N => j + 1 \in N
    <2> SUFFICES ASSUME NEW j \in Nat, j \in N, j + 2 <= n
                 PROVE  h[j + 2] = <<Frame(r)>>
        OBVIOUS
    <2>1. j + 2 \in 1 .. n /\ j + 2 # 1 /\ j + 2 - 1 = j + 1 /\ h[j + 1] = <<Frame(r)>>
          OBVIOUS
    <2>2. h[j + 2] = Longer(m, <<Frame(r)>>, j + 2)
          BY <1>0, <2>1
    <2>3. Len(<<Frame(r)>>) = 1 /\ <<Frame(r)>>[1].fp = r.fp
          BY DEF Frame
    <2> QED BY <2>2, <2>3 DEF Longer
<1> HIDE DEF N
<1>3. Nat \subseteq N
      BY <1>1, <1>2, SetInduction
<1>4. n - 1 \in N /\ (n - 1) + 1 = n
      BY <1>3
<1> QED BY <1>4 DEF N

(* For any memory, corrupt records included: bt from the caller shows what *)
(* it showed before without the first frame, and one frame more at most.   *)
LEMMA BtAfterUp ==
    ASSUME MaxFrames \in Nat \ {0}, NEW m, NEW r, {"pc", "fp"} \subseteq DOMAIN r,
           NEW q \in FrameUp(m, r),
           Len(Backtrace(m, r)) > 1
    PROVE  /\ IsPrefix(Tail(Backtrace(m, r)), Backtrace(m, q))
           /\ Len(Backtrace(m, r)) < MaxFrames => Backtrace(m, q) = Tail(Backtrace(m, r))
<1> DEFINE n == MaxFrames
<1>2. n \in Nat \ {0}
      OBVIOUS
<1>3. PICK h : IsWalk(h, m, r, n) /\ Backtrace(m, r) = h[n]
      BY BacktraceIs
<1>4. PICK g : IsWalk(g, m, q, n) /\ Backtrace(m, q) = g[n]
      BY BacktraceIs
<1> HIDE DEF n
<1>5. r.fp # 0 /\ HasCaller(m, r.fp)
    <2>1. CASE ~ (r.fp # 0 /\ HasCaller(m, r.fp))
        <3>1. h[n] = <<Frame(r)>>
              BY <1>2, <1>3, <2>1, WalkEnds
        <3>2. Len(<<Frame(r)>>) = 1
              OBVIOUS
        <3> QED BY <1>3, <3>1, <3>2
    <2> QED BY <2>1
<1>6. q.pc = SavedPc(m, r.fp).value /\ q.fp = SavedFp(m, r.fp).value
      BY <1>5 DEF FrameUp
<1>7. n > 1
    <2>1. Len(h[n]) \in 1 .. n
          BY <1>2, <1>3, WalkTyped
    <2> QED BY <1>2, <1>3, <2>1
<1> DEFINE s == g[n - 1]
<1>8. n - 1 \in 1 .. n /\ n - 1 < n /\ (n - 1) + 1 = n
      BY <1>2, <1>7
<1>9. h[n] = <<Frame(r)>> \o s
    <2> DEFINE k == n - 1
    <2>1. k \in 1 .. n /\ k < n /\ k + 1 = n /\ s = g[k]
          BY <1>8
    <2> HIDE DEF k, s
    <2>2. AreWalks(h, g, m, r, q, n)
          BY <1>2, <1>3, <1>4, <1>5, <1>6 DEF AreWalks
    <2>3. k \in 1 .. n /\ k < n
          BY <2>1
    <2>4. h[k + 1] = <<Frame(r)>> \o g[k]
          BY <2>2, <2>3, WalkUp
    <2> QED BY <2>1, <2>4
<1>10. s \in Seq(Range(s)) /\ Len(s) \in 1 .. n - 1
      BY <1>2, <1>4, <1>8, WalkTyped
<1>11. g[n] = Longer(m, s, n)
      BY <1>2, <1>4, <1>7, <1>8 DEF IsWalk
<1> HIDE DEF s
<1>12. Tail(h[n]) = s /\ Len(h[n]) = Len(s) + 1
      BY <1>9, <1>10, AppendAfter
<1>13. IsPrefix(s, g[n])
    <2> DEFINE fp == s[Len(s)].fp
               e == [pc |-> SavedPc(m, fp).value, fp |-> SavedFp(m, fp).value]
               S == Range(s) \cup {e}
    <2>1. g[n] = s \/ g[n] = Append(s, e)
          BY <1>11 DEF Longer
    <2>2. s \in Seq(S) /\ e \in S
          BY <1>10
    <2> HIDE DEF S, e, fp
    <2> QED BY <2>1, <2>2, PrefixAppend
<1>14. Len(h[n]) < n => g[n] = s
    <2>1. Len(h[n]) < n => Len(s) # n - 1
          BY <1>2, <1>10, <1>12
    <2> QED BY <1>11, <2>1 DEF Longer
<1> QED BY <1>3, <1>4, <1>12, <1>13, <1>14 DEF n

UpStep ==
    out'.cmd = "up" =>
        LET before == Backtrace(mem, regs)
            after == Backtrace(mem', regs')
        IN  Len(before) > 1 =>
              /\ IsPrefix(Tail(before), after)
              /\ Len(before) < MaxFrames => after = Tail(before)

(* For any memory, corrupt records included: what bt shows after up is     *)
(* what it showed before without the first frame, and one frame more at    *)
(* most, where it had stopped at its limit.                                *)
THEOREM UpCorrect == AnyDataSpec => UpFollowsBt
<1>1. DataInv /\ [AnyStep]_vars => [UpStep]_vars
    <2> SUFFICES ASSUME DataInv, [AnyStep]_vars, vars' # vars, out'.cmd = "up",
                        Len(Backtrace(mem, regs)) > 1
                 PROVE  /\ IsPrefix(Tail(Backtrace(mem, regs)), Backtrace(mem', regs'))
                        /\ Len(Backtrace(mem, regs)) < MaxFrames =>
                              Backtrace(mem', regs') = Tail(Backtrace(mem, regs))
        BY DEF UpStep
    <2>1. CmdUp /\ out' = [cmd |-> "up"]
        <3>1. Silent.cmd # "up"
              BY DEF Silent
        <3>2. ASSUME NEW a \in Accesses, Access(a)
              PROVE  out'.cmd \in {"ran", "near", "hit"}
              BY <3>2 DEF Access
        <3> QED BY <3>1, <3>2, StepsTold
    <2>2. mem' = mem /\ regs' \in FrameUp(mem, regs) /\ {"pc", "fp"} \subseteq DOMAIN regs
          BY <2>1 DEF CmdUp, Silent, DataInv
    <2>3. MaxFrames \in Nat \ {0}
          BY Given DEF DataAssumption
    <2> QED BY <2>2, <2>3, BtAfterUp
<1>2. AnyDataSpec => []DataInv
      BY DataInvariant
<1> QED BY <1>1, <1>2, PTL DEF AnyDataSpec, UpFollowsBt, UpStep
=============================================================================
