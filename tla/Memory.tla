------------------------------- MODULE Memory -------------------------------
(***************************************************************************)
(* memory.c and the scalar accesses of debugger.c.  The memory of the      *)
(* stopped process is a record                                             *)
(*   bytes  a function from the mapped addresses to byte values            *)
(*   prot   a function from the mapped pages to "rw" or "rx"               *)
(* The task port is granted: without it no register can be read, and every *)
(* command that uses this module gives up before it.                       *)
(*                                                                         *)
(* ByteBits is the width of a byte, 8 in C; everything here is the same    *)
(* for a smaller one.  Sizes, in bytes, are those of C.                    *)
(***************************************************************************)
EXTENDS Integers, Sequences

CONSTANTS ByteBits, PageSize

ASSUME MemoryAssumption == ByteBits \in Nat \ {0} /\ PageSize \in Nat \ {0}

ByteBase == 2 ^ ByteBits
WordSize == 8
WordValues == ByteBase ^ WordSize

Page(a) == a - (a % PageSize)
Span(a, n) == a .. a + n - 1

-----------------------------------------------------------------------------
\* The bytes of a value, lowest first (memcpy from a uint64_t), and back.
BytesOf(value, n) == [i \in 1 .. n |-> (value \div ByteBase ^ (i - 1)) % ByteBase]

ValueOf(bytes) ==
    LET upTo[i \in 0 .. Len(bytes)] ==
            IF i = 0 THEN 0 ELSE upTo[i - 1] + bytes[i] * ByteBase ^ (i - 1)
    IN  upTo[Len(bytes)]

Signed(value, n) == IF 2 * value >= ByteBase ^ n THEN value - ByteBase ^ n ELSE value

\* mask_to_size, sign_extend_value
MaskToSize(value, n) == IF n \in 1 .. WordSize - 1 THEN value % ByteBase ^ n ELSE value
SignExtend(value, n) ==
    IF n \in 1 .. WordSize - 1 THEN Signed(value % ByteBase ^ n, n) ELSE Signed(value, WordSize)

-----------------------------------------------------------------------------
\* cdbg_mem_read: all of the bytes or an error; the bytewise fallback cannot
\* read what Mach cannot.
CanRead(m, a, n) == Span(a, n) \subseteq DOMAIN m.bytes
ReadBytes(m, a, n) == [i \in 1 .. n |-> m.bytes[a + i - 1]]

Put(m, a, bytes) ==
    [m EXCEPT !.bytes = [x \in DOMAIN m.bytes |->
        IF x \in Span(a, Len(bytes)) THEN bytes[x - a + 1] ELSE m.bytes[x]]]

\* mach_vm_write succeeds.
Writable(m, a, n) ==
    CanRead(m, a, n) /\ \A x \in Span(a, n) : m.prot[Page(x)] = "rw"

Outcome(ok, m) == [ok |-> ok, mem |-> m]

\* Mutation: a page that was opened is left open.
LeftOpen(m, a, bytes) ==
    IF Writable(m, a, Len(bytes)) THEN {Outcome(TRUE, Put(m, a, bytes))}
    ELSE {Outcome(FALSE, m)} \cup
         {LET open == [m EXCEPT !.prot[Page(a)] = "rw"]
              done == Writable(open, a, Len(bytes))
          IN  Outcome(done, IF done THEN Put(open, a, bytes) ELSE m) :
            p \in {Page(a)} \cap DOMAIN m.prot}

\* mem_write_mach: the first page of the range is opened when the write is
\* refused, and given the protection of text whatever it had before.  The
\* change of protection may be refused as well.
MachWrite(m, a, bytes) ==
    IF Writable(m, a, Len(bytes)) THEN {Outcome(TRUE, Put(m, a, bytes))}
    ELSE {Outcome(FALSE, m)} \cup
         {LET open == [m EXCEPT !.prot[p] = "rw"]
              done == Writable(open, a, Len(bytes))
              written == IF done THEN Put(open, a, bytes) ELSE open
          IN  Outcome(done, [written EXCEPT !.prot[p] = "rx"]) :
            p \in {Page(a)} \cap DOMAIN m.prot}

\* mem_write_ptrace: byte after byte, until one is refused.
PtraceWrite(m, a, bytes) ==
    {Outcome(n = Len(bytes), Put(m, a, SubSeq(bytes, 1, n))) :
        n \in {k \in 0 .. Len(bytes) : CanRead(m, a, k)}}

\* cdbg_mem_write
WriteOutcomes(m, a, bytes) ==
    UNION {IF w.ok THEN {w} ELSE PtraceWrite(w.mem, a, bytes) : w \in MachWrite(m, a, bytes)}

\* Mutation: a word whatever the size.
WholeWord(n) == WordSize

\* read_scalar_value, write_scalar_value: a size out of range means a word.
ScalarBytes(n) == IF n \in 1 .. WordSize THEN n ELSE WordSize

ReadScalar(m, a, n) ==
    IF CanRead(m, a, ScalarBytes(n))
    THEN [ok |-> TRUE, value |-> ValueOf(ReadBytes(m, a, ScalarBytes(n)))]
    ELSE [ok |-> FALSE, value |-> 0]

WriteScalar(m, a, n, value) == WriteOutcomes(m, a, BytesOf(value, ScalarBytes(n)))
=============================================================================
