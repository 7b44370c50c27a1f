--------------------------- MODULE LocationProofs ---------------------------
(***************************************************************************)
(* Theorems about the line and the symbol table and their slides, for all  *)
(* images, load addresses and failures of the commands that are read.      *)
(***************************************************************************)
EXTENDS Locations, SequenceLemmas, FiniteSetTheorems

-----------------------------------------------------------------------------
(* The slides.  SlidesCurrent speaks of the prompt only; to know it there  *)
(* one must know what a refused task port leaves behind, which SlideInv    *)
(* adds.                                                                   *)

\* Without the task port no slide was ever found for this run.
SlideInv == (~ task => slide = 0 /\ syms.slide = 0) /\ SlidesCurrent

SymsRecord == DOMAIN syms = {"entries", "slide"}

Inv == SlideInv /\ SymsRecord

(* Reading the tables: run forgets the slides of the process before, and   *)
(* there is no prompt until the new ones are in.                           *)
LEMMA LoadingInv ==
    ASSUME Inv, CmdRun \/ LoadLines \/ LoadSymbols
    PROVE  Inv'
<1> USE DEF Inv, SlideInv, SlidesCurrent, SymsRecord
<1>1. CASE CmdRun
      BY <1>1 DEF CmdRun, NoSyms
<1>2. CASE LoadLines
      BY <1>2 DEF LoadLines
<1>3. CASE LoadSymbols
      BY <1>3 DEF LoadSymbols
<1> QED BY <1>1, <1>2, <1>3

(* The slide cdbg_spawn takes may be the one of the copy of cdbg; cdbg_run *)
(* takes it again before the prompt.                                       *)
LEMMA StartingInv ==
    ASSUME Inv, Spawn \/ Started \/ ExecFailed \/ CmdKill
    PROVE  Inv'
<1> USE DEF Inv, SlideInv, SlidesCurrent, SymsRecord, Slid
<1>1. CASE Spawn
      BY <1>1 DEF Spawn
<1>2. CASE Started
      BY <1>2 DEF Started, loadVars
<1>3. CASE ExecFailed \/ CmdKill
      BY <1>3 DEF ExecFailed, CmdKill, loadVars, NoProcess
<1> QED BY <1>1, <1>2, <1>3

(* break, dis, list and bt look and change nothing.                        *)
LEMMA LookingInv ==
    ASSUME Inv, NEW t, NEW pc, CmdBreak(t) \/ CmdDis(t) \/ CmdList(t) \/ ShowFrame(pc)
    PROVE  Inv'
<1>1. UNCHANGED <<loadVars, phase, task, loaded, slide, syms>>
      BY DEF CmdBreak, CmdDis, CmdList, ShowFrame
<1> QED BY <1>1 DEF Inv, SlideInv, SlidesCurrent, SymsRecord, loadVars

(* At the prompt the line table and the symbol table are slid to the       *)
(* process that is there, whatever was loaded before, wherever the image   *)
(* was mapped, and although the slide was first taken from the forked copy *)
(* of cdbg; a refused task port leaves both at 0.                          *)
THEOREM SlidesCorrect == LocationsSpec => []SlidesCurrent
<1>1. Init => Inv
      BY DEF Init, Inv, SlideInv, SlidesCurrent, SymsRecord, NoSyms
<1>2. ASSUME Inv, [Next]_vars
      PROVE  Inv'
    <2>1. CASE UNCHANGED vars
          BY <1>2, <2>1 DEF vars, loadVars, Inv, SlideInv, SlidesCurrent, SymsRecord
    <2>2. CASE Next
          BY <1>2, <2>2, LoadingInv, StartingInv, LookingInv DEF Next
    <2> QED BY <1>2, <2>1, <2>2
<1>3. Inv => SlidesCurrent
      BY DEF Inv, SlideInv
<1> QED BY <1>1, <1>2, <1>3, PTL DEF LocationsSpec

-----------------------------------------------------------------------------
(* The line table.  RowsDecoded speaks of the table alone; DecodeInv adds   *)
(* where the reader is and that its registers are the ones the assembler   *)
(* has in mind.                                                            *)

Pos == [address : Int, line : Int]
Names == STRING \cup {"", Unknown[2]}   \* the provers do not know "" for a string
Paths == Names \X Names
EntryRow == [address : Int, line : Int, file : Paths]
Registers == [address : Int, line : Int, file : Nat]

\* What the program of u has written after k rows.
Part(u, k) == IF u.version \in {4, 5} THEN Written(u)[k] ELSE <<>>

(* The constants of the line program are numbers.                          *)
LEMMA Sizes ==
    /\ MinInst \in Nat \ {0} /\ LineRange \in Nat \ {0}
    /\ LineBase \in Int /\ OpcodeBase \in Int /\ MaxOpcode \in Int
BY LineLoadAssumption

(* Multiples of the instruction length: every distance between rows is     *)
(* one, so dividing it by MinInst loses nothing.                           *)
LEMMA InstMultiples ==
    /\ \A x \in Int : x % MinInst = 0 => (x \div MinInst) * MinInst = x
    /\ \A x \in Int : x * MinInst \in Int /\ (x * MinInst) % MinInst = 0
    /\ \A x, y \in Int : x % MinInst = 0 /\ y % MinInst = 0 =>
                          (x + y) % MinInst = 0 /\ (x - y) % MinInst = 0
<1>1. ASSUME NEW x \in Int
      PROVE  /\ x % MinInst = 0 => (x \div MinInst) * MinInst = x
             /\ x * MinInst \in Int /\ (x * MinInst) % MinInst = 0
    <2>1. x % MinInst = 0 => (x \div MinInst) * MinInst = x
          BY Sizes, Multiple
    <2>2. (x * MinInst) % MinInst = 0
          BY Sizes, Multiple
    <2> QED BY Sizes, <2>1, <2>2
<1>2. ASSUME NEW x \in Int, NEW y \in Int, x % MinInst = 0, y % MinInst = 0
      PROVE  (x + y) % MinInst = 0 /\ (x - y) % MinInst = 0
      BY <1>2, Sizes, Multiples
<1> QED BY <1>1, <1>2

\* A header whose bytes and strings are such.
Proper(h) ==
    /\ h.bytes \in Seq(Byte) /\ h.text \in Seq(STRING) /\ h.strs \in Seq(STRING)
    /\ Len(h.text) = Len(h.bytes)

(* A number of variable length is a natural number, wherever it is read.   *)
LEMMA UlebTyped ==
    ASSUME NEW h, Proper(h), NEW p
    PROVE  UlebAt(h, p) \in Nat
<1> DEFINE n == UlebSize(h, p)
           Digit(i) == ByteAt(h, p + n - i) % 128
           Grown(v, i) == 128 * v + Digit(i)
           f == [i \in 1 .. n |-> [v \in Nat |-> Grown(v, i)]]
<1>1. n \in Nat
    <2> DEFINE sizes == {i \in 0 .. 9 : \A j \in 0 .. i - 1 : ByteAt(h, p + j) >= 128}
    <2>1. IsFiniteSet(0 .. 9)
        <3>1. 0 \in Int /\ 9 \in Int
              OBVIOUS
        <3> QED BY <3>1, FS_Interval, Zenon
    <2>2. sizes \subseteq 0 .. 9
          OBVIOUS
    <2> HIDE DEF sizes
    <2>3. Cardinality(sizes) \in Nat
          BY <2>1, <2>2, FS_Subset, FS_CardinalityType
    <2> QED BY <2>3 DEF UlebSize, sizes
<1>2. ASSUME NEW q
      PROVE  ByteAt(h, q) % 128 \in Nat
    <2>1. CASE q \in DOMAIN h.bytes
        <3> DEFINE bytes == h.bytes
        <3>1. bytes \in Seq(Byte) /\ q \in DOMAIN bytes
              BY <2>1 DEF Proper
        <3> HIDE DEF bytes
        <3>2. bytes[q] \in Byte
              BY <3>1
        <3> QED BY <2>1, <3>2 DEF bytes, ByteAt, Byte
    <2>2. CASE q \notin DOMAIN h.bytes
          BY <2>2 DEF ByteAt
    <2> QED BY <2>1, <2>2
<1> HIDE DEF n
<1>3. \A i \in 1 .. n : \A v \in Nat : Grown(v, i) \in Nat
    <2>1. \A i \in 1 .. n : Digit(i) \in Nat
          BY <1>2
    <2> HIDE DEF Digit
    <2> QED BY <2>1
<1> HIDE DEF Digit, Grown
<1>4. PICK run : IsRun(run, Nat, 0, f, n)
    <2>1. f \in [1 .. n -> [Nat -> Nat]]
          BY <1>3
    <2> HIDE DEF f
    <2> QED BY <1>1, <2>1, RunExists
<1>5. ASSUME NEW i \in 1 .. n
      PROVE  run[i] = Grown(run[i - 1], i)
    <2>1. run[i] = f[i][run[i - 1]] /\ run[i - 1] \in Nat
          BY <1>1, <1>4 DEF IsRun
    <2> QED BY <2>1
<1> HIDE DEF f
<1>6. run = [i \in 0 .. n |-> IF i = 0 THEN 0 ELSE Grown(run[i - 1], i)]
    <2>1. run \in [0 .. n -> Nat] /\ run[0] = 0
          BY <1>4 DEF IsRun
    <2>2. ASSUME NEW i \in 0 .. n
          PROVE  run[i] = IF i = 0 THEN 0 ELSE Grown(run[i - 1], i)
          BY <1>1, <1>5, <2>1
    <2> QED BY <2>1, <2>2
<1> DEFINE V == CHOOSE v : v = [i \in 0 .. n |-> IF i = 0 THEN 0 ELSE Grown(v[i - 1], i)]
           N == {k \in Nat : k \in 0 .. n => V[k] \in Nat}
<1>7. V = [i \in 0 .. n |-> IF i = 0 THEN 0 ELSE Grown(V[i - 1], i)]
      BY <1>6, Zenon
<1>8. UlebAt(h, p) = V[n]
      BY Zenon DEF UlebAt, n, Grown, Digit
<1> HIDE DEF V
<1>9. \A i \in 0 .. n : V[i] = IF i = 0 THEN 0 ELSE Grown(V[i - 1], i)
      BY <1>7
<1>10. 0 \in N
       BY <1>9
<1>11. ASSUME NEW k \in Nat, k \in N
       PROVE  k + 1 \in N
    <2> SUFFICES ASSUME k + 1 \in 0 .. n
                 PROVE  V[k + 1] \in Nat
        OBVIOUS
    <2> DEFINE m == k + 1
    <2>1. m \in 1 .. n /\ m \in 0 .. n /\ m - 1 = k /\ k \in 0 .. n /\ m # 0
          BY <1>1
    <2> HIDE DEF m
    <2>2. V[m] = Grown(V[k], m) /\ V[k] \in Nat
          BY <1>9, <1>11, <2>1
    <2> QED BY <1>3, <2>1, <2>2 DEF m
<1>12. Nat \subseteq N
    <2> HIDE DEF N
    <2> QED BY <1>10, <1>11, SetInduction
<1> QED BY <1>1, <1>8, <1>12

(* A string read from a header is a string, wherever it is looked for.     *)
LEMMA TextTyped ==
    ASSUME NEW h, Proper(h), NEW p, NEW form
    PROVE  TextAt(h, p) \in Names /\ StringOf(h, p, form) \in Names
<1> DEFINE text == h.text
           strs == h.strs
<1>1. DOMAIN h.bytes = DOMAIN text /\ text \in Seq(STRING) /\ strs \in Seq(STRING)
      BY DEF Proper
<1> HIDE DEF text, strs
<1>2. \A i \in DOMAIN text : text[i] \in Names
    <2>1. \A i \in DOMAIN text : text[i] \in STRING
          BY <1>1
    <2> QED BY <2>1 DEF Names
<1>3. \A i \in DOMAIN strs : strs[i] \in Names
    <2>1. \A i \in DOMAIN strs : strs[i] \in STRING
          BY <1>1
    <2> QED BY <2>1 DEF Names
<1>4. TextAt(h, p) \in Names
    <2>1. CASE ByteAt(h, p) = 0
          BY <2>1 DEF TextAt, Names
    <2>2. CASE ByteAt(h, p) # 0
        <3>1. p \in DOMAIN text
              BY <1>1, <2>2 DEF ByteAt
        <3>2. text[p] \in Names
              BY <1>2, <3>1
        <3> QED BY <2>2, <3>2 DEF TextAt, text
    <2> QED BY <2>1, <2>2
<1>5. ASSUME NEW offset
      PROVE  LineStr(h, offset) \in Names
    <2>1. CASE offset + 1 \in DOMAIN strs
        <3>1. strs[offset + 1] \in Names
              BY <1>3, <2>1
        <3> QED BY <2>1, <3>1 DEF LineStr, strs
    <2>2. CASE offset + 1 \notin DOMAIN strs
          BY <2>2 DEF LineStr, strs, Names
    <2> QED BY <2>1, <2>2
<1> QED BY <1>4, <1>5 DEF StringOf

(* So many strings are a number of strings.                                *)
LEMMA TextsTyped ==
    ASSUME NEW h, Proper(h), NEW P
    PROVE  Texts(h, P) \in Nat
<1> DEFINE before == {n \in 0 .. Len(h.bytes) : \A m \in 0 .. n : ByteAt(h, P[m]) # 0}
<1>1. Len(h.bytes) \in Nat
      BY DEF Proper
<1>2. IsFiniteSet(0 .. Len(h.bytes)) /\ before \subseteq 0 .. Len(h.bytes)
      BY <1>1, FS_Interval
<1> HIDE DEF before
<1>3. Cardinality(before) \in Nat
      BY <1>2, FS_Subset, FS_CardinalityType
<1> QED BY <1>3 DEF Texts, before

\* Entries of a header: a sequence, and their names are strings.
EntryList(of) == \E n \in Nat : DOMAIN of = 1 .. n /\ \A i \in 1 .. n : of[i].name \in Names

(* The entries of a version 5 list, however its formats are misread.       *)
LEMMA EntriesTyped ==
    ASSUME NEW h, Proper(h), NEW p
    PROVE  EntryList(Entries(h, p).of)
<1> DEFINE f == Formats(h, p)
           n == Len(f.of)
           count == UlebAt(h, f.next)
           V == ValueEnds(h, f.of, AfterUleb(h, f.next))
<1>1. CASE f.of = <<>>
    <2>1. Entries(h, p).of = <<>>
          BY <1>1 DEF Entries, EntriesOf
    <2>2. 0 \in Nat /\ DOMAIN <<>> = 1 .. 0 /\ \A i \in 1 .. 0 : <<>>[i].name \in Names
          OBVIOUS
    <2> QED BY <2>1, <2>2 DEF EntryList
<1>2. CASE f.of # <<>>
    <2>1. Entries(h, p).of = [i \in 1 .. count |-> EntryBehind(h, f.of, V, (i - 1) * n)]
          BY <1>2 DEF Entries, EntriesOf, EntriesAt
    <2>2. count \in Nat
          BY UlebTyped
    <2>3. ASSUME NEW k
          PROVE  EntryBehind(h, f.of, V, k).name \in Names
          BY TextTyped DEF EntryBehind, Names
    <2> HIDE DEF f, n, count, V
    <2> QED BY <2>1, <2>2, <2>3 DEF EntryList
<1> QED BY <1>1, <1>2

(* The directories and the files of a header.                              *)
LEMMA ReadTyped ==
    ASSUME NEW h, Proper(h)
    PROVE  ReadHeader(h).dirs \in Seq(Names) /\ EntryList(ReadHeader(h).files)
<1>1. ReadV5(h).dirs \in Seq(Names) /\ EntryList(ReadV5(h).files)
    <2> DEFINE of == Entries(h, 1).of
    <2>1. EntryList(of) /\ ReadV5(h).dirs = [i \in DOMAIN of |-> of[i].name]
          BY EntriesTyped DEF ReadV5, FilesV5, NamesV5
    <2>2. EntryList(ReadV5(h).files)
          BY EntriesTyped DEF ReadV5, FilesV5, NamesV5
    <2> HIDE DEF of
    <2>3. ReadV5(h).dirs \in Seq(Names)
          BY <2>1 DEF EntryList
    <2> QED BY <2>2, <2>3
<1>2. ReadV4(h).dirs \in Seq(Names) /\ EntryList(ReadV4(h).files)
    <2> DEFINE D == StringEnds(h, 1)
               F == FileEnds(h, AfterText(h, D[Texts(h, D)]))
               texts == [i \in 1 .. Texts(h, D) |-> TextAt(h, D[i - 1])]
               files == [i \in 1 .. Texts(h, F) |-> [dir  |-> UlebAt(h, AfterText(h, F[i - 1])),
                                                     name |-> TextAt(h, F[i - 1])]]
    <2>1. ReadV4(h).dirs = <<"">> \o texts /\ ReadV4(h).files = files
          BY DEF ReadV4, FilesV4, NamesV4
    <2>2. Texts(h, D) \in Nat /\ Texts(h, F) \in Nat
          BY TextsTyped
    <2>3. \A i : TextAt(h, D[i - 1]) \in Names /\ TextAt(h, F[i - 1]) \in Names
          BY TextTyped
    <2> DEFINE m == Texts(h, D)
               n == Texts(h, F)
    <2> HIDE DEF D, F, m, n
    <2>4. texts \in Seq(Names) /\ EntryList(files)
        <3>1. m \in Nat /\ texts = [i \in 1 .. m |-> TextAt(h, D[i - 1])]
              BY <2>2 DEF m
        <3>2. texts \in Seq(Names)
            <4>1. \A i \in 1 .. m : TextAt(h, D[i - 1]) \in Names
                  BY <2>3
            <4>2. texts \in [1 .. m -> Names]
                <5> HIDE DEF texts
                <5> QED BY <3>1, <4>1
            <4> HIDE DEF texts
            <4> QED BY <3>1, <4>2, FunctionIsSeq
        <3>3. n \in Nat /\ DOMAIN files = 1 .. n /\ \A i \in 1 .. n : files[i].name = TextAt(h, F[i - 1])
              BY <2>2 DEF n
        <3> HIDE DEF files
        <3> QED BY <2>3, <3>2, <3>3 DEF EntryList
    <2> HIDE DEF texts, files
    <2>5. <<"">> \o texts \in Seq(Names)
        <3>1. <<"">> \in Seq(Names)
              BY DEF Names
        <3> QED BY <2>4, <3>1, ConcatProperties
    <2> QED BY <2>1, <2>4, <2>5
<1> QED BY <1>1, <1>2 DEF ReadHeader

(* The file table of a header is a sequence of paths.                      *)
LEMMA FileTableTyped ==
    ASSUME NEW h, Proper(h)
    PROVE  FileTable(h) \in Seq(Paths)
<1> DEFINE dirs == ReadHeader(h).dirs
           files == ReadHeader(h).files
           path(i) == <<IF files[i].dir + 1 \in DOMAIN dirs THEN dirs[files[i].dir + 1] ELSE "",
                        files[i].name>>
<1>1. FileTable(h) = [i \in DOMAIN files |-> path(i)]
      BY DEF FileTable, PathsOf
<1>2. dirs \in Seq(Names) /\ EntryList(files)
      BY ReadTyped
<1> HIDE DEF dirs, files
<1>3. PICK n \in Nat : DOMAIN files = 1 .. n /\ \A i \in 1 .. n : files[i].name \in Names
      BY <1>2 DEF EntryList
<1>4. ASSUME NEW i \in 1 .. n
      PROVE  path(i) \in Paths
    <2>1. \A j \in DOMAIN dirs : dirs[j] \in Names
          BY <1>2
    <2> QED BY <1>3, <2>1 DEF Names, Paths
<1> HIDE DEF path
<1> QED BY <1>1, <1>3, <1>4

(* A unit of an image has the shape of one, and its rows are instructions  *)
(* and repeat at the end of a sequence.                                    *)
LEMMA UnitFacts ==
    ASSUME NEW img \in Images, NEW i \in DOMAIN img.units
    PROVE  /\ img.units \in Seq(LineUnit) /\ img.units[i] \in LineUnit
           /\ img.units[i].rows \in Seq(LineRow)
           /\ FileTable(img.units[i]) \in Seq(Paths)
           /\ \A k \in DOMAIN img.units[i].rows :
                /\ img.units[i].rows[k] \in LineRow
                /\ img.units[i].rows[k].address % MinInst = 0
                /\ EndRepeats(img.units[i].rows, k)
<1>1. img.units \in Seq(LineUnit)
      BY LineLoadAssumption
<1>2. img.units[i] \in LineUnit
      BY <1>1
<1>3. img.units[i].rows \in Seq(LineRow)
      BY <1>2 DEF LineUnit
<1>4. img.units[i] \in Range(img.units)
      BY <1>1 DEF Range
<1>5. FileTable(img.units[i]) \in Seq(Paths)
      BY <1>2, <1>4, LineLoadAssumption, FileTableTyped DEF LineUnit, Proper
<1>6. ASSUME NEW k \in DOMAIN img.units[i].rows
      PROVE  img.units[i].rows[k] \in LineRow
      BY <1>3
<1> QED BY <1>1, <1>2, <1>3, <1>4, <1>5, <1>6, LineLoadAssumption

(* Written grows by the position of each row that is kept.                 *)
LEMMA WrittenRun ==
    ASSUME NEW u \in LineUnit
    PROVE  /\ Written(u) \in [0 .. Len(u.rows) -> Seq(Pos)]
           /\ Written(u)[0] = Opening(u)
           /\ \A k \in 1 .. Len(u.rows) :
                Written(u)[k] = IF Keeps(u, u.rows[k])
                                THEN Append(Written(u)[k - 1], Position(u.rows[k]))
                                ELSE Written(u)[k - 1]
<1> DEFINE n == Len(u.rows)
           b == Opening(u)
           Grown(s, k) == IF Keeps(u, u.rows[k]) THEN Append(s, Position(u.rows[k])) ELSE s
           f == [k \in 1 .. n |-> [s \in Seq(Pos) |-> Grown(s, k)]]
<1>1. n \in Nat /\ \A k \in 1 .. n : u.rows[k] \in LineRow
      BY DEF LineUnit
<1>2. \A k \in 1 .. n : Position(u.rows[k]) \in Pos
      BY <1>1 DEF Position, Pos, LineRow
<1>3. b \in Seq(Pos)
    <2>1. <<Position(ResetRegs)>> \in Seq(Pos) /\ <<>> \in Seq(Pos)
          BY DEF Position, Pos, ResetRegs
    <2> QED BY <2>1 DEF Opening
<1>4. \A k \in 1 .. n : \A s \in Seq(Pos) : Grown(s, k) \in Seq(Pos)
      BY <1>2
<1> HIDE DEF n, b, Grown
<1>5. f \in [1 .. n -> [Seq(Pos) -> Seq(Pos)]]
      BY <1>4
<1>6. PICK h : IsRun(h, Seq(Pos), b, f, n)
    <2> HIDE DEF f
    <2> QED BY <1>1, <1>3, <1>5, RunExists
<1>7. h \in [0 .. n -> Seq(Pos)] /\ h[0] = b
      BY <1>6 DEF IsRun
<1>8. ASSUME NEW k \in 1 .. n
      PROVE  h[k] = Grown(h[k - 1], k)
    <2>1. h[k - 1] \in Seq(Pos)
          BY <1>1, <1>7
    <2>2. h[k] = f[k][h[k - 1]]
          BY <1>6 DEF IsRun
    <2> QED BY <2>1, <2>2
<1> HIDE DEF f
<1>9. h = [k \in 0 .. n |-> IF k = 0 THEN b ELSE Grown(h[k - 1], k)]
    <2>1. ASSUME NEW k \in 0 .. n
          PROVE  h[k] = IF k = 0 THEN b ELSE Grown(h[k - 1], k)
          BY <1>1, <1>7, <1>8
    <2> QED BY <1>7, <2>1
<1>10. Written(u) = [k \in 0 .. n |-> IF k = 0 THEN b ELSE Grown(Written(u)[k - 1], k)]
       BY <1>9, Zenon DEF Written, Opening, n, b, Grown
<1> DEFINE W == Written(u)
           N == {k \in Nat : k \in 0 .. n => W[k] \in Seq(Pos)}
<1>11. /\ DOMAIN W = 0 .. n /\ W[0] = b
       /\ \A k \in 1 .. n : W[k] = Grown(W[k - 1], k)
    <2> HIDE DEF W
    <2>1. W = [k \in 0 .. n |-> IF k = 0 THEN b ELSE Grown(W[k - 1], k)]
          BY <1>10 DEF W
    <2>2. \A k \in 0 .. n : W[k] = IF k = 0 THEN b ELSE Grown(W[k - 1], k)
          BY <2>1
    <2> QED BY <2>1, <2>2, <1>1
<1> HIDE DEF W
<1>12. 0 \in N
       BY <1>3, <1>11
<1>13. ASSUME NEW k \in Nat, k \in N
       PROVE  k + 1 \in N
    <2> SUFFICES ASSUME k + 1 \in 0 .. n
                 PROVE  W[k + 1] \in Seq(Pos)
        OBVIOUS
    <2> DEFINE m == k + 1
    <2>1. m \in 1 .. n /\ m - 1 = k /\ k \in 0 .. n
          BY <1>1
    <2> HIDE DEF m
    <2>2. W[m] = Grown(W[k], m)
          BY <1>11, <2>1
    <2>3. W[k] \in Seq(Pos)
          BY <1>13, <2>1
    <2> QED BY <1>4, <2>1, <2>2, <2>3 DEF m
<1>14. \A k \in 0 .. n : W[k] \in Seq(Pos)
    <2> HIDE DEF N
    <2>1. Nat \subseteq N
          BY <1>12, <1>13, SetInduction
    <2> QED BY <1>1, <2>1 DEF N
<1>15. W \in [0 .. n -> Seq(Pos)]
    <2>1. W = [k \in 0 .. n |-> W[k]]
          BY <1>10, <1>11, Zenon DEF W
    <2> QED BY <1>14, <2>1
<1> QED BY <1>11, <1>15 DEF W, n, b, Grown

(* What a unit writes is a sequence of positions.                          *)
LEMMA ExpectedTyped ==
    ASSUME NEW u \in LineUnit
    PROVE  Expected(u) \in Seq(Pos) /\ \A k \in 0 .. Len(u.rows) : Part(u, k) \in Seq(Pos)
<1>1. Len(u.rows) \in Nat
      BY DEF LineUnit
<1>2. <<>> \in Seq(Pos)
      OBVIOUS
<1>3. \A k \in 0 .. Len(u.rows) : Written(u)[k] \in Seq(Pos)
      BY WrittenRun
<1> QED BY <1>1, <1>2, <1>3 DEF Expected, Part

\* h joins the first sequences of seqs.
IsFlat(h, seqs) ==
    /\ h \in [0 .. Len(seqs) -> Seq(Pos)]
    /\ h[0] = <<>>
    /\ \A i \in 1 .. Len(seqs) : h[i] = h[i - 1] \o seqs[i]
    /\ FlattenSeq(seqs) = h[Len(seqs)]

\* What the first units have written together.
Flat(seqs) == CHOOSE h : IsFlat(h, seqs)

\* What each unit of the image writes.
Parts == [i \in DOMAIN image.units |-> Expected(image.units[i])]

\* What the unit being read has written.
Here == Part(Unit, at.row - 1)

\* The reader's registers are those the assembler has in mind.
InStep ==
    /\ Unit.version \in {4, 5} /\ at.row \in 1 .. Len(Unit.rows) + 1
    /\ regs = meant /\ regs \in Registers /\ regs.address % MinInst = 0
    /\ at.row <= Len(Unit.rows) /\ Due.end => regs.line = Due.line /\ regs.file = Due.file

\* The table has the rows of the units read and of the rows read of this one.
Decoding ==
    /\ at \in [unit : 1 .. Len(image.units) + 1, row : Nat]
    /\ at.unit = Len(image.units) + 1 => at.row = 0
    /\ at.row # 0 => InStep
    /\ Positions(entries) = IF at.row = 0 THEN Flat(Parts)[at.unit - 1]
                            ELSE Flat(Parts)[at.unit - 1] \o Here

DecodeInv ==
    /\ image \in Images
    /\ (\A u \in Units : Aligned(u)) =>
         /\ source \in {"program", "native"} => entries \in Seq(EntryRow)
         /\ source = "program" => Decoding
         /\ source = "native" => Positions(entries) = ExpectedRows

(* There is such a joining function.                                       *)
LEMMA FlatIsFlat ==
    ASSUME NEW seqs \in Seq(Seq(Pos))
    PROVE  IsFlat(Flat(seqs), seqs)
<1>1. \E h : IsFlat(h, seqs)
      BY FlatRun DEF IsFlat
<1> QED BY <1>1 DEF Flat

(* So is what each unit of the image writes.                               *)
LEMMA PartsTyped ==
    ASSUME image \in Images
    PROVE  /\ Parts \in Seq(Seq(Pos)) /\ Len(Parts) = Len(image.units) /\ Len(Parts) \in Nat
           /\ \A i \in 1 .. Len(Parts) : Parts[i] = Expected(image.units[i])
<1>1. image.units \in Seq(LineUnit)
      BY LineLoadAssumption
<1>2. \A i \in DOMAIN image.units : Expected(image.units[i]) \in Seq(Pos)
      BY <1>1, ExpectedTyped
<1>3. Len(image.units) \in Nat /\ DOMAIN image.units = 1 .. Len(image.units)
      BY <1>1
<1> HIDE DEF Expected
<1> QED BY <1>2, <1>3 DEF Parts

(* The expected rows, unit after unit.                                     *)
LEMMA FlatParts ==
    ASSUME image \in Images
    PROVE  /\ image.units \in Seq(LineUnit) /\ Len(image.units) \in Nat
           /\ Flat(Parts)[0] = <<>>
           /\ ExpectedRows = Flat(Parts)[Len(image.units)]
           /\ \A i \in 0 .. Len(image.units) : Flat(Parts)[i] \in Seq(Pos)
           /\ \A i \in 1 .. Len(image.units) :
                Flat(Parts)[i] = Flat(Parts)[i - 1] \o Expected(image.units[i])
<1>1. image.units \in Seq(LineUnit) /\ Len(image.units) \in Nat
      BY LineLoadAssumption
<1>2. /\ IsFlat(Flat(Parts), Parts) /\ Len(Parts) = Len(image.units)
      /\ \A i \in 1 .. Len(Parts) : Parts[i] = Expected(image.units[i])
      BY PartsTyped, FlatIsFlat
<1>3. ASSUME NEW i \in 1 .. Len(image.units)
      PROVE  Flat(Parts)[i] = Flat(Parts)[i - 1] \o Expected(image.units[i])
    <2>1. Flat(Parts)[i] = Flat(Parts)[i - 1] \o Parts[i]
          BY <1>2 DEF IsFlat
    <2> QED BY <1>2, <2>1
<1>4. ExpectedRows = FlattenSeq(Parts)
      BY DEF ExpectedRows, Parts
<1> QED BY <1>1, <1>2, <1>3, <1>4 DEF IsFlat

(* A row appended to the table appends its position.                       *)
LEMMA PositionsGrow ==
    ASSUME NEW rows \in Seq(EntryRow), NEW e \in EntryRow
    PROVE  /\ Append(rows, e) \in Seq(EntryRow)
           /\ Positions(rows) \in Seq(Pos)
           /\ Positions(Append(rows, e)) = Append(Positions(rows), Position(e))
<1>1. \A r \in EntryRow : Position(r) \in Pos
      BY DEF EntryRow, Position, Pos
<1>2. Positions(rows) \in Seq(Pos) /\ Len(Positions(rows)) = Len(rows)
      BY <1>1 DEF Positions
<1>3. Positions(Append(rows, e)) \in Seq(Pos) /\ Len(Positions(Append(rows, e))) = Len(rows) + 1
      BY <1>1 DEF Positions
<1>4. Append(Positions(rows), Position(e)) \in Seq(Pos)
      BY <1>1, <1>2
<1>5. \A i \in 1 .. Len(rows) + 1 :
         Positions(Append(rows, e))[i] = Append(Positions(rows), Position(e))[i]
      BY <1>2, SMTT(30) DEF Positions
<1> QED BY <1>2, <1>3, <1>4, <1>5, SeqEqual

(* emit_row: with the registers at the row due, the table gets the row     *)
(* exactly if it is kept.                                                  *)
LEMMA Emits ==
    ASSUME image \in Images, at.unit \in DOMAIN image.units, at.row \in DOMAIN Unit.rows,
           Unit.version \in {4, 5}, entries \in Seq(EntryRow), NEW rg \in Registers,
           rg.address = Due.address, rg.line = Due.line, rg.file = Due.file
    PROVE  /\ Emitted(rg) \in Seq(EntryRow)
           /\ Positions(Emitted(rg)) = IF Keeps(Unit, Due)
                                       THEN Append(Positions(entries), Position(Due))
                                       ELSE Positions(entries)
<1>1. FileTable(Unit) \in Seq(Paths) /\ Due \in LineRow
      BY UnitFacts DEF Unit, Due
<1> DEFINE e == LineEntry(rg)
<1>2. CASE Keeps(Unit, Due)
    <2>1. HasRow(rg) /\ rg.file \in DOMAIN FileTable(Unit)
          BY <1>2 DEF Keeps, HasRow
    <2>2. Emitted(rg) = Append(entries, e)
          BY <2>1 DEF Emitted
    <2>3. e \in EntryRow
        <3>1. FileTable(Unit)[rg.file] \in Paths
              BY <1>1, <2>1
        <3> QED BY <3>1 DEF EntryRow, Registers, LineEntry
    <2>4. Position(e) = Position(Due)
          BY DEF Position, LineEntry
    <2> QED BY <1>2, <2>2, <2>3, <2>4, PositionsGrow
<1>3. CASE ~ Keeps(Unit, Due)
    <2>1. ~ HasRow(rg)
          BY <1>1, <1>3 DEF Keeps, HasRow, LineRow
    <2> QED BY <1>3, <2>1 DEF Emitted
<1> QED BY <1>2, <1>3

(* What is expected of the unit grows by the row due exactly if it is      *)
(* kept.                                                                   *)
LEMMA PartGrows ==
    ASSUME image \in Images, at.unit \in DOMAIN image.units, at.row \in DOMAIN Unit.rows,
           Unit.version \in {4, 5}
    PROVE  Part(Unit, at.row) = IF Keeps(Unit, Due) THEN Append(Part(Unit, at.row - 1), Position(Due))
                                ELSE Part(Unit, at.row - 1)
<1>1. Unit \in LineUnit /\ Unit.rows \in Seq(LineRow)
      BY UnitFacts DEF Unit
<1>2. at.row \in 1 .. Len(Unit.rows)
      BY <1>1
<1> QED BY <1>1, <1>2, WrittenRun DEF Part, Due

(* An opcode that makes a row, with the registers at the row due: the      *)
(* table follows what is expected, and the registers what the assembler    *)
(* has in mind, for a sequence that ends too.                              *)
LEMMA RowDecoded ==
    ASSUME image \in Images, Decoding, InProgram, entries \in Seq(EntryRow),
           NEW rg \in Registers,
           rg.address = Due.address, rg.line = Due.line, rg.file = Due.file, RowDone(rg),
           meant' = regs', regs' \in Registers, regs'.address % MinInst = 0,
           IF Due.end THEN regs' = ResetRegs ELSE regs'.line = Due.line /\ regs'.file = Due.file
    PROVE  entries' \in Seq(EntryRow) /\ Decoding'
<1>1. /\ image' = image /\ source' = source /\ entries' = Emitted(rg)
      /\ at' = [at EXCEPT !.row = @ + 1]
      BY DEF RowDone
<1>2. /\ at.unit \in DOMAIN image.units /\ image.units \in Seq(LineUnit)
      /\ Unit \in LineUnit /\ Unit.rows \in Seq(LineRow)
    <2>1. image.units \in Seq(LineUnit)
          BY LineLoadAssumption
    <2>2. at.unit \in DOMAIN image.units
          BY <2>1 DEF InProgram, Interpreting, Decoding
    <2> QED BY <2>1, <2>2, UnitFacts DEF Unit
<1>3. at.row \in DOMAIN Unit.rows /\ at.row # 0 /\ InStep
      BY <1>2 DEF InProgram, Decoding
<1>4. at' \in [unit : 1 .. Len(image.units) + 1, row : Nat] /\ at'.unit = at.unit /\ at'.row = at.row + 1
      BY <1>1 DEF Decoding
<1>5. Unit' = Unit /\ Parts' = Parts /\ at'.row # 0 /\ at'.unit # Len(image'.units) + 1
      BY <1>1, <1>2, <1>3, <1>4 DEF Unit, Parts
<1>6. entries' \in Seq(EntryRow) /\ Positions(entries') = Flat(Parts)'[at'.unit - 1] \o Here'
    <2>1. Here' = Part(Unit, at.row)
        <3>1. at'.row - 1 = at.row
              BY <1>2, <1>3, <1>4
        <3> QED BY <1>5, <3>1 DEF Here
    <2>2. entries' \in Seq(EntryRow)
          /\ Positions(entries') = IF Keeps(Unit, Due)
                                   THEN Append(Positions(entries), Position(Due))
                                   ELSE Positions(entries)
          BY <1>1, <1>2, <1>3, Emits DEF InStep
    <2>3. Part(Unit, at.row) = IF Keeps(Unit, Due) THEN Append(Here, Position(Due)) ELSE Here
          BY <1>2, <1>3, PartGrows DEF InStep, Here
    <2>4. Positions(entries) = Flat(Parts)[at.unit - 1] \o Here
          BY <1>3 DEF Decoding
    <2>5. Flat(Parts)[at.unit - 1] \in Seq(Pos) /\ Here \in Seq(Pos) /\ Position(Due) \in Pos
        <3>1. IsFlat(Flat(Parts), Parts) /\ Len(Parts) = Len(image.units) /\ Len(Parts) \in Nat
              BY PartsTyped, FlatIsFlat
        <3>2. at.unit - 1 \in 0 .. Len(Parts) /\ at.row - 1 \in 0 .. Len(Unit.rows)
              BY <1>2, <1>3, <3>1
        <3>3. Due \in LineRow
              BY <1>2, <1>3, SMTT(30) DEF Due
        <3> QED BY <1>2, <3>1, <3>2, <3>3, ExpectedTyped DEF IsFlat, Here, Position, Pos, LineRow
    <2>6. Append(Flat(Parts)[at.unit - 1] \o Here, Position(Due))
             = Flat(Parts)[at.unit - 1] \o Append(Here, Position(Due))
        <3> DEFINE a == Flat(Parts)[at.unit - 1]
                   e == Position(Due)
                   one == <<e>>
        <3>1. a \in Seq(Pos) /\ Here \in Seq(Pos) /\ e \in Pos /\ one \in Seq(Pos)
              BY <2>5
        <3> HIDE DEF a, e
        <3>2. a \o Here \in Seq(Pos)
              BY <3>1
        <3>3. Append(a \o Here, e) = (a \o Here) \o one
              BY <3>1, <3>2, AppendIsConcat
        <3>4. Append(Here, e) = Here \o one
              BY <3>1, AppendIsConcat
        <3> HIDE DEF one
        <3>5. (a \o Here) \o one = a \o (Here \o one)
              BY <3>1, ConcatAssociative, SMTT(30)
        <3> QED BY <3>3, <3>4, <3>5 DEF a, e
    <2>7. Flat(Parts)'[at'.unit - 1] = Flat(Parts)[at.unit - 1]
          BY <1>4, <1>5
    <2>8. CASE Keeps(Unit, Due)
        <3>1. Positions(entries') = Append(Positions(entries), Position(Due))
              BY <2>2, <2>8
        <3>2. Here' = Append(Here, Position(Due))
              BY <2>1, <2>3, <2>8
        <3> QED BY <2>2, <2>4, <2>6, <2>7, <3>1, <3>2
    <2>9. CASE ~ Keeps(Unit, Due)
        <3>1. Positions(entries') = Positions(entries)
              BY <2>2, <2>9
        <3>2. Here' = Here
              BY <2>1, <2>3, <2>9
        <3> QED BY <2>2, <2>4, <2>7, <3>1, <3>2
    <2> QED BY <2>8, <2>9
<1>7. InStep'
    <2>1. at'.row <= Len(Unit.rows) /\ Due'.end => regs'.line = Due'.line /\ regs'.file = Due'.file
        <3> SUFFICES ASSUME at.row + 1 <= Len(Unit.rows), Due'.end
                     PROVE  regs'.line = Due'.line /\ regs'.file = Due'.file
            BY <1>4
        <3> DEFINE k == at.row + 1
        <3>1. k \in DOMAIN Unit.rows /\ k > 1 /\ k - 1 = at.row
              BY <1>2, <1>3, SMTT(30)
        <3>2. EndRepeats(Unit.rows, k)
              BY <1>2, <3>1, UnitFacts DEF Unit
        <3>3. Due' = Unit.rows[k]
              BY <1>4, <1>5 DEF Due
        <3> HIDE DEF k
        <3>4. Due'.line = (IF Due.end THEN ResetRegs ELSE Due).line
              /\ Due'.file = (IF Due.end THEN ResetRegs ELSE Due).file
              BY <3>1, <3>2, <3>3 DEF EndRepeats, Due
        <3> QED BY <3>4
    <2> QED BY <1>2, <1>3, <1>4, <1>5, <2>1 DEF InStep
<1> QED BY <1>1, <1>4, <1>5, <1>6, <1>7 DEF Decoding

(* In a program: the row due and the registers are numbers, the registers  *)
(* are those the assembler has in mind, and the way to the row due is a    *)
(* multiple of the instruction length.                                     *)
LEMMA ReaderFacts ==
    ASSUME image \in Images, Decoding, InProgram
    PROVE  /\ at.unit \in DOMAIN image.units /\ Unit \in LineUnit
           /\ at.row \in DOMAIN Unit.rows /\ InStep
           /\ Due \in LineRow /\ Due.address \in Int /\ Due.address % MinInst = 0
           /\ Due.line \in Int /\ Due.file \in Nat
           /\ regs = meant /\ regs \in Registers /\ regs.address \in Int /\ regs.line \in Int
           /\ regs.address % MinInst = 0 /\ meant.file \in Nat
           /\ ToGo \in Int /\ ToGo % MinInst = 0 /\ (ToGo \div MinInst) * MinInst = ToGo
<1>1. /\ at.unit \in DOMAIN image.units /\ Unit \in LineUnit
      /\ at.row \in DOMAIN Unit.rows /\ InStep
    <2>1. at.unit \in DOMAIN image.units
          BY LineLoadAssumption DEF InProgram, Interpreting, Decoding
    <2>2. Unit \in LineUnit /\ Unit.rows \in Seq(LineRow)
          BY <2>1, UnitFacts DEF Unit
    <2> QED BY <2>1, <2>2 DEF InProgram, Decoding
<1>2. Due \in LineRow /\ Due.address \in Int /\ Due.address % MinInst = 0
      /\ Due.line \in Int /\ Due.file \in Nat
    <2>1. Due \in LineRow /\ Due.address % MinInst = 0
          BY <1>1, UnitFacts DEF Unit, Due
    <2> QED BY <2>1 DEF LineRow
<1>3. /\ regs = meant /\ regs \in Registers /\ regs.address \in Int /\ regs.line \in Int
      /\ regs.address % MinInst = 0 /\ meant.file \in Nat
      BY <1>1 DEF InStep, Registers
<1>4. ToGo = Due.address - regs.address
      BY <1>3 DEF ToGo
<1>5. ToGo \in Int /\ ToGo % MinInst = 0
    <2>1. ToGo \in Int
          BY <1>2, <1>3, <1>4
    <2>2. (Due.address - regs.address) % MinInst = 0
          BY <1>2, <1>3, InstMultiples
    <2> QED BY <1>4, <2>1, <2>2
<1>6. (ToGo \div MinInst) * MinInst = ToGo
      BY <1>5, InstMultiples
<1> QED BY <1>1, <1>2, <1>3, <1>5, <1>6

(* set_address, advance_pc, const_add_pc, fixed_advance_pc, advance_line   *)
(* and set_file move both sets of registers alike.                         *)
LEMMA RegistersDecoded ==
    ASSUME image \in Images, Decoding, InProgram,
           SetAddress \/ AdvancePc \/ ConstAddPc \/ FixedAdvancePc \/ AdvanceLine \/ SetFile
    PROVE  Decoding'
<1>1. UNCHANGED <<image, source, entries, at>>
      BY DEF SetAddress, AdvancePc, ConstAddPc, FixedAdvancePc, AdvanceLine, SetFile
<1> USE ReaderFacts
<1>2. /\ regs' = meant' /\ regs' \in Registers /\ regs'.address % MinInst = 0
      /\ Due.end => regs'.line = regs.line /\ regs'.file = regs.file
    <2>1. CASE SetAddress
          BY <2>1 DEF SetAddress, Registers
    <2>2. CASE AdvancePc
          BY <2>2 DEF AdvancePc, Registers, ToGo
    <2>3. CASE ConstAddPc
        <3> DEFINE q == (MaxOpcode - OpcodeBase) \div LineRange
        <3>1. q \in Int
              BY Sizes
        <3> DEFINE advance == q * MinInst
        <3>2. advance \in Int /\ advance % MinInst = 0
              BY <3>1, InstMultiples
        <3>3. regs' = [regs EXCEPT !.address = @ + advance] /\ meant' = [meant EXCEPT !.address = @ + advance]
              BY <2>3 DEF ConstAddPc
        <3> HIDE DEF q, advance
        <3>4. (regs.address + advance) % MinInst = 0
              BY <3>2, InstMultiples
        <3> QED BY <3>2, <3>3, <3>4 DEF Registers
    <2>4. CASE FixedAdvancePc
          BY <2>4 DEF FixedAdvancePc, Registers, ToGo
    <2>5. CASE AdvanceLine
          BY <2>5 DEF AdvanceLine, Registers
    <2>6. CASE SetFile
          BY <2>6 DEF SetFile, Registers
    <2> QED BY <2>1, <2>2, <2>3, <2>4, <2>5, <2>6
<1>3. Unit' = Unit /\ Parts' = Parts /\ Due' = Due /\ Here' = Here
      BY <1>1 DEF Unit, Parts, Due, Here
<1>4. InStep'
      BY <1>1, <1>2, <1>3 DEF InStep
<1> QED BY <1>1, <1>3, <1>4 DEF Decoding

\* The registers rg make a row, the row due.
Comes(rg) ==
    /\ rg \in Registers /\ RowDone(rg)
    /\ rg.address = Due.address /\ rg.line = Due.line /\ rg.file = Due.file
    /\ meant' = regs' /\ regs' \in Registers /\ regs'.address % MinInst = 0
    /\ IF Due.end THEN regs' = ResetRegs ELSE regs'.line = Due.line /\ regs'.file = Due.file

(* copy, special opcodes and end_sequence: a special opcode splits into    *)
(* exactly the line step and the address step it was made of.              *)
LEMMA RowComes ==
    ASSUME image \in Images, Decoding, InProgram, Copy \/ Special \/ EndSequence
    PROVE  Comes(regs) \/ Comes(regs')
<1> USE ReaderFacts
<1>1. CASE Copy
    <2>1. UNCHANGED <<meant, regs>> /\ ~ Due.end /\ RowDone(regs)
          /\ regs.address = Due.address /\ regs.line = Due.line /\ regs.file = Due.file
          BY <1>1 DEF Copy
    <2> QED BY <2>1 DEF Comes
<1>2. CASE Special
    <2> DEFINE step == Due.line - meant.line - LineBase
               q == ToGo \div MinInst
               opcode == step + LineRange * q + OpcodeBase
    <2>1. /\ step \in 0 .. LineRange - 1 /\ ~ Due.end /\ meant.file = Due.file
          /\ meant' = [meant EXCEPT !.address = Due.address, !.line = Due.line]
          /\ regs' = SpecialRegs(regs, opcode) /\ RowDone(regs')
          BY <1>2 DEF Special
    <2>2. q \in Int /\ q * MinInst = ToGo
          BY Sizes
    <2>3. (opcode - OpcodeBase) \div LineRange = q /\ (opcode - OpcodeBase) % LineRange = step
        <3>1. opcode - OpcodeBase = step + LineRange * q
            <4>1. step \in Int /\ LineRange * q \in Int
                  BY <2>1, <2>2, Sizes
            <4> HIDE DEF step, q
            <4> QED BY <4>1, Sizes
        <3> HIDE DEF step, q, opcode
        <3> QED BY <2>1, <2>2, <3>1, DivMod, Sizes
    <2>4. regs' = [regs EXCEPT !.line = Due.line, !.address = Due.address]
        <3>1. regs' = [regs EXCEPT !.line = @ + LineBase + step, !.address = @ + ToGo]
            <4> HIDE DEF step, q, opcode
            <4> QED BY <2>1, <2>2, <2>3 DEF SpecialRegs
        <3>2. regs.line + LineBase + step = Due.line
            <4>1. LineBase \in Int /\ regs.line \in Int /\ Due.line \in Int /\ meant.line = regs.line
                  BY Sizes
            <4> QED BY ONLY <4>1
        <3>3. regs.address + ToGo = Due.address
            <4>1. regs.address \in Int /\ Due.address \in Int /\ meant.address = regs.address
                  OBVIOUS
            <4> QED BY ONLY <4>1 DEF ToGo
        <3> QED BY <3>1, <3>2, <3>3
    <2>5. regs' = meant' /\ regs' \in Registers /\ regs'.address % MinInst = 0
          /\ regs'.address = Due.address /\ regs'.line = Due.line /\ regs'.file = Due.file
          BY <2>1, <2>4 DEF Registers
    <2> QED BY <2>1, <2>5 DEF Comes
<1>3. CASE EndSequence
    <2>1. Due.end /\ ToGo = 0 /\ meant' = ResetRegs /\ regs' = ResetRegs /\ RowDone(regs)
          BY <1>3 DEF EndSequence
    <2>2. regs.address = Due.address
          BY <2>1 DEF ToGo
    <2>3. regs.line = Due.line /\ regs.file = Due.file
          BY <2>1 DEF InStep, InProgram
    <2>4. ResetRegs \in Registers /\ ResetRegs.address % MinInst = 0
          BY Sizes DEF ResetRegs, Registers
    <2> QED BY <2>1, <2>2, <2>3, <2>4 DEF Comes
<1> QED BY <1>1, <1>2, <1>3

(* Such a row is the row due.                                              *)
LEMMA RowsAppear ==
    ASSUME image \in Images, Decoding, InProgram, entries \in Seq(EntryRow),
           Copy \/ Special \/ EndSequence
    PROVE  entries' \in Seq(EntryRow) /\ Decoding'
BY RowComes, RowDecoded DEF Comes

(* The section is read from its beginning with an empty table.             *)
LEMMA Begun ==
    ASSUME image \in Images, LoadDump
    PROVE  source' = "program" => entries' \in Seq(EntryRow) /\ Decoding'
<1> SUFFICES ASSUME source' = "program"
             PROVE  entries' \in Seq(EntryRow) /\ Decoding'
    OBVIOUS
<1>1. entries' = <<>> /\ at' = Header(1) /\ image' = image
      BY DEF LoadDump
<1>2. Positions(entries') = <<>>
      BY <1>1 DEF Positions
<1>3. Flat(Parts)'[0] = <<>>
      BY <1>1, FlatParts DEF Parts
<1>4. at'.unit = 1 /\ at'.row = 0 /\ 1 - 1 = 0 /\ at' = [unit |-> 1, row |-> 0]
      BY <1>1 DEF Header
<1>5. Len(image.units) \in Nat
      BY FlatParts
<1> QED BY <1>1, <1>2, <1>3, <1>4, <1>5 DEF Decoding

(* Between two units the table is complete up to there.                    *)
LEMMA BetweenUnits ==
    ASSUME image \in Images, Decoding, Interpreting,
           Flat(Parts)[at.unit] = Positions(entries),
           image' = image, at' = Header(at.unit + 1), entries' = entries
    PROVE  Decoding'
<1>1. at.unit \in 1 .. Len(image.units) /\ Len(image.units) \in Nat
      BY FlatParts DEF Interpreting, Decoding
<1>2. at'.unit = at.unit + 1 /\ at'.row = 0 /\ at'.unit - 1 = at.unit
      /\ at' \in [unit : 1 .. Len(image.units) + 1, row : Nat]
      BY <1>1 DEF Header
<1>3. Parts' = Parts
      BY DEF Parts
<1> QED BY <1>2, <1>3 DEF Decoding

(* Units skipped, entered and finished: of an aligned unit a version 4     *)
(* header writes nothing, and the last byte of a version 5 header the row  *)
(* of the reset registers and nothing else.                                *)
LEMMA HeadersRead ==
    ASSUME image \in Images, Decoding, entries \in Seq(EntryRow),
           \A u \in Units : Aligned(u),
           SkipUnit \/ HeaderV4 \/ HeaderV5 \/ UnitDone
    PROVE  entries' \in Seq(EntryRow) /\ Decoding'
<1>1. Interpreting /\ image' = image
      BY DEF SkipUnit, HeaderV4, HeaderV5, UnitDone, InHeader
<1>2. at.unit \in 1 .. Len(image.units) /\ Unit \in LineUnit /\ Unit \in Units
    <2>1. at.unit \in 1 .. Len(image.units) /\ image.units \in Seq(LineUnit)
          BY <1>1, FlatParts DEF Interpreting, Decoding
    <2> QED BY <2>1, RangeOfSeq DEF Unit, Units, Range
<1>3. Flat(Parts)[at.unit] = Flat(Parts)[at.unit - 1] \o Expected(Unit)
      /\ Flat(Parts)[at.unit - 1] \in Seq(Pos)
    <2>1. at.unit - 1 \in 0 .. Len(image.units)
          BY <1>2, FlatParts
    <2> QED BY <1>2, <2>1, FlatParts DEF Unit
<1>4. CASE SkipUnit
    <2>1. Expected(Unit) = <<>> /\ at.row = 0
          BY <1>4 DEF SkipUnit, Expected, InHeader
    <2>2. Flat(Parts)[at.unit] = Flat(Parts)[at.unit - 1]
          BY <1>3, <2>1, ConcatEmptySeq
    <2>3. Flat(Parts)[at.unit] = Positions(entries)
          BY <2>1, <2>2 DEF Decoding
    <2> QED BY <1>1, <1>4, <2>3, BetweenUnits DEF SkipUnit
<1>5. CASE UnitDone
    <2>1. at.row = Len(Unit.rows) + 1 /\ Len(Unit.rows) \in Nat
          BY <1>2, <1>5 DEF UnitDone, LineUnit
    <2>2. at.row # 0 /\ at.row - 1 = Len(Unit.rows)
          BY <2>1
    <2>3. Here = Expected(Unit)
          BY <2>2 DEF Here, Part, Expected
    <2>4. Flat(Parts)[at.unit] = Positions(entries)
          BY <1>3, <2>2, <2>3 DEF Decoding
    <2> QED BY <1>1, <1>5, <2>4, BetweenUnits DEF UnitDone
<1>6. CASE HeaderV4 \/ HeaderV5
    <2>1. /\ at.row = 0 /\ Unit.version \in {4, 5} /\ regs' = ResetRegs /\ meant' = ResetRegs
          /\ at' = [at EXCEPT !.row = 1]
          /\ entries' = IF Unit.version = 4 THEN entries ELSE Emitted(ResetRegs)
        <3>1. CASE HeaderV4
              BY <3>1 DEF HeaderV4, InHeader
        <3>2. CASE HeaderV5
            <4>1. Unit.version = 5 /\ LastByte(Unit) = 1
                  BY <1>2, <3>2 DEF HeaderV5, Aligned
            <4> QED BY <3>2, <4>1 DEF HeaderV5, InHeader
        <3> QED BY <1>6, <3>1, <3>2
    <2>2. at'.unit = at.unit /\ at'.row = 1 /\ at' \in [unit : 1 .. Len(image.units) + 1, row : Nat]
          BY <2>1 DEF Decoding
    <2>3. Unit' = Unit /\ Parts' = Parts
          BY <1>1, <2>2 DEF Unit, Parts
    <2>4. Len(Unit.rows) \in Nat /\ Unit.rows \in Seq(LineRow)
          BY <1>2 DEF LineUnit
    <2>5. InStep'
        <3>1. ResetRegs \in Registers /\ ResetRegs.address % MinInst = 0
              BY Sizes DEF ResetRegs, Registers
        <3>2. ASSUME 1 <= Len(Unit.rows), Due'.end
              PROVE  ResetRegs.line = Due'.line /\ ResetRegs.file = Due'.file
            <4>1. 1 \in DOMAIN Unit.rows
                  BY <2>4, <3>2
            <4>2. EndRepeats(Unit.rows, 1) /\ Due' = Unit.rows[1]
                  BY <1>2, <2>2, <2>3, <4>1, UnitFacts, FlatParts DEF Unit, Due
            <4> QED BY <3>2, <4>2 DEF EndRepeats
        <3> QED BY <2>1, <2>2, <2>3, <2>4, <3>1, <3>2 DEF InStep
    <2>6. entries' \in Seq(EntryRow) /\ Positions(entries') = Flat(Parts)[at.unit - 1] \o Here'
        <3>1. Positions(entries) = Flat(Parts)[at.unit - 1]
              BY <2>1 DEF Decoding
        <3>2. Here' = Opening(Unit)
              BY <1>2, <2>1, <2>2, <2>3, WrittenRun DEF Here, Part
        <3>3. CASE Unit.version = 4 \/ FileTable(Unit) = <<>>
            <4>1. entries' = entries /\ Opening(Unit) = <<>>
                  BY <2>1, <3>3 DEF Emitted, HasRow, ResetRegs, Opening
            <4> QED BY <1>3, <3>1, <3>2, <4>1, ConcatEmptySeq
        <3>4. CASE Unit.version = 5 /\ FileTable(Unit) # <<>>
            <4> DEFINE e == LineEntry(ResetRegs)
            <4>1. 1 \in DOMAIN FileTable(Unit) /\ FileTable(Unit)[1] \in Paths
                <5>1. FileTable(Unit) \in Seq(Paths)
                      BY <1>2, UnitFacts, FlatParts DEF Unit
                <5> QED BY <3>4, <5>1
            <4>2. HasRow(ResetRegs) /\ e \in EntryRow
                  BY <4>1 DEF HasRow, LineEntry, ResetRegs, EntryRow
            <4>3. entries' = Append(entries, e)
                  BY <2>1, <3>4, <4>2 DEF Emitted
            <4>4. entries' \in Seq(EntryRow) /\ Positions(entries') = Append(Positions(entries), Position(e))
                  BY <4>2, <4>3, PositionsGrow
            <4>5. Position(e) = Position(ResetRegs) /\ Position(e) \in Pos
                  BY DEF Position, LineEntry, ResetRegs, Pos
            <4>6. Opening(Unit) = <<Position(e)>>
                  BY <3>4, <4>5 DEF Opening
            <4> HIDE DEF e
            <4>7. Append(Flat(Parts)[at.unit - 1], Position(e)) = Flat(Parts)[at.unit - 1] \o <<Position(e)>>
                  BY <1>3, <4>5, AppendIsConcat
            <4> QED BY <3>1, <3>2, <4>4, <4>6, <4>7
        <3> QED BY <2>1, <3>3, <3>4
    <2>7. Flat(Parts)'[at'.unit - 1] = Flat(Parts)[at.unit - 1] /\ at'.unit # Len(image'.units) + 1
        <3>1. Len(image.units) \in Nat
              BY FlatParts
        <3> QED BY <1>1, <1>2, <2>2, <2>3, <3>1
    <2> QED BY <1>1, <2>2, <2>5, <2>6, <2>7 DEF Decoding
<1> QED BY <1>4, <1>5, <1>6

(* What a unit has written is a prefix of what it will have written.       *)
LEMMA PartPrefix ==
    ASSUME NEW u \in LineUnit, NEW k \in 0 .. Len(u.rows)
    PROVE  IsPrefix(Part(u, k), Expected(u))
<1> DEFINE n == Len(u.rows)
           W == Written(u)
<1>1. n \in Nat /\ \A i \in 1 .. n : Position(u.rows[i]) \in Pos
    <2>1. n \in Nat /\ \A i \in 1 .. n : u.rows[i] \in LineRow
          BY DEF LineUnit
    <2> QED BY <2>1 DEF LineRow, Position, Pos
<1>2. /\ W \in [0 .. n -> Seq(Pos)]
      /\ \A i \in 1 .. n : W[i] = IF Keeps(u, u.rows[i]) THEN Append(W[i - 1], Position(u.rows[i]))
                                ELSE W[i - 1]
      BY WrittenRun
<1> HIDE DEF n, W
<1>3. ASSUME NEW i \in 1 .. n
      PROVE  IsPrefix(W[i - 1], W[i])
    <2>1. W[i - 1] \in Seq(Pos)
          BY <1>1, <1>2
    <2>2. IsPrefix(W[i - 1], Append(W[i - 1], Position(u.rows[i]))) /\ IsPrefix(W[i - 1], W[i - 1])
          BY <1>1, <2>1, PrefixAppend
    <2>3. W[i] = Append(W[i - 1], Position(u.rows[i])) \/ W[i] = W[i - 1]
          BY <1>2
    <2> QED BY <2>2, <2>3
<1>4. IsPrefix(W[k], W[n])
    <2>1. k \in 0 .. n
          BY DEF n
    <2> QED BY <1>1, <1>2, <1>3, <2>1, PrefixRun
<1>5. IsPrefix(<<>>, <<>>)
    <2>1. <<>> \in Seq(Pos)
          OBVIOUS
    <2> QED BY <2>1, PrefixSelf
<1> QED BY <1>4, <1>5 DEF Part, Expected, n, W

(* The table being read is a prefix of the expected one.                   *)
LEMMA RowsPrefix ==
    ASSUME image \in Images, Decoding
    PROVE  IsPrefix(Positions(entries), ExpectedRows)
<1> DEFINE n == Len(image.units)
           F == Flat(Parts)
<1>1. /\ image.units \in Seq(LineUnit) /\ n \in Nat /\ ExpectedRows = F[n]
      /\ \A i \in 0 .. n : F[i] \in Seq(Pos)
      /\ \A i \in 1 .. n : F[i] = F[i - 1] \o Expected(image.units[i])
      BY FlatParts
<1>2. \A i \in 1 .. n : Expected(image.units[i]) \in Seq(Pos)
      BY <1>1, ExpectedTyped
<1> DEFINE h == [i \in 0 .. n |-> F[i]]
<1> HIDE DEF F, n
<1>3. ASSUME NEW i \in 1 .. n
      PROVE  IsPrefix(h[i - 1], h[i])
    <2>1. F[i - 1] \in Seq(Pos) /\ i - 1 \in 0 .. n /\ i \in 0 .. n
          BY <1>1
    <2>2. IsPrefix(F[i - 1], F[i - 1] \o Expected(image.units[i]))
          BY <1>2, <2>1, PrefixConcat
    <2>3. IsPrefix(F[i - 1], F[i])
          BY <1>1, <2>2
    <2> QED BY <2>1, <2>3
<1>4. h \in [0 .. n -> Seq(Pos)]
      BY <1>1
<1> HIDE DEF h
<1>5. ASSUME NEW i \in 0 .. n
      PROVE  IsPrefix(F[i], F[n])
    <2>1. IsPrefix(h[i], h[n])
          BY <1>1, <1>3, <1>4, PrefixRun
    <2> QED BY <1>1, <2>1 DEF h
<1>6. at.unit \in 1 .. n + 1 /\ at.unit - 1 \in 0 .. n
      BY <1>1 DEF Decoding, n
<1>7. CASE at.row = 0
    <2>1. Positions(entries) = F[at.unit - 1]
          BY <1>7 DEF Decoding, F
    <2> QED BY <1>1, <1>5, <1>6, <2>1
<1>8. CASE at.row # 0
    <2>1. Positions(entries) = F[at.unit - 1] \o Here /\ at.unit \in 1 .. n
        <3>1. Positions(entries) = F[at.unit - 1] \o Here /\ at.unit # n + 1
              BY <1>8 DEF Decoding, F, n
        <3> QED BY <1>1, <1>6, <3>1
    <2>2. Unit \in LineUnit /\ at.row - 1 \in 0 .. Len(Unit.rows)
        <3>1. Unit \in LineUnit
              BY <1>1, <2>1 DEF Unit, n
        <3>2. Len(Unit.rows) \in Nat
              BY <3>1 DEF LineUnit
        <3> QED BY <1>8, <3>1, <3>2 DEF Decoding, InStep
    <2>3. IsPrefix(Here, Expected(Unit)) /\ Here \in Seq(Pos) /\ Expected(Unit) \in Seq(Pos)
          BY <2>2, PartPrefix, ExpectedTyped DEF Here
    <2>4. F[at.unit - 1] \in Seq(Pos) /\ F[at.unit] \in Seq(Pos)
          BY <1>1, <1>6, <2>1
    <2>5. F[at.unit] = F[at.unit - 1] \o Expected(Unit)
          BY <1>1, <2>1 DEF Unit
    <2>6. IsPrefix(Positions(entries), F[at.unit])
          BY <2>1, <2>3, <2>4, <2>5, PrefixWithin
    <2>7. IsPrefix(F[at.unit], F[n]) /\ F[n] \in Seq(Pos) /\ Positions(entries) \in Seq(Pos)
          BY <1>1, <1>5, <1>6, <2>1, <2>3, <2>4, ConcatProperties
    <2> QED BY <1>1, <2>4, <2>6, <2>7, PrefixTrans
<1> QED BY <1>7, <1>8

(* Reading the table leaves the executable alone.                          *)
LEMMA ImageKept ==
    ASSUME LoadStep
    PROVE  image' = image
BY DEF LoadStep, LoadDump, NoSection, SkipUnit, HeaderFails, HeaderV4, HeaderV5, Astray, SetAddress, AdvancePc,
       ConstAddPc, FixedAdvancePc, AdvanceLine, SetFile, Copy, Special, EndSequence,
       RowDone, UnitDone, TableDone

(* Every step of the loader keeps DecodeInv.                               *)
LEMMA LoadDecoded ==
    ASSUME DecodeInv, LoadStep
    PROVE  DecodeInv'
<1> DEFINE Plain == \A u \in Units : Aligned(u)
<1>1. image' = image
      BY ImageKept
<1>2. image' \in Images /\ Plain' = Plain
      BY <1>1 DEF DecodeInv, Units
<1> SUFFICES ASSUME Plain
             PROVE  /\ source' \in {"program", "native"} => entries' \in Seq(EntryRow)
                    /\ source' = "program" => Decoding'
                    /\ source' = "native" => Positions(entries)' = ExpectedRows'
    BY <1>2 DEF DecodeInv
<1>3. image \in Images /\ (source = "program" => Decoding /\ entries \in Seq(EntryRow))
      BY DEF DecodeInv
<1>4. CASE LoadDump
    <2>1. source' \in {"dwarfdump", "program"}
          BY <1>4 DEF LoadDump
    <2> QED BY <1>3, <1>4, <2>1, Begun
<1>5. CASE NoSection \/ HeaderFails
      BY <1>5 DEF NoSection, HeaderFails, Failed
<1>6. CASE SkipUnit \/ HeaderV4 \/ HeaderV5 \/ UnitDone
    <2>1. source = "program" /\ source' = "program"
          BY <1>6 DEF SkipUnit, HeaderV4, HeaderV5, UnitDone, InHeader, Interpreting
    <2> QED BY <1>3, <1>6, <2>1, HeadersRead
<1>7. CASE SetAddress \/ AdvancePc \/ ConstAddPc \/ FixedAdvancePc \/ AdvanceLine \/ SetFile
    <2>1. source = "program" /\ source' = "program" /\ entries' = entries /\ InProgram
          BY <1>7 DEF SetAddress, AdvancePc, ConstAddPc, FixedAdvancePc, AdvanceLine, SetFile,
                      InProgram, Interpreting
    <2> QED BY <1>3, <1>7, <2>1, RegistersDecoded
<1>8. CASE Copy \/ Special \/ EndSequence
    <2>1. source = "program" /\ source' = "program" /\ InProgram
          BY <1>8 DEF Copy, Special, EndSequence, RowDone, InProgram, Interpreting
    <2> QED BY <1>3, <1>8, <2>1, RowsAppear
<1>9. CASE TableDone
    <2>1. /\ source = "program" /\ source' \in {"failed", "native"} /\ entries' = entries
          /\ at.unit = Len(image.units) + 1
          BY <1>9 DEF TableDone
    <2>2. Positions(entries) = ExpectedRows
        <3>1. Positions(entries) = Flat(Parts)[at.unit - 1]
              BY <1>3, <2>1 DEF Decoding
        <3>2. at.unit - 1 = Len(image.units)
              BY <1>3, <2>1, FlatParts
        <3> QED BY <1>3, <3>1, <3>2, FlatParts
    <2>3. ExpectedRows' = ExpectedRows /\ Positions(entries)' = Positions(entries)
          BY <1>1, <2>1 DEF ExpectedRows
    <2> QED BY <1>3, <2>1, <2>2, <2>3
<1>10. CASE Astray
    <2>1. Unit \in Units
        <3>1. image.units \in Seq(LineUnit) /\ at.unit \in 1 .. Len(image.units)
              BY <1>3, <1>10, FlatParts DEF Astray, InHeader, Interpreting, Decoding
        <3> QED BY <3>1 DEF Unit, Units, Range
    <2>2. Aligned(Unit)
          BY <2>1
    <2> QED BY <1>10, <2>2 DEF Astray, Aligned, LastIsOpcode
<1> QED BY <1>4, <1>5, <1>6, <1>7, <1>8, <1>9, <1>10 DEF LoadStep

(* A step that leaves the reader alone keeps it.                           *)
LEMMA DecodeKept ==
    ASSUME DecodeInv, UNCHANGED loadVars
    PROVE  DecodeInv'
<1>1. /\ image' = image /\ source' = source /\ entries' = entries
      /\ at' = at /\ regs' = regs /\ meant' = meant
      BY DEF loadVars
<1>2. Units' = Units /\ Parts' = Parts /\ Unit' = Unit /\ Due' = Due /\ Here' = Here
      /\ ExpectedRows' = ExpectedRows
      BY <1>1 DEF Units, Parts, Unit, Due, Here, ExpectedRows
<1>3. InStep' <=> InStep
      BY <1>1, <1>2 DEF InStep
<1>4. Decoding' <=> Decoding
      BY <1>1, <1>2, <1>3 DEF Decoding
<1> QED BY <1>1, <1>2, <1>4 DEF DecodeInv

(* Where every header of the image is accepted and every program entered   *)
(* where it begins (Aligned, which is said of the bytes of the headers),   *)
(* the interpreter is right: whatever opcodes the assembler chose, and     *)
(* whatever became of dwarfdump before, the table has the rows that were   *)
(* meant, none lost, doubled or moved (parse_line_program).                *)
THEOREM DecodingCorrect == LocationsSpec => []RowsDecoded
<1>1. Init => DecodeInv
      BY DEF Init, LoadInit, DecodeInv
<1>2. DecodeInv /\ [Next]_vars => DecodeInv'
    <2> SUFFICES ASSUME DecodeInv, [Next]_vars
                 PROVE  DecodeInv'
        OBVIOUS
    <2>1. CASE UNCHANGED loadVars
          BY <2>1, DecodeKept
    <2>2. CASE CmdRun
          BY <2>2 DEF CmdRun, DecodeInv
    <2>3. CASE LoadLines
          BY <2>3, LoadDecoded DEF LoadLines
    <2>4. CASE LoadSymbols \/ Spawn \/ Started \/ ExecFailed \/ CmdKill
          BY <2>1, <2>4 DEF LoadSymbols, Spawn, Started, ExecFailed, CmdKill
    <2>5. ASSUME NEW t, NEW pc, CmdBreak(t) \/ CmdDis(t) \/ CmdList(t) \/ ShowFrame(pc)
          PROVE  UNCHANGED loadVars
          BY <2>5 DEF CmdBreak, CmdDis, CmdList, ShowFrame
    <2> QED BY <2>1, <2>2, <2>3, <2>4, <2>5 DEF Next, vars
<1>3. DecodeInv => RowsDecoded
      BY RowsPrefix DEF DecodeInv, RowsDecoded
<1> QED BY <1>1, <1>2, <1>3, PTL DEF LocationsSpec

-----------------------------------------------------------------------------
(* The symbol table.  FrameNamed speaks of the last frame shown; NameInv   *)
(* says where its name came from and what the table has told since it was  *)
(* read.  The table is compared by its set of entries: only the search for *)
(* the closest symbol depends on their order, and any order will do.       *)

\* What Push appends for a symbol.
EntryOf(sym) == [address |-> sym.address, type |-> sym.type, name |-> sym.name]
Shown(object) == {EntryOf(sym) : sym \in {x \in Range(object) : Interesting(x)}}

(* syms_push adds the symbol, unless it is not interesting.                *)
LEMMA PushOne ==
    ASSUME NEW e \in Seq(SymEntry), NEW sym \in Symbol
    PROVE  /\ Push(e, sym) \in Seq(SymEntry)
           /\ Range(Push(e, sym)) = Range(e) \cup (IF Interesting(sym) THEN {EntryOf(sym)} ELSE {})
<1>1. EntryOf(sym) \in SymEntry
      BY DEF Symbol, SymEntry, EntryOf
<1>2. CASE Interesting(sym)
    <2>1. Push(e, sym) = Append(e, EntryOf(sym))
          BY <1>2 DEF Push, EntryOf
    <2> DEFINE y == EntryOf(sym)
               a == Append(e, y)
    <2> HIDE DEF y
    <2>2. y \in SymEntry
          BY <1>1 DEF y
    <2>3. a \in Seq(SymEntry) /\ Range(a) = Range(e) \cup {y}
          BY <2>2, AppendRange
    <2> QED BY <1>2, <2>1, <2>3 DEF y
<1>3. CASE ~ Interesting(sym)
      BY <1>3 DEF Push
<1> QED BY <1>2, <1>3

(* A table that a symbol file was pushed on holds what it held and the     *)
(* interesting symbols of the file.                                        *)
LEMMA PushAllShows ==
    ASSUME NEW e \in Seq(SymEntry), NEW object \in Seq(Symbol)
    PROVE  /\ PushAll(e, object) \in Seq(SymEntry)
           /\ Range(PushAll(e, object)) = Range(e) \cup Shown(object)
<1> DEFINE n == Len(object)
           S == Seq(SymEntry)
           f == [k \in 1 .. n |-> [x \in S |-> Push(x, object[k])]]
           iter == CHOOSE g : g = [s \in SUBSET (1 .. n) |->
                       IF s = {} THEN e ELSE Push(g[s \ {Max(s)}], object[Max(s)])]
<1>1. n \in Nat /\ DOMAIN object = 1 .. n /\ \A k \in 1 .. n : object[k] \in Symbol
      OBVIOUS
<1>2. PushAll(e, object) = iter[1 .. n]
      BY <1>1, Zenon DEF PushAll, FoldLeft, MapThenFoldSet
<1> HIDE DEF n, S
<1>3. f \in [1 .. n -> [S -> S]]
    <2>1. ASSUME NEW k \in 1 .. n, NEW x \in S
          PROVE  Push(x, object[k]) \in S
        <3>1. object[k] \in Symbol
              BY <1>1
        <3> QED BY <3>1, PushOne DEF S
    <2> QED BY <2>1
<1>4. PICK g : IsFold(g, S, e, f, n)
    <2> HIDE DEF f
    <2>1. e \in S
          BY DEF S
    <2> QED BY <1>1, <1>3, <2>1, FoldExists
<1>40. /\ g \in [SUBSET (1 .. n) -> S]
       /\ \A s \in SUBSET (1 .. n) : g[s] = IF s = {} THEN e ELSE f[Max(s)][g[s \ {Max(s)}]]
       BY <1>4 DEF IsFold
<1>5. g = [s \in SUBSET (1 .. n) |->
              IF s = {} THEN e ELSE Push(g[s \ {Max(s)}], object[Max(s)])]
    <2>1. ASSUME NEW s \in SUBSET (1 .. n), s # {}
          PROVE  g[s] = Push(g[s \ {Max(s)}], object[Max(s)])
        <3>1. Max(s) \in 1 .. n
              BY <1>1, <2>1, MaxOf
        <3>2. g[s] = f[Max(s)][g[s \ {Max(s)}]]
              BY <1>40, <2>1
        <3>3. g[s \ {Max(s)}] \in S
              BY <1>40
        <3> HIDE DEF Max
        <3> QED BY <3>1, <3>2, <3>3
    <2>2. g[{}] = e
          BY <1>40
    <2> HIDE DEF f
    <2>3. ASSUME NEW s \in SUBSET (1 .. n)
          PROVE  g[s] = IF s = {} THEN e ELSE Push(g[s \ {Max(s)}], object[Max(s)])
          BY <2>1, <2>2
    <2>4. g = [s \in SUBSET (1 .. n) |-> g[s]]
          BY <1>40
    <2> QED BY <2>3, <2>4, Zenon
<1>6. iter = [s \in SUBSET (1 .. n) |->
              IF s = {} THEN e ELSE Push(iter[s \ {Max(s)}], object[Max(s)])]
      BY <1>5, Zenon
<1> HIDE DEF iter
<1> DEFINE Upto(k) == {EntryOf(sym) : sym \in {object[j] : j \in {i \in 1 .. k : Interesting(object[i])}}}
           N == {k \in Nat : k <= n => /\ iter[1 .. k] \in S
                                       /\ Range(iter[1 .. k]) = Range(e) \cup Upto(k)}
<1>7. 0 \in N
    <2>1. iter[{}] = e
          BY <1>6
    <2>2. 1 .. 0 = {}
          OBVIOUS
    <2>3. Upto(0) = {}
          BY <2>2
    <2> HIDE DEF Upto
    <2> QED BY <2>1, <2>2, <2>3 DEF S
<1>8. ASSUME NEW k \in Nat, k \in N
      PROVE  k + 1 \in N
    <2> DEFINE m == k + 1
    <2> SUFFICES ASSUME m <= n
                 PROVE  iter[1 .. m] \in S /\ Range(iter[1 .. m]) = Range(e) \cup Upto(m)
        OBVIOUS
    <2>1. m \in 1 .. n /\ m \in Nat /\ 1 .. m \in SUBSET (1 .. n) /\ 1 .. m # {} /\ m \in 1 .. m
        <3>1. m \in Nat \ {0} /\ m <= n
              OBVIOUS
        <3> HIDE DEF m
        <3>2. m \in 1 .. n /\ m \in 1 .. m /\ \A i \in 1 .. m : i \in 1 .. n
              BY <1>1, <3>1
        <3> QED BY <3>1, <3>2
    <2>2. (1 .. m) \ {m} = 1 .. k /\ k <= n
          BY <1>1
    <2>3. \A y \in 1 .. m : y <= m
          OBVIOUS
    <2>4. Upto(m) = Upto(k) \cup (IF Interesting(object[m]) THEN {EntryOf(object[m])} ELSE {})
        <3>1. 1 .. m = (1 .. k) \cup {m}
              OBVIOUS
        <3> HIDE DEF m
        <3> QED BY <3>1
    <2> HIDE DEF m, Upto
    <2>5. Max(1 .. m) = m
          BY <2>1, <2>3, MaxIs
    <2>6. iter[1 .. m] = Push(iter[1 .. k], object[m])
        <3>1. iter[1 .. m] = Push(iter[(1 .. m) \ {Max(1 .. m)}], object[Max(1 .. m)])
              BY <1>6, <2>1
        <3> QED BY <2>2, <2>5, <3>1
    <2>7. iter[1 .. k] \in S /\ Range(iter[1 .. k]) = Range(e) \cup Upto(k)
          BY <1>8, <2>2
    <2>8. object[m] \in Symbol
          BY <1>1, <2>1
    <2> QED BY <2>4, <2>6, <2>7, <2>8, PushOne DEF S
<1>9. n \in N
    <2> HIDE DEF N
    <2> QED BY <1>1, <1>7, <1>8, SetInduction
<1>10. Upto(n) = Shown(object)
       BY <1>1 DEF Shown, Range
<1> QED BY <1>1, <1>2, <1>9, <1>10 DEF S

\* What the Mach-O reader makes of a symbol.
Retyped(sym) == [sym EXCEPT !.type = NlistType(sym)]

\* All that either reader takes from the object is in W; both take one of H.
Lists(object, W) ==
    \A sym \in Range(object) : /\ Interesting(sym) => EntryOf(sym) \in W
                               /\ Interesting(Retyped(sym)) => EntryOf(Retyped(sym)) \in W
Brings(object, H) ==
    \E sym \in Range(object) : /\ Interesting(sym) /\ EntryOf(sym) \in H
                               /\ Interesting(Retyped(sym)) /\ EntryOf(Retyped(sym)) \in H
Within(e, W) == \A x \in Range(e) : x \in W
Meets(e, H) == \E x \in Range(e) : x \in H

(* Pushing a part of what nm prints adds nothing wrong; pushing all of it  *)
(* adds what it brings.                                                    *)
LEMMA PartPushed ==
    ASSUME NEW e \in Seq(SymEntry), NEW object \in Seq(Symbol), NEW n \in 0 .. Len(object),
           NEW W, NEW H, Lists(object, W), Within(e, W)
    PROVE  LET p == PushAll(e, SubSeq(object, 1, n))
           IN  /\ p \in Seq(SymEntry)
               /\ Within(p, W)
               /\ n = Len(object) /\ Brings(object, H) => Meets(p, H)
<1> DEFINE part == SubSeq(object, 1, n)
           p == PushAll(e, part)
<1>1. part \in Seq(Symbol) /\ Range(part) \subseteq Range(object)
      BY DEF Range
<1>2. n = Len(object) => part = object
      OBVIOUS
<1> HIDE DEF part
<1>3. p \in Seq(SymEntry) /\ Range(p) = Range(e) \cup Shown(part)
      BY <1>1, PushAllShows
<1> HIDE DEF p
<1>4. ASSUME NEW x \in Range(p)
      PROVE  x \in W
    <2>1. CASE x \in Range(e)
          BY <2>1 DEF Within
    <2>2. CASE x \in Shown(part)
        <3>1. PICK sym \in Range(object) : Interesting(sym) /\ x = EntryOf(sym)
              BY <1>1, <2>2 DEF Shown
        <3> QED BY <3>1 DEF Lists
    <2> QED BY <1>3, <2>1, <2>2
<1>5. ASSUME n = Len(object), Brings(object, H)
      PROVE  Meets(p, H)
    <2>1. PICK sym \in Range(object) : Interesting(sym) /\ EntryOf(sym) \in H
          BY <1>5 DEF Brings
    <2>2. EntryOf(sym) \in Range(p)
          BY <1>2, <1>3, <1>5, <2>1 DEF Shown
    <2> QED BY <2>1, <2>2 DEF Meets
<1> QED BY <1>3, <1>4, <1>5 DEF Within, p, part

(* A symbol the Mach-O reader has retyped is a symbol.                     *)
LEMMA RetypedIs ==
    ASSUME NEW sym \in Symbol
    PROVE  /\ Retyped(sym) \in Symbol /\ Retyped(sym).name = sym.name
           /\ Retyped(sym).address = sym.address /\ Retyped(sym).type = NlistType(sym)
<1>1. sym.type \in SymTypes
      BY DEF Symbol
<1>2. NlistType(sym) = "T" \/ NlistType(sym) = "t" \/ NlistType(sym) = sym.type
      BY Zenon DEF NlistType
<1>3. NlistType(sym) \in SymTypes
      BY <1>1, <1>2 DEF SymTypes
<1> QED BY <1>3 DEF Symbol, Retyped

(* So does the Mach-O reader.                                              *)
LEMMA NlistPushed ==
    ASSUME NEW e \in Seq(SymEntry), NEW object \in Seq(Symbol),
           NEW W, NEW H, Lists(object, W), Within(e, W)
    PROVE  LET p == PushNlist(e, object)
           IN  p \in Seq(SymEntry) /\ Within(p, W) /\ (Brings(object, H) => Meets(p, H))
<1> DEFINE nlist == [i \in DOMAIN object |-> [object[i] EXCEPT !.type = NlistType(object[i])]]
           p == PushAll(e, nlist)
<1>1. DOMAIN nlist = DOMAIN object /\ \A i \in DOMAIN object :
          nlist[i] = Retyped(object[i]) /\ object[i] \in Symbol
      BY DEF Retyped
<1>2. nlist \in Seq(Symbol)
    <2> DEFINE n == Len(object)
    <2>1. n \in Nat /\ DOMAIN object = 1 .. n
          OBVIOUS
    <2> HIDE DEF n
    <2>2. nlist = [i \in 1 .. n |-> Retyped(object[i])]
          BY <2>1 DEF Retyped
    <2> HIDE DEF nlist
    <2>3. nlist \in [1 .. n -> Symbol]
          BY <1>1, <2>1, <2>2, RetypedIs
    <2> QED BY <2>1, <2>3
<1> HIDE DEF nlist
<1>3. \A x : x \in Range(nlist) <=> \E sym \in Range(object) : x = Retyped(sym)
      BY <1>1 DEF Range
<1>4. p \in Seq(SymEntry) /\ Range(p) = Range(e) \cup Shown(nlist)
      BY <1>2, PushAllShows
<1> HIDE DEF p
<1>5. ASSUME NEW x \in Range(p)
      PROVE  x \in W
    <2>1. CASE x \in Range(e)
          BY <2>1 DEF Within
    <2>2. CASE x \in Shown(nlist)
        <3>1. PICK y \in Range(nlist) : Interesting(y) /\ x = EntryOf(y)
              BY <2>2 DEF Shown
        <3>2. PICK sym \in Range(object) : y = Retyped(sym)
              BY <1>3, <3>1
        <3> QED BY <3>1, <3>2 DEF Lists
    <2> QED BY <1>4, <2>1, <2>2
<1>6. ASSUME Brings(object, H)
      PROVE  Meets(p, H)
    <2>1. PICK sym \in Range(object) : Interesting(Retyped(sym)) /\ EntryOf(Retyped(sym)) \in H
          BY <1>6 DEF Brings
    <2>2. Retyped(sym) \in Range(nlist)
          BY <1>3
    <2>3. EntryOf(Retyped(sym)) \in Range(p)
          BY <1>4, <2>1, <2>2 DEF Shown
    <2> QED BY <2>1, <2>3 DEF Meets
<1> QED BY <1>4, <1>5, <1>6 DEF Within, PushNlist, p, nlist

Attempt == [entries : Seq(SymEntry), done : BOOLEAN]

(* nm on one file after the other: whichever of them fails, and after      *)
(* however many lines, nothing wrong gets in, and the one that succeeds    *)
(* adds what all of them bring.                                            *)
LEMMA NmReads ==
    ASSUME NEW objects \in Seq(Seq(Symbol)),
           NEW read, NEW ok,
           \A i \in DOMAIN objects : /\ read[i] \in 0 .. Len(objects[i]) /\ ok[i] \in BOOLEAN
                                     /\ ok[i] => read[i] = Len(objects[i]),
           NEW W, NEW H, \A i \in DOMAIN objects : Lists(objects[i], W)
    PROVE  LET nm == NmRead(objects, read, ok)
           IN  /\ nm \in Attempt
               /\ Within(nm.entries, W)
               /\ nm.done /\ (\A i \in DOMAIN objects : Brings(objects[i], H)) => Meets(nm.entries, H)
<1> DEFINE n == Len(objects)
           b == [entries |-> <<>>, done |-> FALSE]
           Tried(a, i) ==
               IF a.done THEN a
               ELSE LET e == PushAll(a.entries, SubSeq(objects[i], 1, read[i]))
                    IN  [entries |-> e, done |-> ok[i] /\ e # <<>>]
           Every == \A i \in DOMAIN objects : Brings(objects[i], H)
           Good(a) == a \in Attempt /\ Within(a.entries, W) /\ (a.done /\ Every => Meets(a.entries, H))
<1>1. n \in Nat /\ DOMAIN objects = 1 .. n /\ \A i \in 1 .. n : objects[i] \in Seq(Symbol)
      OBVIOUS
<1>2. Good(b)
    <2>1. b \in Attempt
          BY DEF Attempt
    <2>2. Within(<<>>, W)
          BY DEF Within, Range
    <2> QED BY <2>1, <2>2
<1>3. ASSUME NEW a, Good(a), NEW i \in 1 .. n
      PROVE  Good(Tried(a, i))
    <2>1. CASE a.done
          BY <1>3, <2>1
    <2>2. CASE ~ a.done
        <3> DEFINE e == PushAll(a.entries, SubSeq(objects[i], 1, read[i]))
                   z == ok[i] /\ e # <<>>
        <3>1. a.entries \in Seq(SymEntry) /\ Within(a.entries, W)
              BY <1>3 DEF Attempt
        <3>2. e \in Seq(SymEntry) /\ Within(e, W) /\ (ok[i] /\ Every => Meets(e, H))
              BY <1>1, <3>1, PartPushed
        <3>3. z \in BOOLEAN /\ (z => ok[i])
              BY <1>1
        <3>4. Tried(a, i) = [entries |-> e, done |-> z]
              BY <2>2
        <3> HIDE DEF e, z, Tried
        <3>5. Tried(a, i).entries = e /\ Tried(a, i).done = z /\ Tried(a, i) \in Attempt
              BY <3>2, <3>3, <3>4 DEF Attempt
        <3> QED BY <3>2, <3>3, <3>5
    <2> QED BY <2>1, <2>2
<1> HIDE DEF n, b, Tried, Good, Every
<1> DEFINE G == {a \in Attempt : Good(a)}
           f2 == [i \in 1 .. n |-> [a \in G |-> Tried(a, i)]]
<1>4. \A a : Good(a) => a \in Attempt
      BY DEF Good
<1>5. f2 \in [1 .. n -> [G -> G]]
      BY <1>3, <1>4
<1>6. PICK h : IsRun(h, G, b, f2, n)
    <2>1. b \in G
          BY <1>2, <1>4
    <2> HIDE DEF f2, G
    <2> QED BY <1>1, <1>5, <2>1, RunExists
<1>7. h \in [0 .. n -> G] /\ h[0] = b
      BY <1>6 DEF IsRun
<1>8. ASSUME NEW i \in 1 .. n
      PROVE  h[i] = Tried(h[i - 1], i)
    <2>1. h[i - 1] \in G
          BY <1>1, <1>7
    <2>2. h[i] = f2[i][h[i - 1]]
          BY <1>6 DEF IsRun
    <2> QED BY <2>1, <2>2
<1> HIDE DEF f2
<1> DEFINE After == CHOOSE g : g = [i \in 0 .. n |-> IF i = 0 THEN b ELSE Tried(g[i - 1], i)]
<1>9. h = [i \in 0 .. n |-> IF i = 0 THEN b ELSE Tried(h[i - 1], i)]
    <2>1. ASSUME NEW i \in 0 .. n
          PROVE  h[i] = IF i = 0 THEN b ELSE Tried(h[i - 1], i)
          BY <1>1, <1>7, <1>8
    <2> QED BY <1>7, <2>1
<1>10. After = [i \in 0 .. n |-> IF i = 0 THEN b ELSE Tried(After[i - 1], i)]
       BY <1>9, Zenon
<1>11. NmRead(objects, read, ok) = After[n]
       BY Zenon DEF NmRead, n, b, Tried
<1> HIDE DEF After
<1> DEFINE N == {k \in Nat : k <= n => After[k] \in G}
<1>12. 0 \in N
       BY <1>1, <1>2, <1>4, <1>10
<1>13. ASSUME NEW k \in Nat, k \in N
       PROVE  k + 1 \in N
    <2> DEFINE m == k + 1
    <2> SUFFICES ASSUME m <= n
                 PROVE  After[m] \in G
        OBVIOUS
    <2>1. m \in 1 .. n /\ m \in 0 .. n /\ m # 0 /\ m - 1 = k /\ k <= n
          BY <1>1
    <2>2. After[k] \in G
          BY <1>13, <2>1
    <2> HIDE DEF m
    <2>3. After[m] = Tried(After[k], m)
          BY <1>10, <2>1
    <2> QED BY <1>3, <1>4, <2>1, <2>2, <2>3
<1>14. After[n] \in G
    <2> HIDE DEF N, G
    <2>1. n \in N
          BY <1>1, <1>12, <1>13, SetInduction
    <2> QED BY <1>1, <2>1 DEF N
<1> QED BY <1>11, <1>14 DEF Good, Every

(* The fallback has what both objects bring.                               *)
LEMMA NativeReads ==
    ASSUME NEW objects \in Seq(Seq(Symbol)), Len(objects) \in {1, 2},
           NEW W, NEW H, \A i \in DOMAIN objects : Lists(objects[i], W)
    PROVE  LET e == NativeRead(objects)
           IN  /\ e \in Seq(SymEntry) /\ Within(e, W)
               /\ (\A i \in DOMAIN objects : Brings(objects[i], H)) => Meets(e, H)
<1> DEFINE exe == PushNlist(<<>>, objects[1])
           both == PushNlist(exe, objects[2])
<1>1. 1 \in DOMAIN objects /\ objects[1] \in Seq(Symbol)
      OBVIOUS
<1>2. <<>> \in Seq(SymEntry) /\ Within(<<>>, W)
      BY DEF Within, Range
<1>3. exe \in Seq(SymEntry) /\ Within(exe, W) /\ (Brings(objects[1], H) => Meets(exe, H))
    <2>1. Lists(objects[1], W)
          BY <1>1
    <2> QED BY <1>1, <1>2, <2>1, NlistPushed
<1>4. Meets(exe, H) => exe # <<>>
      BY DEF Meets, Range
<1> HIDE DEF exe
<1>5. ASSUME Len(objects) # 1
      PROVE  both \in Seq(SymEntry) /\ Within(both, W)
    <2>1. 2 \in DOMAIN objects /\ objects[2] \in Seq(Symbol)
          BY <1>5
    <2>2. Lists(objects[2], W)
          BY <2>1
    <2> QED BY <1>3, <2>1, <2>2, NlistPushed
<1> HIDE DEF both
<1>6. NativeRead(objects) = IF exe # <<>> \/ Len(objects) = 1 THEN exe ELSE both
      BY DEF NativeRead, exe, both
<1> QED BY <1>1, <1>3, <1>4, <1>5, <1>6

(* So has cdbg_syms_load.                                                  *)
LEMMA SymsLoaded ==
    ASSUME NEW objects \in Seq(Seq(Symbol)), Len(objects) \in {1, 2},
           NEW read, NEW ok,
           \A i \in DOMAIN objects : /\ read[i] \in 0 .. Len(objects[i]) /\ ok[i] \in BOOLEAN
                                     /\ ok[i] => read[i] = Len(objects[i]),
           NEW W, NEW H, \A i \in DOMAIN objects : Lists(objects[i], W)
    PROVE  LET e == LoadedSyms(objects, read, ok)
           IN  /\ e \in Seq(SymEntry) /\ Within(e, W)
               /\ (\A i \in DOMAIN objects : Brings(objects[i], H)) => Meets(e, H)
<1> DEFINE nm == NmRead(objects, read, ok)
           Every == \A i \in DOMAIN objects : Brings(objects[i], H)
<1>1. nm \in Attempt /\ Within(nm.entries, W) /\ (nm.done /\ Every => Meets(nm.entries, H))
      BY NmReads
<1>2. /\ NativeRead(objects) \in Seq(SymEntry) /\ Within(NativeRead(objects), W)
      /\ Every => Meets(NativeRead(objects), H)
      BY NativeReads
<1> HIDE DEF nm, Every
<1>3. /\ LoadedSyms(objects, read, ok) \in Seq(SymEntry) /\ Within(LoadedSyms(objects, read, ok), W)
      /\ Every => Meets(LoadedSyms(objects, read, ok), H)
      BY <1>1, <1>2 DEF LoadedSyms, nm, Attempt
<1> QED BY <1>3 DEF Every

\* Every text symbol a table has inside of f is named f, and it has one.
Fits(e, f) == \A x \in Range(e) : x.type \in TextTypes /\ x.address \in f.from .. f.to - 1 =>
                                      x.address = f.from /\ x.name = f.name
Has(e, f) == \E x \in Range(e) : x.type \in TextTypes /\ x.address = f.from

Fitting(f) == {x \in SymEntry : x.type \in TextTypes /\ x.address \in f.from .. f.to - 1 =>
                                    x.address = f.from /\ x.name = f.name}
Beginning(f) == {x \in SymEntry : x.type \in TextTypes /\ x.address = f.from}

(* What both readers take from an object that tells the function.          *)
LEMMA TellsLists ==
    ASSUME NEW object \in Seq(Symbol), NEW f, Tells(object, f)
    PROVE  Lists(object, Fitting(f)) /\ Brings(object, Beginning(f))
<1>1. ASSUME NEW sym \in Range(object)
      PROVE  /\ sym \in Symbol /\ Retyped(sym) \in Symbol /\ Retyped(sym).name = sym.name
             /\ Retyped(sym).address = sym.address /\ Retyped(sym).type = NlistType(sym)
    <2>1. sym \in Symbol
          BY DEF Range
    <2> QED BY <2>1, RetypedIs
<1>2. \A sym \in Symbol : /\ EntryOf(sym) \in SymEntry /\ EntryOf(sym).type = sym.type
                          /\ EntryOf(sym).address = sym.address /\ EntryOf(sym).name = sym.name
      BY DEF Symbol, SymEntry, EntryOf
<1>3. ASSUME NEW sym \in Range(object)
      PROVE  NlistType(sym) \in TextTypes => sym.type \in TextTypes \/ sym.sect
      BY DEF NlistType
<1>4. Lists(object, Fitting(f))
    <2> SUFFICES ASSUME NEW sym \in Range(object)
                 PROVE  /\ Interesting(sym) => EntryOf(sym) \in Fitting(f)
                        /\ Interesting(Retyped(sym)) => EntryOf(Retyped(sym)) \in Fitting(f)
        BY DEF Lists
    <2>1. /\ sym.name \notin HiddenNames
          /\ sym.address \in f.from .. f.to - 1
          /\ sym.type \in TextTypes \/ sym.sect
          => sym.address = f.from /\ sym.name = f.name
          BY DEF Tells
    <2> QED BY <1>1, <1>2, <1>3, <2>1 DEF Fitting, Interesting
<1>5. Brings(object, Beginning(f))
    <2>1. PICK sym \in Range(object) : /\ sym.name \notin HiddenNames
                                       /\ sym.type \in TextTypes /\ sym.address = f.from
          BY DEF Tells
    <2>2. NlistType(sym) \in TextTypes
          BY <2>1 DEF NlistType, TextTypes
    <2>3. Interesting(sym) /\ Interesting(Retyped(sym))
          BY <1>1, <2>1, <2>2 DEF Interesting, TextTypes
    <2>4. EntryOf(sym) \in Beginning(f) /\ EntryOf(Retyped(sym)) \in Beginning(f)
          BY <1>1, <1>2, <2>1, <2>2 DEF Beginning
    <2> QED BY <2>3, <2>4 DEF Brings
<1> QED BY <1>4, <1>5

(* MAX_SYMBOL_OFFSET is a number.                                          *)
LEMMA OffsetIsNat == MaxSymbolOffset \in Nat
BY LocationsAssumption

(* lookup_symbol_for_pc finds the name of the function pc is in, in a      *)
(* table that tells it.                                                    *)
LEMMA NameFound ==
    ASSUME NEW sy, sy.entries \in Seq(SymEntry), sy.slide \in Int,
           NEW pc \in Int, NEW f, f.from \in Nat \ {0}, f.to \in Nat,
           f.to - f.from <= MaxSymbolOffset + 1,
           Fits(sy.entries, f), Has(sy.entries, f),
           pc - sy.slide \in f.from .. f.to - 1
    PROVE  LET sym == SymbolForPc(sy, pc)
           IN  sym # NoSym /\ sy.entries[sym].name = f.name
<1> DEFINE Addr(i) == SymAddr(sy, i)
           below == {i \in DOMAIN sy.entries : /\ sy.entries[i].address # 0
                                               /\ sy.entries[i].type \in TextTypes
                                               /\ Addr(i) <= pc}
           Wins(i) == \A j \in below \ {i} : Addr(i) > Addr(j) \/ (Addr(i) = Addr(j) /\ i < j)
           best == CHOOSE i \in below : Wins(i)
<1>1. ASSUME NEW i \in DOMAIN sy.entries
      PROVE  i \in Nat \ {0} /\ Addr(i) = sy.entries[i].address + sy.slide /\ Addr(i) \in Int
             /\ sy.entries[i] \in Range(sy.entries) /\ sy.entries[i].address \in Nat
    <2>1. sy.entries[i] \in SymEntry /\ i \in Nat \ {0} /\ sy.entries[i] \in Range(sy.entries)
          BY DEF Range
    <2>2. sy.entries[i].address \in Nat
          BY <2>1 DEF SymEntry
    <2> QED BY <2>1, <2>2 DEF SymAddr
<1> HIDE DEF Addr
<1>2. PICK k \in below : sy.entries[k].address = f.from
    <2>1. PICK k \in DOMAIN sy.entries : /\ sy.entries[k].type \in TextTypes
                                         /\ sy.entries[k].address = f.from
          BY DEF Has, Range
    <2>2. Addr(k) <= pc
          BY <1>1, <2>1
    <2> QED BY <2>1, <2>2
<1>3. \E i \in below : Wins(i)
    <2> DEFINE D == {pc - Addr(i) : i \in below}
    <2>0. ASSUME NEW i \in below
          PROVE  pc - Addr(i) \in Nat
        <3>1. Addr(i) \in Int /\ Addr(i) <= pc
              BY <1>1
        <3> HIDE DEF below
        <3> QED BY <3>1
    <2>1. D \in SUBSET Nat /\ D # {}
        <3> HIDE DEF below
        <3> QED BY <1>2, <2>0
    <2>2. PICK d \in D : \A x \in D : d <= x
          BY <2>1, LeastElement
    <2> DEFINE T == {i \in below : pc - Addr(i) = d}
    <2>3. T \in SUBSET Nat /\ T # {}
          BY <1>1
    <2>4. PICK i \in T : \A x \in T : i <= x
          BY <2>3, LeastElement
    <2>5. ASSUME NEW j \in below \ {i}
          PROVE  Addr(i) > Addr(j) \/ (Addr(i) = Addr(j) /\ i < j)
        <3>0. Addr(i) \in Int /\ Addr(j) \in Int
              BY <1>1
        <3>1. d <= pc - Addr(j) /\ pc - Addr(i) = d
              BY <2>2
        <3>2. CASE d = pc - Addr(j)
            <4>1. i <= j /\ i # j /\ i \in Nat /\ j \in Nat
                  BY <1>1, <2>4, <3>2
            <4>2. Addr(i) = Addr(j)
                <5> HIDE DEF below, T, D
                <5> QED BY <3>0, <3>1, <3>2
            <4> QED BY <4>1, <4>2
        <3>3. CASE d # pc - Addr(j)
            <4> DEFINE ai == Addr(i)
                       aj == Addr(j)
            <4>1. ai \in Int /\ aj \in Int /\ pc - ai < pc - aj
                  BY <3>0, <3>1, <3>3
            <4> HIDE DEF ai, aj
            <4>2. ai > aj
                  BY <4>1
            <4> QED BY <4>2 DEF ai, aj
        <3> QED BY <3>2, <3>3
    <2> QED BY <2>5
<1>4. best \in below /\ Wins(best)
      BY <1>3
<1> HIDE DEF best
<1>5. /\ Addr(best) = sy.entries[best].address + sy.slide /\ Addr(k) = f.from + sy.slide
      /\ sy.entries[best].address \in Nat /\ sy.entries[best].type \in TextTypes
      /\ sy.entries[best] \in Range(sy.entries) /\ Addr(best) <= pc
      BY <1>1, <1>2, <1>4
<1>6. Addr(best) > Addr(k) \/ Addr(best) = Addr(k)
      BY <1>2, <1>4
<1> HIDE DEF below, Wins
<1>7. sy.entries[best].address \in f.from .. f.to - 1
    <2> DEFINE a == sy.entries[best].address
               slid == sy.slide
               from == f.from
               p == pc - slid
    <2>1. a \in Nat /\ slid \in Int /\ from \in Nat /\ p \in from .. f.to - 1
          BY <1>5
    <2>2. a + slid >= from + slid /\ a + slid <= pc
          BY <1>5, <1>6, SMTT(30)
    <2>3. p \in Int /\ p + slid = pc /\ p <= f.to - 1
          BY <2>1
    <2> HIDE DEF a, slid, from, p
    <2>4. from <= a /\ a <= p
          BY <2>1, <2>2, <2>3
    <2>5. a \in from .. f.to - 1
          BY <2>1, <2>3, <2>4
    <2> QED BY <2>5 DEF a, from
<1>8. sy.entries[best].address = f.from /\ sy.entries[best].name = f.name
      BY <1>5, <1>7 DEF Fits
<1>10. pc - Addr(best) <= MaxSymbolOffset
    <2> DEFINE slid == sy.slide
               from == f.from
               to == f.to
               p == pc - slid
    <2>1. Addr(best) = from + slid /\ pc - Addr(best) = p - from
          BY <1>5, <1>8
    <2>2. /\ slid \in Int /\ from \in Nat /\ to \in Nat /\ p \in from .. to - 1
          /\ to - from <= MaxSymbolOffset + 1
          OBVIOUS
    <2> HIDE DEF slid, from, to, p
    <2>3. p - from <= MaxSymbolOffset
          BY <2>2, OffsetIsNat
    <2> QED BY <2>1, <2>3
<1>9. SymbolForPc(sy, pc) = best
    <2>1. below # {}
          BY <1>2 DEF below
    <2>2. SymbolForPc(sy, pc) = IF below = {} THEN NoSym
                                ELSE IF pc - Addr(best) > MaxSymbolOffset THEN NoSym ELSE best
          BY Zenon DEF SymbolForPc, best, Addr, below, Wins
    <2> HIDE DEF below
    <2>3. ~ (pc - Addr(best) > MaxSymbolOffset)
        <3>1. pc - Addr(best) \in Int /\ MaxSymbolOffset \in Int
              BY <1>1, <1>4, OffsetIsNat DEF below
        <3> QED BY <1>10, <3>1
    <2> QED BY <2>1, <2>2, <2>3
<1> QED BY <1>1, <1>4, <1>8, <1>9 DEF NoSym, below

\* The table tells the functions of the image.
Told == \A f \in image.functions : /\ syms.entries \in Seq(SymEntry)
                                   /\ Fits(syms.entries, f) /\ Has(syms.entries, f)

NameAt(pc) == IF SymbolForPc(syms, pc) = NoSym THEN "" ELSE syms.entries[SymbolForPc(syms, pc)].name

NameInv ==
    /\ image \in Images
    /\ DOMAIN syms = {"entries", "slide"}
    /\ loaded \in Nat
    /\ phase \in {"forked", "spawned"} \/ loaded # NoProcess => Told
    /\ out.cmd = "frame" => /\ phase = "prompt"
                            /\ loaded # NoProcess
                            /\ out.pc \in Nat
                            /\ out.symbol = NameAt(out.pc)

(* The three arms of LoadSymbols' CASE.                                    *)
LEMMA Arms ==
    ASSUME NEW v, NEW x, NEW y, NEW z
    PROVE  LET w == CASE v = 0 -> x [] v = 1 -> y [] v = 2 -> z
           IN  /\ v = 0 => w = x
               /\ v = 1 => w = y
               /\ v = 2 => w = z
OBVIOUS

(* What nm and its fallback have read is in W, and has one of H, if that   *)
(* is so of what they take from the objects.                               *)
LEMMA SymsRead ==
    ASSUME image \in Images, LoadSymbols,
           NEW W, NEW H, \A i \in DOMAIN image.objects : Lists(image.objects[i], W)
    PROVE  /\ image' = image /\ DOMAIN syms' = {"entries", "slide"} /\ syms'.slide = 0
           /\ syms'.entries \in Seq(SymEntry) /\ Within(syms'.entries, W)
           /\ (\A i \in DOMAIN image.objects : Brings(image.objects[i], H)) => Meets(syms'.entries, H)
<1> DEFINE objects == image.objects
           Lines(read) == [i \in DOMAIN read |->
                              CASE read[i] = 0 -> 0
                                [] read[i] = 1 -> Len(image.objects[i]) \div 2
                                [] read[i] = 2 -> Len(image.objects[i])]
           Exited(ok) == [i \in DOMAIN ok |-> ok[i] = 1]
<1>1. /\ objects \in Seq(Seq(Symbol)) /\ Len(objects) \in {1, 2}
      /\ \A i \in DOMAIN objects : objects[i] \in Seq(Symbol)
      BY LocationsAssumption
<1>2. PICK read, ok \in [DOMAIN objects -> {0, 1, 2}] :
         /\ \A i \in DOMAIN read : ok[i] < 2 /\ (ok[i] = 1 => read[i] = 2)
         /\ syms' = [entries |-> LoadedSyms(objects, Lines(read), Exited(ok)), slide |-> 0]
      BY DEF LoadSymbols
<1>3. ASSUME NEW i \in DOMAIN objects
      PROVE  /\ Lines(read)[i] \in 0 .. Len(objects[i]) /\ Exited(ok)[i] \in BOOLEAN
             /\ Exited(ok)[i] => Lines(read)[i] = Len(objects[i])
    <2>1. Len(objects[i]) \in Nat /\ Len(objects[i]) \div 2 \in 0 .. Len(objects[i])
        <3>1. \A l \in Nat : l \div 2 \in 0 .. l
              OBVIOUS
        <3>2. Len(objects[i]) \in Nat
              BY <1>1
        <3> HIDE DEF objects
        <3> QED BY <3>1, <3>2
    <2>2. read[i] = 0 \/ read[i] = 1 \/ read[i] = 2
          BY <1>2
    <2>3. i \in DOMAIN read /\ i \in DOMAIN ok
          BY <1>2
    <2>4. /\ read[i] = 0 => Lines(read)[i] = 0
          /\ read[i] = 1 => Lines(read)[i] = Len(objects[i]) \div 2
          /\ read[i] = 2 => Lines(read)[i] = Len(objects[i])
        <3>1. Lines(read)[i] = CASE read[i] = 0 -> 0
                                 [] read[i] = 1 -> Len(image.objects[i]) \div 2
                                 [] read[i] = 2 -> Len(image.objects[i])
              BY <2>3
        <3> HIDE DEF Lines, objects
        <3> DEFINE l == Len(image.objects[i])
                   h == l \div 2
        <3>2. Lines(read)[i] = CASE read[i] = 0 -> 0 [] read[i] = 1 -> h [] read[i] = 2 -> l
              BY <3>1
        <3> HIDE DEF l, h
        <3>3. /\ read[i] = 0 => Lines(read)[i] = 0
              /\ read[i] = 1 => Lines(read)[i] = h
              /\ read[i] = 2 => Lines(read)[i] = l
              BY <3>2, Arms
        <3> QED BY <3>3 DEF l, h, objects
    <2>5. Exited(ok)[i] \in BOOLEAN /\ (Exited(ok)[i] => ok[i] = 1)
          BY <2>3
    <2>6. ok[i] = 1 => read[i] = 2
          BY <1>2, <2>3
    <2> HIDE DEF objects, Lines, Exited
    <2> QED BY <2>1, <2>2, <2>4, <2>5, <2>6
<1>4. image' = image /\ syms'.entries = LoadedSyms(objects, Lines(read), Exited(ok))
      /\ DOMAIN syms' = {"entries", "slide"} /\ syms'.slide = 0
      BY <1>2 DEF LoadSymbols, loadVars
<1>5. \A i \in DOMAIN objects : Lists(objects[i], W)
      OBVIOUS
<1> DEFINE lines == Lines(read)
           exited == Exited(ok)
           e == LoadedSyms(objects, lines, exited)
           Every == \A i \in DOMAIN objects : Brings(objects[i], H)
<1>6. syms'.entries = e
      BY <1>4
<1>7. \A i \in DOMAIN objects : /\ lines[i] \in 0 .. Len(objects[i]) /\ exited[i] \in BOOLEAN
                                /\ exited[i] => lines[i] = Len(objects[i])
      BY <1>3
<1> HIDE DEF lines, exited, objects
<1>8. e \in Seq(SymEntry) /\ Within(e, W) /\ (Every => Meets(e, H))
      BY <1>1, <1>5, <1>7, SymsLoaded
<1> QED BY <1>4, <1>6, <1>8 DEF objects

(* The table they have read tells the functions.                           *)
LEMMA TableTold ==
    ASSUME SymbolsTell, NameInv, LoadSymbols
    PROVE  Told' /\ DOMAIN syms' = {"entries", "slide"}
<1>1. /\ image \in Images /\ image' = image
      /\ DOMAIN syms' = {"entries", "slide"}
      BY DEF NameInv, LoadSymbols, loadVars
<1>2. ASSUME NEW f \in image.functions
      PROVE  /\ syms'.entries \in Seq(SymEntry)
             /\ Fits(syms'.entries, f) /\ Has(syms'.entries, f)
    <2> DEFINE W == Fitting(f)
               H == Beginning(f)
    <2>1. ASSUME NEW i \in DOMAIN image.objects
          PROVE  Lists(image.objects[i], W) /\ Brings(image.objects[i], H)
        <3>1. Tells(image.objects[i], f) /\ image.objects[i] \in Seq(Symbol)
              BY <1>1, LocationsAssumption DEF SymbolsTell
        <3> QED BY <3>1, TellsLists
    <2>2. W = Fitting(f) /\ H = Beginning(f)
          OBVIOUS
    <2> HIDE DEF W, H
    <2>3. syms'.entries \in Seq(SymEntry) /\ Within(syms'.entries, W) /\ Meets(syms'.entries, H)
          BY <1>1, <2>1, SymsRead
    <2> QED BY <2>2, <2>3 DEF Fitting, Beginning, Within, Meets, Fits, Has
<1> QED BY <1>1, <1>2 DEF Told

(* The invariant depends on the image, the symbol table and the last       *)
(* answer.                                                                 *)
LEMMA NamesKept ==
    ASSUME NameInv, UNCHANGED <<image, loaded, syms>>, phase' \in {"forked", "spawned"} => Told
    PROVE  /\ NameInv' <=> (out'.cmd = "frame" =>
                              phase' = "prompt" /\ loaded # NoProcess /\ out'.pc \in Nat /\ out'.symbol = NameAt(out'.pc))
           /\ out' = out /\ phase' = phase => NameInv'
<1>1. Told' <=> Told
      BY DEF Told
<1>2. \A pc : NameAt(pc)' = NameAt(pc)
      BY DEF NameAt
<1>3. NameAt(out.pc)' = NameAt(out'.pc)
      BY DEF NameAt
<1> QED BY <1>1, <1>3 DEF NameInv, NameAt

(* Every frame that is shown is named for the function its pc is in.       *)
THEOREM FramesNamed ==
    ASSUME SymbolsTell
    PROVE  LocationsSpec => []FrameNamed
<1>1. Init => NameInv
    <2>1. Silent.cmd = "none" /\ DOMAIN NoSyms = {"entries", "slide"}
          BY DEF Silent, NoSyms
    <2> QED BY <2>1 DEF Init, LoadInit, NameInv, NoProcess
<1>2. NameInv /\ [Next]_vars => NameInv'
    <2> SUFFICES ASSUME NameInv, [Next]_vars
                 PROVE  NameInv'
        OBVIOUS
    <2>1. CASE UNCHANGED vars
          BY <2>1, NamesKept DEF vars, loadVars, NameInv
    <2>2. CASE CmdRun
          BY <2>2 DEF CmdRun, NameInv, NoSyms, NoProcess, Silent
    <2>3. CASE LoadLines
          BY <2>3, ImageKept, NamesKept DEF LoadLines, NameInv
    <2>4. CASE LoadSymbols
        <3>1. image' = image /\ loaded' = loaded /\ out' = out /\ phase = "loading"
              BY <2>4 DEF LoadSymbols, loadVars
        <3> QED BY <2>4, <3>1, TableTold DEF NameInv
    <2>5. CASE Spawn
        <3>1. PICK load \in Loads : loaded' = load
              BY <2>5 DEF Spawn
        <3>2. /\ image' = image /\ out' = out /\ phase = "forked"
              /\ syms' = [syms EXCEPT !.slide = syms'.slide]
              /\ DOMAIN syms' = DOMAIN syms /\ syms'.entries = syms.entries
              BY <2>5 DEF Spawn, loadVars, NameInv
        <3>3. loaded' \in Nat
              BY <3>1, LocationsAssumption
        <3>4. Told /\ out.cmd # "frame"
              BY <3>2 DEF NameInv
        <3>5. Told'
              BY <3>2, <3>4 DEF Told
        <3> QED BY <3>2, <3>3, <3>4, <3>5 DEF NameInv
    <2>6. CASE Started
        <3>1. /\ image' = image /\ loaded' = loaded /\ phase = "spawned"
              /\ DOMAIN syms' = DOMAIN syms /\ syms'.entries = syms.entries
              /\ out'.cmd = "run"
              BY <2>6 DEF Started, loadVars, NameInv, Silent
        <3>2. Told'
              BY <3>1 DEF NameInv, Told
        <3> QED BY <3>1, <3>2 DEF NameInv
    <2>7. CASE ExecFailed \/ CmdKill
        <3>1. /\ image' = image /\ loaded' = 0 /\ phase' = "prompt" /\ syms' = syms
              BY <2>7 DEF ExecFailed, CmdKill, loadVars, NoProcess
        <3>2. CASE ExecFailed
            <4>1. out'.cmd # "frame"
                  BY <3>2 DEF ExecFailed, NameInv
            <4> QED BY <3>1, <4>1 DEF NameInv, NoProcess
        <3>3. CASE CmdKill
            <4>1. out'.cmd # "frame"
                  BY <3>3 DEF CmdKill, Silent
            <4> QED BY <3>1, <4>1 DEF NameInv, NoProcess
        <3> QED BY <2>7, <3>2, <3>3
    <2>8. ASSUME NEW t, CmdBreak(t) \/ CmdDis(t) \/ CmdList(t)
          PROVE  NameInv'
        <3>1. out'.cmd \in {"break", "dis", "list"} /\ phase' = phase
              /\ image' = image /\ loaded' = loaded /\ syms' = syms
              BY <2>8 DEF CmdBreak, CmdDis, CmdList, loadVars, Silent
        <3> QED BY <3>1, NamesKept DEF NameInv
    <2>9. ASSUME NEW pc \in Pcs, ShowFrame(pc)
          PROVE  NameInv'
        <3>1. /\ out'.pc = pc /\ out'.symbol = NameAt(pc) /\ loaded # NoProcess
              /\ phase = "prompt" /\ phase' = phase
              /\ image' = image /\ loaded' = loaded /\ syms' = syms
              BY <2>9 DEF ShowFrame, loadVars, Silent, NameAt
        <3>2. pc \in Nat
              BY LocationsAssumption
        <3> QED BY <3>1, <3>2, NamesKept DEF NameInv
    <2> QED BY <2>1, <2>2, <2>3, <2>4, <2>5, <2>6, <2>7, <2>8, <2>9 DEF Next
<1>3. NameInv => FrameNamed
    <2> SUFFICES ASSUME NameInv, out.cmd = "frame", SymsSlid, NEW f \in image.functions,
                        True(out.pc) \in f.from .. f.to - 1
                 PROVE  out.symbol = f.name
        BY DEF FrameNamed
    <2>1. Told /\ out.pc \in Nat /\ out.symbol = NameAt(out.pc) /\ image \in Images /\ loaded \in Nat
          BY DEF NameInv
    <2>2. /\ image.base \in Nat /\ f.from \in Nat \ {0} /\ f.to \in Nat
          /\ f.to - f.from <= MaxSymbolOffset + 1
          BY <2>1, LocationsAssumption DEF SymbolsTell
    <2>3. syms.slide \in Int /\ out.pc - syms.slide \in f.from .. f.to - 1
          BY <2>1, <2>2 DEF SymsSlid, True
    <2>4. syms.entries \in Seq(SymEntry) /\ Fits(syms.entries, f) /\ Has(syms.entries, f)
          BY <2>1 DEF Told
    <2> DEFINE sym == SymbolForPc(syms, out.pc)
    <2>5. sym # NoSym /\ syms.entries[sym].name = f.name
        <3>1. out.pc \in Int
              BY <2>1
        <3> QED BY <2>2, <2>3, <2>4, <3>1, NameFound
    <2> HIDE DEF sym
    <2>6. NameAt(out.pc) = IF sym = NoSym THEN "" ELSE syms.entries[sym].name
          BY DEF NameAt, sym
    <2> QED BY <2>1, <2>5, <2>6
<1> QED BY <1>1, <1>2, <1>3, PTL DEF LocationsSpec
=============================================================================
