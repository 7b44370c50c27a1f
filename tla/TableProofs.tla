----------------------------- MODULE TableProofs -----------------------------
(***************************************************************************)
(* What the loaded line table tells and what the lookups make of it: of    *)
(* any image by the reader of dwarfdump's output, of images whose headers  *)
(* are read to their ends by the one of the section (Aligned).             *)
(*                                                                         *)
(* The table is compared by its set of rows.  Their order depends on the   *)
(* reader and matters to no property here: a lookup takes the row with the *)
(* highest or the lowest address, and where two are at one address the     *)
(* properties claim nothing or the same of both.                           *)
(***************************************************************************)
EXTENDS LocationProofs

-----------------------------------------------------------------------------
(* The lookups.                                                            *)

TableRow == [address : Nat, line : Nat, file : Paths]

(* Addresses of a table at run time.                                       *)
LEMMA RuntimeIs ==
    ASSUME NEW tab, tab.entries \in Seq(TableRow), tab.slide \in Int,
           NEW i \in DOMAIN tab.entries
    PROVE  /\ i \in Nat \ {0} /\ tab.entries[i] \in TableRow /\ tab.entries[i] \in Range(tab.entries)
           /\ tab.entries[i].address \in Nat
           /\ RuntimeAddr(tab, i) = tab.entries[i].address + tab.slide
           /\ RuntimeAddr(tab, i) \in Int
<1>1. tab.entries[i] \in TableRow /\ i \in Nat \ {0} /\ tab.entries[i] \in Range(tab.entries)
      BY DEF Range
<1>2. tab.entries[i].address \in Nat
      BY <1>1 DEF TableRow
<1> QED BY <1>1, <1>2 DEF RuntimeAddr

(* The scan for the lowest address finds one of the rows, and none is      *)
(* lower.                                                                  *)
LEMMA LowestFound ==
    ASSUME NEW tab, tab.entries \in Seq(TableRow), tab.slide \in Int,
           NEW rows \in SUBSET (DOMAIN tab.entries), rows # {}
    PROVE  /\ LowestOf(tab, rows) \in rows /\ LowestOf(tab, rows) # NoRow
           /\ \A j \in rows : RuntimeAddr(tab, LowestOf(tab, rows)) <= RuntimeAddr(tab, j)
<1> DEFINE Wins(i) == \A j \in rows \ {i} :
                          \/ RuntimeAddr(tab, i) < RuntimeAddr(tab, j)
                          \/ RuntimeAddr(tab, i) = RuntimeAddr(tab, j) /\ i < j
           d == [i \in rows |-> tab.entries[i].address]
           best == CHOOSE i \in rows : Wins(i)
<1>1. \A i \in rows : /\ i \in Nat \ {0} /\ d[i] \in Nat
                      /\ RuntimeAddr(tab, i) = d[i] + tab.slide /\ RuntimeAddr(tab, i) \in Int
      BY RuntimeIs
<1>2. PICK i \in rows : \A j \in rows \ {i} : d[i] < d[j] \/ (d[i] = d[j] /\ i < j)
    <2>1. rows \in SUBSET Nat /\ d \in [rows -> Nat]
          BY <1>1
    <2> HIDE DEF d
    <2> QED BY <2>1, FirstBest
<1> HIDE DEF d
<1>3. Wins(i)
    <2> SUFFICES ASSUME NEW j \in rows \ {i}
                 PROVE  \/ RuntimeAddr(tab, i) < RuntimeAddr(tab, j)
                        \/ RuntimeAddr(tab, i) = RuntimeAddr(tab, j) /\ i < j
        OBVIOUS
    <2> DEFINE x == d[i]
               y == d[j]
               z == tab.slide
    <2>1. /\ x \in Nat /\ y \in Nat /\ z \in Int
          /\ RuntimeAddr(tab, i) = x + z /\ RuntimeAddr(tab, j) = y + z
          /\ x < y \/ (x = y /\ i < j)
          BY <1>1, <1>2
    <2> HIDE DEF x, y, z
    <2> QED BY <2>1
<1>4. best \in rows /\ Wins(best)
      BY <1>3
<1>5. LowestOf(tab, rows) = best
      BY Zenon DEF LowestOf, best, Wins
<1> HIDE DEF best
<1>6. ASSUME NEW j \in rows
      PROVE  RuntimeAddr(tab, best) <= RuntimeAddr(tab, j)
    <2>1. RuntimeAddr(tab, best) \in Int /\ RuntimeAddr(tab, j) \in Int
          BY <1>1, <1>4
    <2>2. j = best \/ RuntimeAddr(tab, best) < RuntimeAddr(tab, j)
                   \/ RuntimeAddr(tab, best) = RuntimeAddr(tab, j)
          BY <1>4
    <2> QED BY <2>1, <2>2
<1> QED BY <1>1, <1>4, <1>5, <1>6 DEF NoRow

(* The scan for the highest address, of rows up to a limit.                *)
LEMMA HighestFound ==
    ASSUME NEW tab, tab.entries \in Seq(TableRow), tab.slide \in Int,
           NEW rows \in SUBSET (DOMAIN tab.entries), rows # {},
           NEW top \in Int, \A i \in rows : RuntimeAddr(tab, i) <= top
    PROVE  /\ HighestOf(tab, rows) \in rows /\ HighestOf(tab, rows) # NoRow
           /\ \A j \in rows : RuntimeAddr(tab, j) <= RuntimeAddr(tab, HighestOf(tab, rows))
<1> DEFINE Wins(i) == \A j \in rows \ {i} :
                          \/ RuntimeAddr(tab, i) > RuntimeAddr(tab, j)
                          \/ RuntimeAddr(tab, i) = RuntimeAddr(tab, j) /\ i < j
           d == [i \in rows |-> top - RuntimeAddr(tab, i)]
           best == CHOOSE i \in rows : Wins(i)
<1>1. \A i \in rows : i \in Nat \ {0} /\ RuntimeAddr(tab, i) \in Int
      BY RuntimeIs
<1>2. \A i \in rows : d[i] \in Nat /\ d[i] = top - RuntimeAddr(tab, i)
      BY <1>1
<1>3. PICK i \in rows : \A j \in rows \ {i} : d[i] < d[j] \/ (d[i] = d[j] /\ i < j)
    <2>1. rows \in SUBSET Nat /\ d \in [rows -> Nat]
          BY <1>1, <1>2
    <2> HIDE DEF d
    <2> QED BY <2>1, FirstBest
<1> HIDE DEF d
<1>4. Wins(i)
      BY <1>1, <1>2, <1>3, SMTT(30)
<1>5. best \in rows /\ Wins(best)
      BY <1>4
<1>6. HighestOf(tab, rows) = best
      BY Zenon DEF HighestOf, best, Wins
<1> HIDE DEF best
<1>7. ASSUME NEW j \in rows
      PROVE  RuntimeAddr(tab, j) <= RuntimeAddr(tab, best)
    <2>1. RuntimeAddr(tab, best) \in Int /\ RuntimeAddr(tab, j) \in Int
          BY <1>1, <1>5
    <2>2. j = best \/ RuntimeAddr(tab, best) > RuntimeAddr(tab, j)
                   \/ RuntimeAddr(tab, best) = RuntimeAddr(tab, j)
          BY <1>5
    <2> QED BY <2>1, <2>2
<1> QED BY <1>1, <1>5, <1>6, <1>7 DEF NoRow

-----------------------------------------------------------------------------
(* The output of dwarfdump.  ReadLines folds over the lines of all units   *)
(* one after the other.  The fold is unrolled into a run, and the run cut  *)
(* where one unit, one list ends and the next begins.                      *)

\* What the reader remembers between two lines, and the lines.
Dump == [dir : Names, name : Names, entries : Seq(TableRow)]
Line == [kind : {"dir"}, of : STRING] \cup [kind : {"file"}, of : STRING \X STRING]
            \cup [kind : {"row"}, of : LineRow]
Tag(k, s) == [i \in DOMAIN s |-> [kind |-> k, of |-> s[i]]]

\* A row as the table has it, of a file, and the file the reader gives it.
Printed(row, file) == [address |-> row.address, line |-> row.line, file |-> file]
FileOf(d) == IF d.name = Unknown[2] THEN Unknown ELSE <<d.dir, d.name>>

(* The three arms of ReadLine's CASE.                                      *)
LEMMA LineArms ==
    ASSUME NEW v, NEW x, NEW y, NEW z
    PROVE  LET w == CASE v = "dir" -> x [] v = "file" -> y [] v = "row" -> z
           IN  /\ v = "dir" => w = x
               /\ v = "file" => w = y
               /\ v = "row" => w = z
OBVIOUS

(* One line.                                                               *)
LEMMA LineRead ==
    ASSUME NEW d \in Dump, NEW l \in Line
    PROVE  /\ ReadLine(d, l) \in Dump
           /\ l.kind = "dir" => ReadLine(d, l) = [d EXCEPT !.dir = l.of]
           /\ l.kind = "file" => ReadLine(d, l) = [d EXCEPT !.name = l.of[2]]
           /\ l.kind = "row" => ReadLine(d, l) =
                [d EXCEPT !.entries = Append(d.entries, Printed(l.of, FileOf(d)))]
<1> DEFINE x == [d EXCEPT !.dir = l.of]
           y == [d EXCEPT !.name = l.of[2]]
           z == [d EXCEPT !.entries = Append(d.entries, Printed(l.of, FileOf(d)))]
<1>1. /\ l.kind = "dir" => ReadLine(d, l) = x
      /\ l.kind = "file" => ReadLine(d, l) = y
      /\ l.kind = "row" => ReadLine(d, l) = z
    <2>1. ReadLine(d, l) = CASE l.kind = "dir" -> x [] l.kind = "file" -> y [] l.kind = "row" -> z
          BY DEF ReadLine, Printed, FileOf
    <2> HIDE DEF x, y, z
    <2> QED BY <2>1, LineArms
<1>2. l.kind = "dir" \/ l.kind = "file" \/ l.kind = "row"
      BY DEF Line
<1>3. l.kind = "dir" => x \in Dump
      BY DEF Line, Dump, Names
<1>4. l.kind = "file" => y \in Dump
      BY DEF Line, Dump, Names
<1>5. ASSUME l.kind = "row"
      PROVE  z \in Dump
    <2>1. l.of \in LineRow /\ d.entries \in Seq(TableRow) /\ d.dir \in Names /\ d.name \in Names
          BY <1>5 DEF Line, Dump
    <2>2. FileOf(d) \in Paths
        <3>1. Unknown \in Paths
              BY DEF Names, Unknown, Paths
        <3> QED BY <2>1, <3>1 DEF FileOf, Paths
    <2>3. Printed(l.of, FileOf(d)) \in TableRow
          BY <2>1, <2>2 DEF Printed, LineRow, TableRow
    <2>4. Append(d.entries, Printed(l.of, FileOf(d))) \in Seq(TableRow)
          BY <2>1, <2>3
    <2> QED BY <2>4 DEF Dump
<1> QED BY <1>1, <1>2, <1>3, <1>4, <1>5

\* From d, the lines s lead to e by way of g.
IsReading(g, d, s, e) ==
    /\ g \in [0 .. Len(s) -> Dump]
    /\ g[0] = d /\ g[Len(s)] = e
    /\ \A p \in 1 .. Len(s) : g[p] = ReadLine(g[p - 1], s[p])
Reads(d, s, e) == \E g : IsReading(g, d, s, e)

(* The fold is such a run.                                                 *)
LEMMA FoldReads ==
    ASSUME NEW d \in Dump, NEW s \in Seq(Line)
    PROVE  Reads(d, s, FoldLeft(ReadLine, d, s))
<1> DEFINE n == Len(s)
           f == [k \in 1 .. n |-> [x \in Dump |-> ReadLine(x, s[k])]]
           iter == CHOOSE g : g = [t \in SUBSET (1 .. n) |->
                       IF t = {} THEN d ELSE ReadLine(g[t \ {Max(t)}], s[Max(t)])]
<1>1. n \in Nat /\ DOMAIN s = 1 .. n /\ \A k \in 1 .. n : s[k] \in Line
      OBVIOUS
<1>2. FoldLeft(ReadLine, d, s) = iter[1 .. n]
      BY <1>1, Zenon DEF FoldLeft, MapThenFoldSet
<1> HIDE DEF n
<1>3. f \in [1 .. n -> [Dump -> Dump]]
    <2>1. ASSUME NEW k \in 1 .. n, NEW x \in Dump
          PROVE  ReadLine(x, s[k]) \in Dump
          BY <1>1, LineRead
    <2> QED BY <2>1
<1>4. PICK g : IsFold(g, Dump, d, f, n)
    <2> HIDE DEF f
    <2> QED BY <1>1, <1>3, FoldExists
<1>5. /\ g \in [SUBSET (1 .. n) -> Dump]
      /\ \A t \in SUBSET (1 .. n) : g[t] = IF t = {} THEN d ELSE f[Max(t)][g[t \ {Max(t)}]]
      BY <1>4 DEF IsFold
<1>6. g = [t \in SUBSET (1 .. n) |->
              IF t = {} THEN d ELSE ReadLine(g[t \ {Max(t)}], s[Max(t)])]
    <2>1. ASSUME NEW t \in SUBSET (1 .. n), t # {}
          PROVE  g[t] = ReadLine(g[t \ {Max(t)}], s[Max(t)])
        <3>1. Max(t) \in 1 .. n
              BY <1>1, <2>1, MaxOf
        <3>2. g[t] = f[Max(t)][g[t \ {Max(t)}]]
              BY <1>5, <2>1
        <3>3. g[t \ {Max(t)}] \in Dump
              BY <1>5
        <3> HIDE DEF Max
        <3> QED BY <3>1, <3>2, <3>3
    <2>2. g[{}] = d
          BY <1>5
    <2> HIDE DEF f
    <2>3. ASSUME NEW t \in SUBSET (1 .. n)
          PROVE  g[t] = IF t = {} THEN d ELSE ReadLine(g[t \ {Max(t)}], s[Max(t)])
          BY <2>1, <2>2
    <2>4. g = [t \in SUBSET (1 .. n) |-> g[t]]
          BY <1>5
    <2> QED BY <2>3, <2>4, Zenon
<1>7. iter = [t \in SUBSET (1 .. n) |->
              IF t = {} THEN d ELSE ReadLine(iter[t \ {Max(t)}], s[Max(t)])]
      BY <1>6, Zenon
<1> HIDE DEF iter
<1>8. ASSUME NEW m \in 1 .. n
      PROVE  iter[1 .. m] = ReadLine(iter[1 .. m - 1], s[m])
    <2>1. 1 .. m \in SUBSET (1 .. n) /\ 1 .. m # {} /\ (1 .. m) \ {m} = 1 .. m - 1
        <3>1. m \in Nat /\ m <= n /\ m \in 1 .. m
              BY <1>1
        <3>2. (1 .. m) \ {m} = 1 .. m - 1
              BY <3>1
        <3>3. \A i \in 1 .. m : i \in 1 .. n
              BY <1>1, <3>1
        <3> QED BY <3>1, <3>2, <3>3
    <2>2. Max(1 .. m) = m
        <3>1. m \in 1 .. m /\ \A y \in 1 .. m : y <= m
              BY <1>1
        <3> QED BY <1>1, <2>1, <3>1, MaxIs
    <2>3. iter[1 .. m] = ReadLine(iter[(1 .. m) \ {Max(1 .. m)}], s[Max(1 .. m)])
          BY <1>7, <2>1
    <2> QED BY <2>1, <2>2, <2>3
<1> DEFINE h == [k \in 0 .. n |-> iter[1 .. k]]
           P == {k \in 0 .. n : iter[1 .. k] \in Dump}
<1>9. iter[1 .. 0] = d
    <2>1. 1 .. 0 = {} /\ {} \in SUBSET (1 .. n)
          OBVIOUS
    <2> QED BY <1>7, <2>1
<1>10. \A k \in 0 .. n : iter[1 .. k] \in Dump
    <2>1. 0 \in P
          BY <1>1, <1>9
    <2>2. ASSUME NEW k \in 1 .. n, k - 1 \in P
          PROVE  k \in P
        <3>1. iter[1 .. k - 1] \in Dump /\ s[k] \in Line /\ k \in 0 .. n
              BY <1>1, <2>2
        <3> QED BY <1>8, <3>1, LineRead
    <2> HIDE DEF P
    <2>3. \A k \in 0 .. n : k \in P
          BY <1>1, <2>1, <2>2, RunInduction
    <2> QED BY <2>3 DEF P
<1>11. IsReading(h, d, s, iter[1 .. n])
    <2>1. h \in [0 .. n -> Dump] /\ h[0] = d /\ h[n] = iter[1 .. n]
          BY <1>1, <1>9, <1>10
    <2>2. ASSUME NEW p \in 1 .. n
          PROVE  h[p] = ReadLine(h[p - 1], s[p])
        <3>1. p \in 0 .. n /\ p - 1 \in 0 .. n
              BY <1>1
        <3>2. h[p] = iter[1 .. p] /\ h[p - 1] = iter[1 .. p - 1]
              BY <3>1
        <3> QED BY <1>8, <3>2
    <2> HIDE DEF h
    <2> QED BY <2>1, <2>2 DEF IsReading, n
<1> QED BY <1>2, <1>11 DEF Reads

(* A run over two lists is a run over the first and one over the second.   *)
LEMMA ReadsApart ==
    ASSUME NEW d, NEW e, NEW s \in Seq(Line), NEW t \in Seq(Line), Reads(d, s \o t, e)
    PROVE  \E m \in Dump : Reads(d, s, m) /\ Reads(m, t, e)
<1> DEFINE a == Len(s)
           b == Len(t)
           u == s \o t
<1>1. a \in Nat /\ b \in Nat /\ Len(u) = a + b
      /\ \A p \in 1 .. a + b : u[p] = IF p <= a THEN s[p] ELSE t[p - a]
      BY ConcatProperties
<1>2. PICK g : IsReading(g, d, u, e)
      BY DEF Reads
<1> HIDE DEF a, b, u
<1>3. /\ g \in [0 .. a + b -> Dump] /\ g[0] = d /\ g[a + b] = e
      /\ \A p \in 1 .. a + b : g[p] = ReadLine(g[p - 1], u[p])
      BY <1>1, <1>2 DEF IsReading
<1> DEFINE x == [p \in 0 .. a |-> g[p]]
           y == [p \in 0 .. b |-> g[a + p]]
<1>4. IsReading(x, d, s, g[a])
    <2>1. x \in [0 .. a -> Dump] /\ x[0] = d /\ x[a] = g[a]
          BY <1>1, <1>3
    <2>2. ASSUME NEW p \in 1 .. a
          PROVE  x[p] = ReadLine(x[p - 1], s[p])
        <3>1. p \in 1 .. a + b /\ p \in 0 .. a /\ p - 1 \in 0 .. a /\ p <= a
              BY <1>1
        <3>2. x[p] = g[p] /\ x[p - 1] = g[p - 1] /\ u[p] = s[p]
              BY <1>1, <3>1
        <3> HIDE DEF x
        <3> QED BY <1>3, <3>1, <3>2
    <2> HIDE DEF x
    <2> QED BY <2>1, <2>2 DEF IsReading, a
<1>5. IsReading(y, g[a], t, e)
    <2>1. y \in [0 .. b -> Dump] /\ y[0] = g[a] /\ y[b] = e
          BY <1>1, <1>3
    <2>2. ASSUME NEW p \in 1 .. b
          PROVE  y[p] = ReadLine(y[p - 1], t[p])
        <3> DEFINE q == a + p
        <3>1. q \in 1 .. a + b /\ ~ (q <= a) /\ q - a = p /\ q - 1 = a + (p - 1)
              /\ p \in 0 .. b /\ p - 1 \in 0 .. b
              BY <1>1
        <3>2. y[p] = g[q] /\ y[p - 1] = g[q - 1]
              BY <3>1
        <3> HIDE DEF q, y
        <3>3. u[q] = t[p]
              BY <1>1, <3>1
        <3> QED BY <1>3, <3>1, <3>2, <3>3
    <2> HIDE DEF y
    <2> QED BY <2>1, <2>2 DEF IsReading, b
<1>6. g[a] \in Dump
      BY <1>1, <1>3
<1> QED BY <1>4, <1>5, <1>6 DEF Reads

(* A list of lines of one kind.                                            *)
LEMMA TagIs ==
    ASSUME NEW S, NEW s \in Seq(S), NEW k
    PROVE  /\ Len(s) \in Nat /\ Len(Tag(k, s)) = Len(s) /\ DOMAIN s = 1 .. Len(s)
           /\ \A i \in 1 .. Len(s) : s[i] \in S /\ Tag(k, s)[i].kind = k /\ Tag(k, s)[i].of = s[i]
           /\ Tag(k, s) \in Seq([kind : {k}, of : S])
<1>1. Len(s) \in Nat /\ DOMAIN s = 1 .. Len(s) /\ \A i \in 1 .. Len(s) : s[i] \in S
      OBVIOUS
<1>2. Tag(k, s) \in [1 .. Len(s) -> [kind : {k}, of : S]]
      BY <1>1 DEF Tag
<1>3. Tag(k, s) \in Seq([kind : {k}, of : S]) /\ Len(Tag(k, s)) = Len(s)
      BY <1>1, <1>2, FunctionIsSeq
<1>4. \A i \in 1 .. Len(s) : Tag(k, s)[i].kind = k /\ Tag(k, s)[i].of = s[i]
      BY <1>1 DEF Tag
<1> QED BY <1>1, <1>3, <1>4

(* After the directories of a unit the reader has the last of them and the *)
(* rows it had.                                                            *)
LEMMA DirsRead ==
    ASSUME NEW d \in Dump, NEW e, NEW dirs \in Seq(STRING), Reads(d, Tag("dir", dirs), e)
    PROVE  /\ e \in Dump /\ e.entries = d.entries
           /\ dirs # <<>> => e.dir = Last(dirs)
<1> DEFINE n == Len(dirs)
           s == Tag("dir", dirs)
<1>1. /\ n \in Nat /\ Len(s) = n /\ s \in Seq(Line)
      /\ \A i \in 1 .. n : s[i] \in Line /\ s[i].kind = "dir" /\ s[i].of = dirs[i]
    <2>1. s \in Seq([kind : {"dir"}, of : STRING])
          BY TagIs
    <2>2. [kind : {"dir"}, of : STRING] \subseteq Line
          BY DEF Line
    <2>3. s \in Seq(Line)
          BY <2>1, <2>2, SeqWider
    <2>4. n \in Nat /\ Len(s) = n
        <3>1. DOMAIN s = 1 .. n
              BY DEF Tag
        <3> HIDE DEF s
        <3> QED BY <2>1, <3>1
    <2>5. \A i \in 1 .. n : s[i].kind = "dir" /\ s[i].of = dirs[i]
          BY DEF Tag
    <2> HIDE DEF s, n
    <2>6. \A i \in 1 .. n : s[i] \in Line
          BY <2>3, <2>4
    <2> QED BY <2>3, <2>4, <2>5, <2>6
<1>2. PICK g : IsReading(g, d, s, e)
      BY DEF Reads
<1> HIDE DEF n, s
<1>3. /\ g \in [0 .. n -> Dump] /\ g[0] = d /\ g[n] = e
      /\ \A p \in 1 .. n : g[p] = ReadLine(g[p - 1], s[p])
      BY <1>1, <1>2 DEF IsReading
<1>4. ASSUME NEW p \in 1 .. n
      PROVE  g[p - 1] \in Dump /\ g[p] = [g[p - 1] EXCEPT !.dir = dirs[p]]
    <2> DEFINE x == g[p - 1]
               l == s[p]
    <2>1. x \in Dump /\ g[p] = ReadLine(x, l)
          BY <1>1, <1>3
    <2>2. l \in Line /\ l.kind = "dir" /\ l.of = dirs[p]
          BY <1>1
    <2> HIDE DEF x, l
    <2>3. g[p] = [x EXCEPT !.dir = dirs[p]]
          BY <2>1, <2>2, LineRead
    <2> QED BY <2>1, <2>3 DEF x
<1> DEFINE P == {p \in 0 .. n : g[p].entries = d.entries}
<1>5. \A p \in 0 .. n : p \in P
    <2>1. 0 \in P
          BY <1>1, <1>3
    <2>2. ASSUME NEW p \in 1 .. n, p - 1 \in P
          PROVE  p \in P
        <3>1. g[p].entries = g[p - 1].entries
              BY <1>4 DEF Dump
        <3> QED BY <2>2, <3>1
    <2> HIDE DEF P
    <2> QED BY <1>1, <2>1, <2>2, RunInduction
<1>6. ASSUME dirs # <<>>
      PROVE  e.dir = Last(dirs)
    <2>1. n \in 1 .. n
          BY <1>1, <1>6 DEF n
    <2> QED BY <1>3, <1>4, <2>1 DEF Dump, Last, n
<1> QED BY <1>1, <1>3, <1>5, <1>6

(* After the file entries it has the name of the last.                     *)
LEMMA FilesRead ==
    ASSUME NEW d \in Dump, NEW e, NEW files \in Seq(STRING \X STRING),
           Reads(d, Tag("file", files), e)
    PROVE  /\ e \in Dump /\ e.entries = d.entries /\ e.dir = d.dir
           /\ files # <<>> => e.name = Last(files)[2]
<1> DEFINE n == Len(files)
           s == Tag("file", files)
<1>1. /\ n \in Nat /\ Len(s) = n /\ s \in Seq(Line)
      /\ \A i \in 1 .. n : s[i] \in Line /\ s[i].kind = "file" /\ s[i].of = files[i]
    <2>1. s \in Seq([kind : {"file"}, of : STRING \X STRING])
          BY TagIs
    <2>2. [kind : {"file"}, of : STRING \X STRING] \subseteq Line
          BY DEF Line
    <2>3. s \in Seq(Line)
          BY <2>1, <2>2, SeqWider
    <2>4. n \in Nat /\ Len(s) = n
        <3>1. DOMAIN s = 1 .. n
              BY DEF Tag
        <3> HIDE DEF s
        <3> QED BY <2>1, <3>1
    <2>5. \A i \in 1 .. n : s[i].kind = "file" /\ s[i].of = files[i]
          BY DEF Tag
    <2> HIDE DEF s, n
    <2>6. \A i \in 1 .. n : s[i] \in Line
          BY <2>3, <2>4
    <2> QED BY <2>3, <2>4, <2>5, <2>6
<1>2. PICK g : IsReading(g, d, s, e)
      BY DEF Reads
<1> HIDE DEF n, s
<1>3. /\ g \in [0 .. n -> Dump] /\ g[0] = d /\ g[n] = e
      /\ \A p \in 1 .. n : g[p] = ReadLine(g[p - 1], s[p])
      BY <1>1, <1>2 DEF IsReading
<1>4. ASSUME NEW p \in 1 .. n
      PROVE  g[p - 1] \in Dump /\ g[p] = [g[p - 1] EXCEPT !.name = files[p][2]]
    <2> DEFINE x == g[p - 1]
               l == s[p]
    <2>1. x \in Dump /\ g[p] = ReadLine(x, l)
          BY <1>1, <1>3
    <2>2. l \in Line /\ l.kind = "file" /\ l.of = files[p]
          BY <1>1
    <2> HIDE DEF x, l
    <2>3. g[p] = [x EXCEPT !.name = files[p][2]]
          BY <2>1, <2>2, LineRead
    <2> QED BY <2>1, <2>3 DEF x
<1> DEFINE P == {p \in 0 .. n : g[p].entries = d.entries /\ g[p].dir = d.dir}
<1>5. \A p \in 0 .. n : p \in P
    <2>1. 0 \in P
          BY <1>1, <1>3
    <2>2. ASSUME NEW p \in 1 .. n, p - 1 \in P
          PROVE  p \in P
        <3>1. g[p].entries = g[p - 1].entries /\ g[p].dir = g[p - 1].dir
              BY <1>4 DEF Dump
        <3> QED BY <2>2, <3>1
    <2> HIDE DEF P
    <2> QED BY <1>1, <2>1, <2>2, RunInduction
<1>6. ASSUME files # <<>>
      PROVE  e.name = Last(files)[2]
    <2>1. n \in 1 .. n
          BY <1>1, <1>6 DEF n
    <2> QED BY <1>3, <1>4, <2>1 DEF Dump, Last, n
<1> QED BY <1>1, <1>3, <1>5, <1>6

\* The table new is old and a row of file for each of rows.
Added(old, new, rows, file) ==
    /\ \A x \in new : x \in old \/ \E k \in DOMAIN rows : x = Printed(rows[k], file)
    /\ \A x \in old : x \in new
    /\ \A k \in DOMAIN rows : Printed(rows[k], file) \in new

(* After the rows of a unit it has them too, all of the file of the last   *)
(* file entry.                                                             *)
LEMMA RowsRead ==
    ASSUME NEW d \in Dump, NEW e, NEW rows \in Seq(LineRow), Reads(d, Tag("row", rows), e)
    PROVE  e \in Dump /\ Added(Range(d.entries), Range(e.entries), rows, FileOf(d))
<1> DEFINE n == Len(rows)
           s == Tag("row", rows)
           file == FileOf(d)
<1>1. /\ n \in Nat /\ Len(s) = n /\ s \in Seq(Line) /\ DOMAIN rows = 1 .. n
      /\ \A i \in 1 .. n : s[i] \in Line /\ s[i].kind = "row" /\ s[i].of = rows[i]
    <2>1. s \in Seq([kind : {"row"}, of : LineRow])
          BY TagIs
    <2>2. [kind : {"row"}, of : LineRow] \subseteq Line
          BY DEF Line
    <2>3. s \in Seq(Line)
          BY <2>1, <2>2, SeqWider
    <2>4. n \in Nat /\ Len(s) = n /\ DOMAIN rows = 1 .. n
        <3>1. DOMAIN s = 1 .. n /\ DOMAIN rows = 1 .. n
              BY DEF Tag
        <3> HIDE DEF s
        <3> QED BY <2>1, <3>1
    <2>5. \A i \in 1 .. n : s[i].kind = "row" /\ s[i].of = rows[i]
          BY DEF Tag
    <2> HIDE DEF s, n
    <2>6. \A i \in 1 .. n : s[i] \in Line
          BY <2>3, <2>4
    <2> QED BY <2>3, <2>4, <2>5, <2>6
<1>2. PICK g : IsReading(g, d, s, e)
      BY DEF Reads
<1> HIDE DEF n, s
<1>3. /\ g \in [0 .. n -> Dump] /\ g[0] = d /\ g[n] = e
      /\ \A p \in 1 .. n : g[p] = ReadLine(g[p - 1], s[p])
      BY <1>1, <1>2 DEF IsReading
<1>4. ASSUME NEW p \in 1 .. n
      PROVE  /\ g[p].dir = g[p - 1].dir /\ g[p].name = g[p - 1].name
             /\ Range(g[p].entries) = Range(g[p - 1].entries) \cup {Printed(rows[p], FileOf(g[p - 1]))}
    <2> DEFINE x == g[p - 1]
               l == s[p]
               y == Printed(rows[p], FileOf(x))
    <2>1. x \in Dump /\ g[p] = ReadLine(x, l)
          BY <1>1, <1>3
    <2>2. l \in Line /\ l.kind = "row" /\ l.of = rows[p]
          BY <1>1
    <2> HIDE DEF x, l
    <2>3. g[p] = [x EXCEPT !.entries = Append(x.entries, y)]
          BY <2>1, <2>2, LineRead
    <2>4. x.entries \in Seq(TableRow) /\ y \in TableRow
        <3>1. x.entries \in Seq(TableRow) /\ x.dir \in Names /\ x.name \in Names
              BY <2>1 DEF Dump
        <3>2. FileOf(x) \in Paths
            <4>1. Unknown \in Paths
                  BY DEF Names, Unknown, Paths
            <4> QED BY <3>1, <4>1 DEF FileOf, Paths
        <3>3. rows[p] \in LineRow
              BY <1>1
        <3> QED BY <3>1, <3>2, <3>3 DEF Printed, LineRow, TableRow
    <2> HIDE DEF y
    <2>5. Range(Append(x.entries, y)) = Range(x.entries) \cup {y}
          BY <2>4, AppendRange
    <2>6. g[p].dir = x.dir /\ g[p].name = x.name /\ g[p].entries = Append(x.entries, y)
          BY <2>1, <2>3 DEF Dump
    <2> QED BY <2>5, <2>6 DEF x, y
<1> DEFINE P == {p \in 0 .. n :
                   /\ g[p].dir = d.dir /\ g[p].name = d.name
                   /\ \A x \in Range(g[p].entries) :
                        x \in Range(d.entries) \/ \E k \in 1 .. n : x = Printed(rows[k], file)
                   /\ \A x \in Range(d.entries) : x \in Range(g[p].entries)
                   /\ \A k \in 1 .. p : Printed(rows[k], file) \in Range(g[p].entries)}
<1>5. \A p \in 0 .. n : p \in P
    <2>1. 0 \in P
          BY <1>1, <1>3
    <2>2. ASSUME NEW p \in 1 .. n, p - 1 \in P
          PROVE  p \in P
        <3>1. FileOf(g[p - 1]) = file
              BY <2>2 DEF FileOf
        <3>2. /\ g[p].dir = d.dir /\ g[p].name = d.name
              /\ Range(g[p].entries) = Range(g[p - 1].entries) \cup {Printed(rows[p], file)}
              BY <1>4, <2>2, <3>1
        <3>3. p \in 0 .. n /\ \A k \in 1 .. p : k \in 1 .. p - 1 \/ k = p
              BY <1>1
        <3> HIDE DEF file
        <3>4. \A x \in Range(g[p].entries) :
                 x \in Range(d.entries) \/ \E k \in 1 .. n : x = Printed(rows[k], file)
              BY <2>2, <3>2
        <3>5. \A x \in Range(d.entries) : x \in Range(g[p].entries)
              BY <2>2, <3>2
        <3>6. \A k \in 1 .. p : Printed(rows[k], file) \in Range(g[p].entries)
              BY <2>2, <3>2, <3>3
        <3> QED BY <3>2, <3>3, <3>4, <3>5, <3>6
    <2> HIDE DEF P
    <2> QED BY <1>1, <2>1, <2>2, RunInduction
<1>6. n \in P /\ g[n] = e /\ e \in Dump
      BY <1>1, <1>3, <1>5
<1> QED BY <1>1, <1>6 DEF Added

(* The lines of a unit.                                                    *)
LEMMA UnitLines ==
    ASSUME NEW u \in LineUnit
    PROVE  /\ Tag("dir", u.dirs) \in Seq(Line) /\ Tag("file", u.files) \in Seq(Line)
           /\ Tag("row", u.rows) \in Seq(Line)
           /\ DumpOf(u) = (Tag("dir", u.dirs) \o Tag("file", u.files)) \o Tag("row", u.rows)
           /\ DumpOf(u) \in Seq(Line)
<1> DEFINE r == Tag("dir", u.dirs)
           s == Tag("file", u.files)
           t == Tag("row", u.rows)
<1>1. u.dirs \in Seq(STRING) /\ u.files \in Seq(STRING \X STRING) /\ u.rows \in Seq(LineRow)
      BY DEF LineUnit
<1>2. r \in Seq(Line) /\ s \in Seq(Line) /\ t \in Seq(Line)
    <2>1. /\ r \in Seq([kind : {"dir"}, of : STRING])
          /\ s \in Seq([kind : {"file"}, of : STRING \X STRING])
          /\ t \in Seq([kind : {"row"}, of : LineRow])
          BY <1>1, TagIs
    <2>2. /\ [kind : {"dir"}, of : STRING] \subseteq Line
          /\ [kind : {"file"}, of : STRING \X STRING] \subseteq Line
          /\ [kind : {"row"}, of : LineRow] \subseteq Line
          BY DEF Line
    <2> HIDE DEF r, s, t
    <2>3. r \in Seq(Line)
          BY <2>1, <2>2, SeqWider
    <2>4. s \in Seq(Line)
          BY <2>1, <2>2, SeqWider
    <2>5. t \in Seq(Line)
          BY <2>1, <2>2, SeqWider
    <2> QED BY <2>3, <2>4, <2>5
<1>3. DumpOf(u) = (r \o s) \o t
      BY DEF DumpOf, Tag
<1> HIDE DEF r, s, t
<1>4. (r \o s) \o t \in Seq(Line)
      BY <1>2
<1> QED BY <1>2, <1>3, <1>4 DEF r, s, t

(* A whole unit: if all of it is one file, that is the file of its rows.   *)
LEMMA UnitRead ==
    ASSUME NEW d \in Dump, NEW e, NEW u \in LineUnit, Reads(d, DumpOf(u), e)
    PROVE  /\ e \in Dump
           /\ \E file \in Paths : /\ Added(Range(d.entries), Range(e.entries), u.rows, file)
                                  /\ DumpedAlike(u) => file = u.files[1]
<1> DEFINE r == Tag("dir", u.dirs)
           s == Tag("file", u.files)
           t == Tag("row", u.rows)
<1>1. u.dirs \in Seq(STRING) /\ u.files \in Seq(STRING \X STRING) /\ u.rows \in Seq(LineRow)
      BY DEF LineUnit
<1>2. r \in Seq(Line) /\ s \in Seq(Line) /\ t \in Seq(Line) /\ DumpOf(u) = (r \o s) \o t
      BY UnitLines
<1> HIDE DEF r, s, t
<1>4. PICK b \in Dump : Reads(d, r \o s, b) /\ Reads(b, t, e)
    <2>1. r \o s \in Seq(Line)
          BY <1>2
    <2>2. Reads(d, (r \o s) \o t, e)
          BY <1>2
    <2> QED BY <1>2, <2>1, <2>2, ReadsApart
<1>5. PICK a \in Dump : Reads(d, r, a) /\ Reads(a, s, b)
      BY <1>2, <1>4, ReadsApart
<1>6. a.entries = d.entries /\ (u.dirs # <<>> => a.dir = Last(u.dirs))
      BY <1>1, <1>5, DirsRead DEF r
<1>7. b.entries = a.entries /\ b.dir = a.dir /\ (u.files # <<>> => b.name = Last(u.files)[2])
      BY <1>1, <1>4, <1>5, FilesRead DEF s
<1>8. e \in Dump /\ Added(Range(b.entries), Range(e.entries), u.rows, FileOf(b))
      BY <1>1, <1>4, RowsRead DEF t
<1>9. FileOf(b) \in Paths
    <2>1. Unknown \in Paths
          BY DEF Names, Unknown, Paths
    <2> QED BY <2>1 DEF FileOf, Paths, Dump
<1>10. ASSUME DumpedAlike(u)
       PROVE  FileOf(b) = u.files[1]
    <2> DEFINE files == u.files
               one == <<Last(u.dirs), files[1][2]>>
               n == Len(files)
    <2>1. u.dirs # <<>> /\ files # <<>> /\ one[2] # Unknown[2] /\ \A f \in Range(files) : f = one
          BY <1>10 DEF DumpedAlike
    <2>2. n \in 1 .. n /\ 1 \in 1 .. n /\ DOMAIN files = 1 .. n /\ Last(files) = files[n]
        <3>1. n \in Nat /\ n # 0 /\ DOMAIN files = 1 .. n
              BY <1>1, <2>1
        <3> QED BY <3>1 DEF Last
    <2>3. files[1] \in Range(files) /\ files[n] \in Range(files)
          BY <2>2 DEF Range
    <2>4. files[1] = one /\ Last(files) = one
          BY <2>1, <2>2, <2>3
    <2>5. b.name = one[2] /\ b.dir = one[1]
          BY <1>6, <1>7, <2>1, <2>4
    <2> QED BY <2>1, <2>4, <2>5 DEF FileOf
<1> QED BY <1>6, <1>7, <1>8, <1>9, <1>10

\* A set of table rows has all of unit u, of that file.
UnitListed(u, rows, file) ==
    /\ DumpedAlike(u) => file = u.files[1]
    /\ \A k \in DOMAIN u.rows : Printed(u.rows[k], file) \in rows

\* It has the first n of the units, each of some file, and nothing else.
Listed(units, rows, n) ==
    /\ \A i \in 1 .. n : \E file \in Paths : UnitListed(units[i], rows, file)
    /\ \A x \in rows : \E i \in 1 .. n : \E file \in Paths :
         /\ UnitListed(units[i], rows, file)
         /\ \E k \in DOMAIN units[i].rows : x = Printed(units[i].rows[k], file)

(* One more unit.                                                          *)
LEMMA ListedOn ==
    ASSUME NEW units, NEW n \in Nat \ {0}, NEW old, NEW new, Listed(units, old, n - 1),
           NEW file \in Paths, Added(old, new, units[n].rows, file),
           DumpedAlike(units[n]) => file = units[n].files[1]
    PROVE  Listed(units, new, n)
<1>1. \A x \in old : x \in new
      BY DEF Added
<1>2. UnitListed(units[n], new, file)
      BY DEF Added, UnitListed
<1>3. n \in 1 .. n /\ \A i \in 1 .. n - 1 : i \in 1 .. n
      OBVIOUS
<1>4. \A i \in 1 .. n : i = n \/ i \in 1 .. n - 1
      OBVIOUS
<1>5. \A u, f : UnitListed(u, old, f) => UnitListed(u, new, f)
      BY <1>1 DEF UnitListed
<1>6. ASSUME NEW i \in 1 .. n
      PROVE  \E f \in Paths : UnitListed(units[i], new, f)
    <2>1. CASE i = n
          BY <1>2, <2>1
    <2>2. CASE i \in 1 .. n - 1
          BY <1>5, <2>2 DEF Listed
    <2> QED BY <1>4, <2>1, <2>2
<1>7. ASSUME NEW x \in new
      PROVE  \E i \in 1 .. n : \E f \in Paths :
                /\ UnitListed(units[i], new, f)
                /\ \E k \in DOMAIN units[i].rows : x = Printed(units[i].rows[k], f)
    <2>1. CASE x \in old
        <3>1. PICK i \in 1 .. n - 1 : \E f \in Paths :
                /\ UnitListed(units[i], old, f)
                /\ \E k \in DOMAIN units[i].rows : x = Printed(units[i].rows[k], f)
              BY <2>1 DEF Listed
        <3> QED BY <1>3, <1>5, <3>1
    <2>2. CASE \E k \in DOMAIN units[n].rows : x = Printed(units[n].rows[k], file)
          BY <1>2, <1>3, <2>2
    <2> QED BY <2>1, <2>2 DEF Added
<1> QED BY <1>6, <1>7 DEF Listed

(* The output of a dwarfdump that ran to its end.                          *)
LEMMA DumpRead ==
    ASSUME NEW img \in Images
    PROVE  /\ ReadLines(DumpLines(img)) \in Seq(TableRow)
           /\ Listed(img.units, Range(ReadLines(DumpLines(img))), Len(img.units))
<1> DEFINE units == img.units
           n == Len(units)
           seqs == [i \in DOMAIN units |-> DumpOf(units[i])]
           d == [dir |-> "", name |-> Unknown[2], entries |-> <<>>]
<1>1. n \in Nat /\ DOMAIN units = 1 .. n /\ \A i \in 1 .. n : units[i] \in LineUnit
      BY LineLoadAssumption
<1>2. seqs \in Seq(Seq(Line)) /\ Len(seqs) = n /\ \A i \in 1 .. n : seqs[i] = DumpOf(units[i])
    <2>1. \A i \in 1 .. n : DumpOf(units[i]) \in Seq(Line)
          BY <1>1, UnitLines
    <2>2. seqs \in [1 .. n -> Seq(Line)]
          BY <1>1, <2>1
    <2>3. \A i \in 1 .. n : seqs[i] = DumpOf(units[i])
          BY <1>1
    <2> HIDE DEF seqs, n
    <2> QED BY <1>1, <2>2, <2>3, FunctionIsSeq
<1>3. DumpLines(img) = FlattenSeq(seqs)
      BY DEF DumpLines
<1> HIDE DEF seqs, n, units
<1>4. PICK h \in [0 .. n -> Seq(Line)] :
             /\ h[0] = <<>> /\ FlattenSeq(seqs) = h[n]
             /\ \A i \in 1 .. n : h[i] = h[i - 1] \o seqs[i]
      BY <1>2, FlatRun
<1>5. d \in Dump /\ Range(d.entries) = {} /\ d.entries = <<>>
      BY DEF Dump, Names, Range
<1>50. ReadLines(DumpLines(img)) = FoldLeft(ReadLine, d, h[n]).entries
      BY <1>3, <1>4 DEF ReadLines
<1> HIDE DEF d
<1> DEFINE P == {i \in 0 .. n : \A e : Reads(d, h[i], e) =>
                    e \in Dump /\ Listed(units, Range(e.entries), i)}
<1>6. 0 \in P
    <2> SUFFICES ASSUME NEW e, Reads(d, h[0], e)
                 PROVE  e \in Dump /\ Listed(units, Range(e.entries), 0)
        BY <1>1
    <2>1. e = d
          BY <1>4 DEF Reads, IsReading
    <2> QED BY <1>5, <2>1 DEF Listed
<1>7. ASSUME NEW i \in 1 .. n, i - 1 \in P
      PROVE  i \in P
    <2> SUFFICES ASSUME NEW e, Reads(d, h[i], e)
                 PROVE  e \in Dump /\ Listed(units, Range(e.entries), i)
        BY <1>1
    <2>1. h[i - 1] \in Seq(Line) /\ seqs[i] \in Seq(Line) /\ seqs[i] = DumpOf(units[i])
          BY <1>1, <1>2, <1>4
    <2>2. h[i] = h[i - 1] \o seqs[i]
          BY <1>4
    <2>3. PICK m \in Dump : Reads(d, h[i - 1], m) /\ Reads(m, seqs[i], e)
          BY <2>1, <2>2, ReadsApart
    <2>4. Listed(units, Range(m.entries), i - 1)
          BY <1>7, <2>3
    <2>5. /\ e \in Dump
          /\ \E file \in Paths : /\ Added(Range(m.entries), Range(e.entries), units[i].rows, file)
                                 /\ DumpedAlike(units[i]) => file = units[i].files[1]
          BY <1>1, <2>1, <2>3, UnitRead
    <2>6. PICK file \in Paths : /\ Added(Range(m.entries), Range(e.entries), units[i].rows, file)
                                /\ DumpedAlike(units[i]) => file = units[i].files[1]
          BY <2>5
    <2>7. i \in Nat \ {0}
          BY <1>1
    <2>8. Listed(units, Range(e.entries), i)
          BY <2>4, <2>6, <2>7, ListedOn
    <2> QED BY <2>5, <2>8
<1> HIDE DEF P
<1>8. \A i \in 0 .. n : i \in P
      BY <1>1, <1>6, <1>7, RunInduction
<1>9. h[n] \in Seq(Line) /\ n \in P
      BY <1>1, <1>4, <1>8
<1> DEFINE e == FoldLeft(ReadLine, d, h[n])
<1>10. Reads(d, h[n], e)
       BY <1>5, <1>9, FoldReads
<1>11. ReadLines(DumpLines(img)) = e.entries
       BY <1>50, Zenon
<1> HIDE DEF e
<1>12. e \in Dump /\ Listed(units, Range(e.entries), n)
       BY <1>9, <1>10, Zenon DEF P
<1> QED BY <1>11, <1>12 DEF Dump, units, n

(* A dwarfdump that succeeded ran to its end.                              *)
LEMMA DumpLoaded ==
    ASSUME image \in Images, LoadDump, source' = "dwarfdump"
    PROVE  entries' = ReadLines(DumpLines(image))
<1> DEFINE l == DumpLines(image)
           d == [dir |-> "", name |-> Unknown[2], entries |-> <<>>]
<1>1. l \in Seq(Line)
    <2> DEFINE n == Len(image.units)
               seqs == [i \in DOMAIN image.units |-> DumpOf(image.units[i])]
    <2>1. n \in Nat /\ DOMAIN image.units = 1 .. n /\ \A i \in 1 .. n : image.units[i] \in LineUnit
          BY LineLoadAssumption
    <2>2. \A i \in 1 .. n : DumpOf(image.units[i]) \in Seq(Line)
          BY <2>1, UnitLines
    <2>3. seqs \in [1 .. n -> Seq(Line)]
          BY <2>1, <2>2
    <2>4. l = FlattenSeq(seqs)
          BY DEF DumpLines
    <2> HIDE DEF seqs, n, l
    <2>5. seqs \in Seq(Seq(Line)) /\ Len(seqs) = n
          BY <2>1, <2>3, FunctionIsSeq
    <2>6. \E h \in [0 .. n -> Seq(Line)] : FlattenSeq(seqs) = h[n]
          BY <2>5, FlatRun
    <2> QED BY <2>1, <2>4, <2>6
<1>2. PICK n \in 0 .. Len(l), ok \in BOOLEAN :
         /\ ok => n \in {0, Len(l)}
         /\ LET rows == ReadLines(SubSeq(l, 1, n))
            IN  IF ok /\ rows # <<>>
                THEN source' = "dwarfdump" /\ entries' = rows
                ELSE source' = "program" /\ entries' = <<>>
      BY DEF LoadDump
<1> HIDE DEF l
<1>3. /\ n \in {0, Len(l)} /\ ReadLines(SubSeq(l, 1, n)) # <<>>
      /\ entries' = ReadLines(SubSeq(l, 1, n))
      BY <1>2
<1>4. SubSeq(l, 1, Len(l)) = l
      BY <1>1
<1>5. ReadLines(SubSeq(l, 1, 0)) = <<>>
    <2>1. SubSeq(l, 1, 0) = <<>> /\ <<>> \in Seq(Line)
          BY <1>1
    <2>2. d \in Dump /\ d.entries = <<>>
          BY DEF Dump, Names
    <2>3. ReadLines(<<>>) = FoldLeft(ReadLine, d, <<>>).entries
          BY DEF ReadLines
    <2> DEFINE e == FoldLeft(ReadLine, d, <<>>)
    <2> HIDE DEF d
    <2>4. Reads(d, <<>>, e)
          BY <2>1, <2>2, FoldReads
    <2> HIDE DEF e
    <2>5. e = d
          BY <2>4 DEF Reads, IsReading
    <2> QED BY <2>1, <2>2, <2>3, <2>5 DEF e
<1> QED BY <1>3, <1>4, <1>5 DEF l

-----------------------------------------------------------------------------
(* What a table tells.  TableIs holds of the table of either reader, and   *)
(* is all that the lookups need.  all: it is the reader of dwarfdump's     *)
(* output, which keeps every row.                                          *)

RowOf(img, i, k) == img.units[i].rows[k]
IsRow(img, i, k) == i \in DOMAIN img.units /\ k \in DOMAIN img.units[i].rows

\* All of u is one file to the reader.
Single(u, all) == DumpedAlike(u) /\ (all \/ ReadAlike(u))

\* x is the k-th row of unit i, with its file too if the unit has only one.
Shows(x, img, i, k, all) ==
    /\ x.address = RowOf(img, i, k).address
    /\ x.line = RowOf(img, i, k).line
    /\ Single(img.units[i], all) => x.file = img.units[i].files[1]

\* Where it ends a sequence, the row before is there too, of its line and file.
Ends(img, i, k) == RowOf(img, i, k).end /\ k > 1 /\ ~ RowOf(img, i, k - 1).end
ShowsWell(x, img, i, k, rows, all) ==
    /\ Shows(x, img, i, k, all)
    /\ Ends(img, i, k) =>
         \E y \in rows : Shows(y, img, i, k - 1, all) /\ y.line = x.line /\ y.file = x.file

Kept(img, i, k, all) == all \/ Keeps(img.units[i], RowOf(img, i, k))

\* The rows are those of the image that are kept; besides them only rows at
\* address 0.
TableIs(img, tab, all) ==
    /\ tab \in Seq(TableRow)
    /\ \A x \in Range(tab) :
         x.address = 0 \/ \E i, k : IsRow(img, i, k) /\ ShowsWell(x, img, i, k, Range(tab), all)
    /\ \A i, k : IsRow(img, i, k) /\ Kept(img, i, k, all) =>
                    \E x \in Range(tab) : Shows(x, img, i, k, all)

(* Where a sequence ends there is a row before, of the same line and file. *)
LEMMA BeforeEnd ==
    ASSUME NEW img \in Images, NEW i, NEW k, IsRow(img, i, k), Ends(img, i, k)
    PROVE  /\ IsRow(img, i, k - 1)
           /\ RowOf(img, i, k).line = RowOf(img, i, k - 1).line
           /\ RowOf(img, i, k).file = RowOf(img, i, k - 1).file
<1> DEFINE rows == img.units[i].rows
<1>1. i \in DOMAIN img.units /\ k \in DOMAIN rows
      BY DEF IsRow
<1>2. rows \in Seq(LineRow) /\ EndRepeats(rows, k)
      BY <1>1, UnitFacts
<1>3. k - 1 \in DOMAIN rows
    <2>1. Len(rows) \in Nat /\ DOMAIN rows = 1 .. Len(rows)
          BY <1>2
    <2> QED BY <1>1, <2>1 DEF Ends
<1>4. rows[k].end /\ k > 1 /\ ~ rows[k - 1].end
      BY DEF Ends, RowOf
<1> QED BY <1>1, <1>2, <1>3, <1>4 DEF EndRepeats, IsRow, RowOf

(* The table of dwarfdump.                                                 *)
LEMMA DumpTells ==
    ASSUME NEW img \in Images, NEW tab \in Seq(TableRow),
           Listed(img.units, Range(tab), Len(img.units))
    PROVE  TableIs(img, tab, TRUE)
<1>1. DOMAIN img.units = 1 .. Len(img.units)
      BY LineLoadAssumption
<1>2. ASSUME NEW i \in DOMAIN img.units, NEW k \in DOMAIN img.units[i].rows, NEW file,
             UnitListed(img.units[i], Range(tab), file)
      PROVE  /\ Printed(RowOf(img, i, k), file) \in Range(tab)
             /\ Shows(Printed(RowOf(img, i, k), file), img, i, k, TRUE)
      BY <1>2 DEF UnitListed, Printed, Shows, RowOf, Single
<1>3. ASSUME NEW x \in Range(tab)
      PROVE  \E i, k : IsRow(img, i, k) /\ ShowsWell(x, img, i, k, Range(tab), TRUE)
    <2>1. PICK i \in DOMAIN img.units : \E file \in Paths :
                 /\ UnitListed(img.units[i], Range(tab), file)
                 /\ \E k \in DOMAIN img.units[i].rows : x = Printed(img.units[i].rows[k], file)
          BY <1>1, <1>3 DEF Listed
    <2>2. PICK file \in Paths, k \in DOMAIN img.units[i].rows :
                 UnitListed(img.units[i], Range(tab), file) /\ x = Printed(RowOf(img, i, k), file)
          BY <2>1 DEF RowOf
    <2>3. Shows(x, img, i, k, TRUE) /\ IsRow(img, i, k)
          BY <1>2, <2>2 DEF IsRow
    <2>4. ASSUME Ends(img, i, k)
          PROVE  \E y \in Range(tab) : Shows(y, img, i, k - 1, TRUE) /\ y.line = x.line /\ y.file = x.file
        <3> DEFINE y == Printed(RowOf(img, i, k - 1), file)
        <3>1. k - 1 \in DOMAIN img.units[i].rows /\ RowOf(img, i, k).line = RowOf(img, i, k - 1).line
              BY <2>3, <2>4, BeforeEnd DEF IsRow
        <3>2. y \in Range(tab) /\ Shows(y, img, i, k - 1, TRUE)
              BY <1>2, <2>2, <3>1
        <3>3. y.line = x.line /\ y.file = x.file
              BY <2>2, <3>1 DEF Printed
        <3> QED BY <3>2, <3>3
    <2> QED BY <2>3, <2>4 DEF ShowsWell
<1>4. ASSUME NEW i, NEW k, IsRow(img, i, k)
      PROVE  \E x \in Range(tab) : Shows(x, img, i, k, TRUE)
    <2>1. i \in DOMAIN img.units /\ k \in DOMAIN img.units[i].rows
          BY <1>4 DEF IsRow
    <2>2. PICK file \in Paths : UnitListed(img.units[i], Range(tab), file)
          BY <1>1, <2>1 DEF Listed
    <2> QED BY <1>2, <2>1, <2>2
<1> QED BY <1>3, <1>4 DEF TableIs

-----------------------------------------------------------------------------
(* The interpreter.  While it runs the table has the rows that are kept,   *)
(* of the places before the one it has come to, and the rows of the last   *)
(* header bytes.                                                           *)

Before(i, k, p) == i < p.unit \/ (i = p.unit /\ k < p.row)

\* A row of the table for one of the image, with the file it names.
Copied(img, i, k) ==
    Printed(RowOf(img, i, k), FileTable(img.units[i])[RowOf(img, i, k).file])
Listing(img, tab, p) ==
    /\ tab \in Seq(TableRow)
    /\ \A x \in Range(tab) :
         x.address = 0 \/ \E i, k : /\ IsRow(img, i, k) /\ Before(i, k, p)
                                    /\ Keeps(img.units[i], RowOf(img, i, k))
                                    /\ x = Copied(img, i, k)
    /\ \A i, k : IsRow(img, i, k) /\ Before(i, k, p) /\ Keeps(img.units[i], RowOf(img, i, k)) =>
                    Copied(img, i, k) \in Range(tab)

(* A row of an image, with numbers where numbers belong.                   *)
LEMMA CopiedIs ==
    ASSUME NEW img \in Images, NEW i, NEW k, IsRow(img, i, k)
    PROVE  /\ i \in Nat /\ k \in Nat \ {0} /\ k \in 1 .. Len(img.units[i].rows)
           /\ Len(img.units[i].rows) \in Nat /\ Len(img.units) \in Nat
           /\ i \in 1 .. Len(img.units)
           /\ RowOf(img, i, k) \in LineRow
           /\ Keeps(img.units[i], RowOf(img, i, k)) => Copied(img, i, k) \in TableRow
<1> DEFINE u == img.units[i]
           r == RowOf(img, i, k)
<1>1. i \in DOMAIN img.units /\ k \in DOMAIN u.rows
      BY DEF IsRow
<1>2. img.units \in Seq(LineUnit) /\ u.rows \in Seq(LineRow) /\ FileTable(u) \in Seq(Paths)
      BY <1>1, UnitFacts
<1>3. /\ i \in Nat /\ k \in Nat \ {0} /\ k \in 1 .. Len(u.rows)
      /\ Len(u.rows) \in Nat /\ Len(img.units) \in Nat /\ i \in 1 .. Len(img.units) /\ r \in LineRow
      BY <1>1, <1>2 DEF RowOf
<1>4. ASSUME Keeps(u, r)
      PROVE  Copied(img, i, k) \in TableRow
    <2> DEFINE table == FileTable(u)
               path == table[r.file]
    <2>1. table \in Seq(Paths) /\ r.file \in DOMAIN table
          BY <1>2, <1>4 DEF Keeps
    <2>2. path \in Paths
        <3> HIDE DEF table
        <3> QED BY <2>1
    <2>3. r.address \in Nat /\ r.line \in Nat
          BY <1>3 DEF LineRow
    <2> HIDE DEF path, r
    <2>4. Printed(r, path) \in TableRow
          BY <2>2, <2>3 DEF Printed, TableRow
    <2> QED BY <2>4 DEF Copied, path, r
<1> QED BY <1>3, <1>4

(* The same rows come before two places, for the table.                    *)
LEMMA ListingMoved ==
    ASSUME NEW img, NEW tab, NEW p, NEW q, Listing(img, tab, p),
           \A i, k : IsRow(img, i, k) /\ Keeps(img.units[i], RowOf(img, i, k)) =>
                        (Before(i, k, p) <=> Before(i, k, q))
    PROVE  Listing(img, tab, q)
BY DEF Listing

(* A row at address 0 changes nothing.                                     *)
LEMMA ListingPadded ==
    ASSUME NEW img, NEW tab, NEW p, Listing(img, tab, p), NEW x \in TableRow, x.address = 0
    PROVE  Listing(img, Append(tab, x), p)
<1>1. tab \in Seq(TableRow)
      BY DEF Listing
<1>2. Append(tab, x) \in Seq(TableRow) /\ Range(Append(tab, x)) = Range(tab) \cup {x}
      BY <1>1, AppendRange
<1> DEFINE new == Append(tab, x)
<1> HIDE DEF new
<1> QED BY <1>2 DEF Listing, new

(* The row due is appended exactly if it is kept.                          *)
LEMMA ListingGrows ==
    ASSUME NEW img \in Images, NEW tab, NEW p, NEW q, Listing(img, tab, p),
           IsRow(img, p.unit, p.row), p.row \in Nat, p.unit \in Nat, q.unit = p.unit, q.row = p.row + 1,
           NEW new,
           new = IF Keeps(img.units[p.unit], RowOf(img, p.unit, p.row))
                 THEN Append(tab, Copied(img, p.unit, p.row)) ELSE tab
    PROVE  Listing(img, new, q)
<1> DEFINE n == p.unit
           m == p.row
           x == Copied(img, n, m)
           Ok(i, k) == Keeps(img.units[i], RowOf(img, i, k))
<1>1. ASSUME NEW i, NEW k, IsRow(img, i, k)
      PROVE  Before(i, k, q) <=> Before(i, k, p) \/ (i = n /\ k = m)
    <2>1. i \in Nat /\ k \in Nat /\ m \in Nat /\ n \in Nat
          BY <1>1, CopiedIs
    <2>2. Before(i, k, q) <=> i < n \/ (i = n /\ k < m + 1)
          BY DEF Before
    <2>3. Before(i, k, p) <=> i < n \/ (i = n /\ k < m)
          BY DEF Before
    <2> HIDE DEF n, m
    <2> QED BY <2>1, <2>2, <2>3
<1>2. tab \in Seq(TableRow)
      BY DEF Listing
<1>3. Ok(n, m) => x \in TableRow
      BY CopiedIs
<1>4. CASE Ok(n, m)
    <2>1. new = Append(tab, x) /\ x \in TableRow
          BY <1>3, <1>4
    <2>2. new \in Seq(TableRow) /\ Range(new) = Range(tab) \cup {x}
          BY <1>2, <2>1, AppendRange
    <2>3. ASSUME NEW y \in Range(new), y.address # 0
          PROVE  \E i, k : IsRow(img, i, k) /\ Before(i, k, q) /\ Ok(i, k) /\ y = Copied(img, i, k)
        <3>1. CASE y = x
            <4>1. IsRow(img, n, m) /\ Before(n, m, q) /\ Ok(n, m) /\ y = Copied(img, n, m)
                  BY <1>1, <1>4, <3>1
            <4> HIDE DEF n, m, Ok
            <4> QED BY <4>1
        <3>2. CASE y \in Range(tab)
            <4>1. PICK i, k : IsRow(img, i, k) /\ Before(i, k, p) /\ Ok(i, k) /\ y = Copied(img, i, k)
                  BY <2>3, <3>2 DEF Listing
            <4> QED BY <1>1, <4>1
        <3> QED BY <2>2, <2>3, <3>1, <3>2
    <2>4. ASSUME NEW i, NEW k, IsRow(img, i, k), Before(i, k, q), Ok(i, k)
          PROVE  Copied(img, i, k) \in Range(new)
        <3>1. CASE i = n /\ k = m
              BY <2>2, <3>1
        <3>2. CASE Before(i, k, p)
              BY <2>2, <2>4, <3>2 DEF Listing
        <3> QED BY <1>1, <2>4, <3>1, <3>2
    <2> HIDE DEF n, m, x
    <2> QED BY <2>2, <2>3, <2>4 DEF Listing
<1>5. CASE ~ Ok(n, m)
    <2>1. new = tab
          BY <1>5
    <2>2. \A i, k : IsRow(img, i, k) /\ Ok(i, k) => (Before(i, k, p) <=> Before(i, k, q))
          BY <1>1, <1>5
    <2> QED BY <2>1, <2>2, ListingMoved
<1> QED BY <1>4, <1>5

(* The finished listing.                                                   *)
LEMMA ListingTells ==
    ASSUME NEW img \in Images, NEW tab, NEW p, Listing(img, tab, p), p.unit = Len(img.units) + 1
    PROVE  TableIs(img, tab, FALSE)
<1> DEFINE Ok(i, k) == Keeps(img.units[i], RowOf(img, i, k))
<1>1. ASSUME NEW i, NEW k, IsRow(img, i, k)
      PROVE  Before(i, k, p)
    <2>1. i \in 1 .. Len(img.units) /\ Len(img.units) \in Nat
          BY <1>1, CopiedIs
    <2> QED BY <2>1 DEF Before
<1>2. ASSUME NEW i, NEW k, IsRow(img, i, k), Ok(i, k)
      PROVE  Copied(img, i, k) \in Range(tab) /\ Shows(Copied(img, i, k), img, i, k, FALSE)
    <2>1. Copied(img, i, k) \in Range(tab)
          BY <1>1, <1>2 DEF Listing
    <2> DEFINE u == img.units[i]
               j == RowOf(img, i, k).file
    <2>2. ASSUME Single(u, FALSE)
          PROVE  FileTable(u)[j] = u.files[1]
        <3>1. FileTable(u)[j] \in Range(FileTable(u))
              BY <1>2 DEF Keeps, Range
        <3> QED BY <2>2, <3>1 DEF Single, ReadAlike
    <2> QED BY <2>1, <2>2 DEF Shows, Copied, Printed
<1>3. ASSUME NEW x \in Range(tab), x.address # 0
      PROVE  \E i, k : IsRow(img, i, k) /\ ShowsWell(x, img, i, k, Range(tab), FALSE)
    <2>1. PICK i, k : IsRow(img, i, k) /\ Ok(i, k) /\ x = Copied(img, i, k)
          BY <1>3 DEF Listing
    <2>2. Shows(x, img, i, k, FALSE)
          BY <1>2, <2>1
    <2>3. ASSUME Ends(img, i, k)
          PROVE  \E y \in Range(tab) : Shows(y, img, i, k - 1, FALSE) /\ y.line = x.line /\ y.file = x.file
        <3> DEFINE y == Copied(img, i, k - 1)
        <3>1. /\ IsRow(img, i, k - 1)
              /\ RowOf(img, i, k).line = RowOf(img, i, k - 1).line
              /\ RowOf(img, i, k).file = RowOf(img, i, k - 1).file
              BY <2>1, <2>3, BeforeEnd
        <3>2. Ok(i, k - 1)
              BY <2>1, <3>1 DEF Keeps
        <3>3. y \in Range(tab) /\ Shows(y, img, i, k - 1, FALSE)
              BY <1>2, <3>1, <3>2
        <3>4. y.line = x.line /\ y.file = x.file
              BY <2>1, <3>1 DEF Copied, Printed
        <3> QED BY <3>3, <3>4
    <2> QED BY <2>1, <2>2, <2>3 DEF ShowsWell
<1>4. tab \in Seq(TableRow)
      BY DEF Listing
<1> QED BY <1>2, <1>3, <1>4 DEF TableIs, Kept

\* What the table tells, as it is read and from then on.
ReaderInv ==
    /\ DecodeInv
    /\ source \in {"none", "loading", "dwarfdump", "program", "native", "failed"}
    /\ source \in {"none", "loading", "failed"} => entries = <<>>
    /\ source = "dwarfdump" => TableIs(image, entries, TRUE)
    /\ (\A u \in Units : Aligned(u)) =>
         /\ source = "program" => Listing(image, entries, at)
         /\ source = "native" => TableIs(image, entries, FALSE)

(* The first read: the table of dwarfdump, or the beginning of a listing.  *)
LEMMA DumpStep ==
    ASSUME image \in Images, LoadDump
    PROVE  /\ source' \in {"dwarfdump", "program"}
           /\ source' = "dwarfdump" => TableIs(image', entries', TRUE)
           /\ source' = "program" => Listing(image', entries', at')
<1>1. image' = image /\ source' \in {"dwarfdump", "program"} /\ at' = Header(1)
      BY DEF LoadDump
<1>2. ASSUME source' = "dwarfdump"
      PROVE  TableIs(image, entries', TRUE)
    <2>1. entries' = ReadLines(DumpLines(image))
          BY <1>2, DumpLoaded
    <2>2. entries' \in Seq(TableRow) /\ Listed(image.units, Range(entries'), Len(image.units))
          BY <2>1, DumpRead
    <2> QED BY <2>2, DumpTells
<1>3. ASSUME source' = "program"
      PROVE  Listing(image, entries', at')
    <2>1. entries' = <<>> /\ at'.unit = 1 /\ at'.row = 0
          BY <1>1, <1>3 DEF LoadDump, Header
    <2>2. ASSUME NEW i, NEW k, IsRow(image, i, k)
          PROVE  ~ Before(i, k, at')
        <3>1. i \in Nat \ {0} /\ k \in Nat
              BY <2>2, CopiedIs
        <3>2. Before(i, k, at') <=> i < 1 \/ (i = 1 /\ k < 0)
              BY <2>1 DEF Before
        <3> QED BY <3>1, <3>2
    <2>3. Range(entries') = {} /\ entries' \in Seq(TableRow)
          BY <2>1 DEF Range
    <2> QED BY <2>2, <2>3 DEF Listing
<1> QED BY <1>1, <1>2, <1>3

(* Between the rows: headers, skipped and finished units.                  *)
LEMMA HeaderStep ==
    ASSUME image \in Images, Decoding, Listing(image, entries, at), \A u \in Units : Aligned(u),
           SkipUnit \/ HeaderV4 \/ HeaderV5 \/ UnitDone
    PROVE  Listing(image', entries', at')
<1> DEFINE n == at.unit
           Ok(i, k) == Keeps(image.units[i], RowOf(image, i, k))
<1>1. Interpreting /\ image' = image
      BY DEF SkipUnit, HeaderV4, HeaderV5, UnitDone, InHeader
<1>2. n \in 1 .. Len(image.units) /\ n \in Nat /\ Unit \in LineUnit /\ Unit \in Units
    <2>1. n \in 1 .. Len(image.units) /\ image.units \in Seq(LineUnit)
          BY <1>1, FlatParts DEF Interpreting, Decoding
    <2> QED BY <2>1, RangeOfSeq DEF Unit, Units, Range
<1>3. CASE SkipUnit \/ UnitDone
    <2>1. entries' = entries /\ at'.unit = n + 1 /\ at'.row = 0
          BY <1>3 DEF SkipUnit, UnitDone, Header
    <2>2. ASSUME NEW i, NEW k, IsRow(image, i, k), Ok(i, k)
          PROVE  Before(i, k, at) <=> Before(i, k, at')
        <3>1. i \in Nat /\ k \in Nat \ {0} /\ k \in 1 .. Len(image.units[i].rows)
              /\ Len(image.units[i].rows) \in Nat
              BY <2>2, CopiedIs
        <3>2. Before(i, k, at') <=> i < n + 1 \/ (i = n + 1 /\ k < 0)
              BY <2>1 DEF Before
        <3>3. Before(i, k, at') <=> i < n \/ i = n
            <4> HIDE DEF n
            <4> QED BY <1>2, <3>1, <3>2
        <3>4. ASSUME i = n
              PROVE  k < at.row
            <4>1. CASE SkipUnit
                  BY <2>2, <3>4, <4>1 DEF SkipUnit, Keeps, Unit
            <4>2. CASE UnitDone
                <5>1. at.row = Len(image.units[i].rows) + 1
                      BY <3>4, <4>2 DEF UnitDone, Unit
                <5> QED BY <3>1, <5>1
            <4> QED BY <1>3, <4>1, <4>2
        <3>5. Before(i, k, at) <=> i < n \/ (i = n /\ k < at.row)
              BY DEF Before
        <3> QED BY <3>3, <3>4, <3>5
    <2> QED BY <1>1, <2>1, <2>2, ListingMoved
<1>4. CASE HeaderV4 \/ HeaderV5
    <2>1. /\ at.row = 0 /\ at' = [at EXCEPT !.row = 1]
          /\ entries' = entries \/ (entries' = Emitted(ResetRegs) /\ HasRow(ResetRegs))
        <3>1. CASE HeaderV4
              BY <3>1 DEF HeaderV4, InHeader
        <3>2. CASE HeaderV5
            <4>1. Unit.version = 5 /\ Aligned(Unit)
                  BY <1>2, <3>2 DEF HeaderV5
            <4>2. regs' = ResetRegs /\ entries' = Emitted(regs')
                  BY <3>2, <4>1 DEF HeaderV5, Aligned
            <4> QED BY <3>2, <4>2 DEF HeaderV5, InHeader, Emitted
        <3> QED BY <1>4, <3>1, <3>2
    <2>2. at'.unit = n /\ at'.row = 1
          BY <2>1 DEF Decoding
    <2>3. ASSUME NEW i, NEW k, IsRow(image, i, k), Ok(i, k)
          PROVE  Before(i, k, at) <=> Before(i, k, at')
        <3>1. k \in Nat \ {0}
              BY <2>3, CopiedIs
        <3>2. ~ (k < 0) /\ ~ (k < 1)
              BY <3>1
        <3> QED BY <2>1, <2>2, <3>2 DEF Before
    <2>4. Listing(image, entries, at')
          BY <2>3, ListingMoved
    <2> DEFINE x == LineEntry(ResetRegs)
               table == FileTable(Unit)
    <2>5. CASE entries' = Emitted(ResetRegs) /\ HasRow(ResetRegs)
        <3>1. entries' = Append(entries, x)
              BY <2>5 DEF Emitted
        <3>2. table \in Seq(Paths)
              BY <1>2, UnitFacts DEF Unit
        <3>3. 1 \in DOMAIN table
              BY <2>5 DEF HasRow, ResetRegs
        <3>4. x = [address |-> 0, line |-> 1, file |-> table[1]]
              BY DEF LineEntry, ResetRegs
        <3> HIDE DEF table
        <3>5. x \in TableRow /\ x.address = 0
              BY <3>2, <3>3, <3>4 DEF TableRow
        <3> HIDE DEF x
        <3> QED BY <1>1, <2>4, <3>1, <3>5, ListingPadded
    <2>6. CASE entries' = entries
          BY <1>1, <2>4, <2>6
    <2> QED BY <2>1, <2>5, <2>6
<1> QED BY <1>3, <1>4

(* An opcode that makes a row: it is the row due.                          *)
LEMMA RowStep ==
    ASSUME image \in Images, Decoding, InProgram, Listing(image, entries, at),
           Copy \/ Special \/ EndSequence
    PROVE  Listing(image', entries', at')
<1>1. /\ IsRow(image, at.unit, at.row) /\ at.unit \in Nat /\ at.row \in Nat
      /\ RowOf(image, at.unit, at.row) = Due /\ image.units[at.unit] = Unit /\ Due \in LineRow
    <2>1. at.unit \in DOMAIN image.units /\ at.row \in DOMAIN Unit.rows /\ Due \in LineRow
          BY ReaderFacts
    <2>2. IsRow(image, at.unit, at.row) /\ RowOf(image, at.unit, at.row) = Due
          BY <2>1 DEF IsRow, RowOf, Unit, Due
    <2> QED BY <2>1, <2>2, CopiedIs DEF Unit
<1>2. ASSUME NEW rg \in Registers, RowDone(rg),
             rg.address = Due.address, rg.line = Due.line, rg.file = Due.file
      PROVE  Listing(image', entries', at')
    <2>1. image' = image /\ at'.unit = at.unit /\ at'.row = at.row + 1 /\ entries' = Emitted(rg)
          BY <1>2 DEF RowDone, Decoding
    <2>2. Copied(image, at.unit, at.row) = LineEntry(rg)
          BY <1>1, <1>2 DEF Copied, Printed, LineEntry
    <2>3. Keeps(Unit, Due) <=> HasRow(rg)
        <3>1. Unit.version \in {4, 5}
              BY ReaderFacts DEF InStep
        <3> QED BY <1>2, <3>1 DEF Keeps, HasRow
    <2>4. entries' = IF Keeps(image.units[at.unit], RowOf(image, at.unit, at.row))
                     THEN Append(entries, Copied(image, at.unit, at.row)) ELSE entries
          BY <1>1, <2>1, <2>2, <2>3 DEF Emitted
    <2> QED BY <1>1, <2>1, <2>4, ListingGrows
<1>3. CASE Comes(regs)
      BY <1>2, <1>3 DEF Comes
<1>4. CASE Comes(regs')
      BY <1>2, <1>4 DEF Comes
<1> QED BY <1>3, <1>4, RowComes

(* Every step of the loader.                                               *)
LEMMA LoadTells ==
    ASSUME ReaderInv, LoadStep
    PROVE  ReaderInv'
<1> DEFINE Plain == \A u \in Units : Aligned(u)
<1>1. DecodeInv /\ DecodeInv' /\ image' = image /\ image \in Images
      BY ImageKept, LoadDecoded DEF ReaderInv, DecodeInv
<1>2. Plain' = Plain
      BY <1>1 DEF Units
<1>3. Plain /\ source = "program" => Decoding /\ Listing(image, entries, at)
      BY <1>1 DEF ReaderInv, DecodeInv
<1>4. CASE LoadDump
      BY <1>1, <1>4, DumpStep DEF ReaderInv
<1>5. CASE NoSection \/ HeaderFails
      BY <1>1, <1>5 DEF NoSection, HeaderFails, Failed, ReaderInv
<1>6. CASE SkipUnit \/ HeaderV4 \/ HeaderV5 \/ UnitDone
    <2>1. source = "program" /\ source' = "program"
          BY <1>6 DEF SkipUnit, HeaderV4, HeaderV5, UnitDone, InHeader, Interpreting
    <2>2. Plain => Listing(image', entries', at')
          BY <1>1, <1>3, <1>6, <2>1, HeaderStep
    <2> QED BY <1>1, <1>2, <2>1, <2>2 DEF ReaderInv
<1>7. CASE SetAddress \/ AdvancePc \/ ConstAddPc \/ FixedAdvancePc \/ AdvanceLine \/ SetFile
    <2>1. source = "program" /\ source' = "program" /\ entries' = entries /\ at' = at
          BY <1>7 DEF SetAddress, AdvancePc, ConstAddPc, FixedAdvancePc, AdvanceLine, SetFile,
                      InProgram, Interpreting
    <2> QED BY <1>1, <1>2, <1>3, <2>1 DEF ReaderInv
<1>8. CASE Copy \/ Special \/ EndSequence
    <2>1. source = "program" /\ source' = "program" /\ InProgram
          BY <1>8 DEF Copy, Special, EndSequence, RowDone, InProgram, Interpreting
    <2>2. Plain => Listing(image', entries', at')
          BY <1>1, <1>3, <1>8, <2>1, RowStep
    <2> QED BY <1>1, <1>2, <2>1, <2>2 DEF ReaderInv
<1>9. CASE TableDone
    <2>1. /\ source = "program" /\ source' = IF entries = <<>> THEN "failed" ELSE "native"
          /\ entries' = entries /\ at.unit = Len(image.units) + 1
          BY <1>9 DEF TableDone
    <2>2. Plain => TableIs(image, entries, FALSE)
          BY <1>1, <1>3, <2>1, ListingTells
    <2> QED BY <1>1, <1>2, <2>1, <2>2 DEF ReaderInv
<1>10. CASE Astray
    <2>1. source = "program" /\ (source' = "program" \/ Failed)
          BY <1>10 DEF Astray, InHeader, Interpreting
    <2>2. ~ Plain
        <3>1. Plain => Aligned(Unit)
            <4>1. Plain => image.units \in Seq(LineUnit) /\ at.unit \in 1 .. Len(image.units)
                  BY <1>1, <1>3, <1>10, <2>1, FlatParts
                  DEF Astray, InHeader, Interpreting, Decoding
            <4> QED BY <4>1 DEF Unit, Units, Range
        <3> QED BY <1>10, <3>1 DEF Astray, Aligned, LastIsOpcode
    <2> QED BY <1>1, <1>2, <2>1, <2>2 DEF ReaderInv, Failed
<1> QED BY <1>4, <1>5, <1>6, <1>7, <1>8, <1>9, <1>10 DEF LoadStep

-----------------------------------------------------------------------------
(* The answers.  PlaceInv says what was looked up for the last one; the    *)
(* tables and slides have not changed since.                               *)

LookedUp(addr) == out.address = NoAddress \/ (out.address = addr /\ Mapped(out.address))
PlaceInv ==
    /\ ReaderInv
    /\ phase # "loading" => source \in {"none", "dwarfdump", "native", "failed"}
    /\ loaded \in Nat
    /\ out.cmd # "none" => phase = "prompt"
    /\ out.cmd = "frame" => /\ loaded # NoProcess /\ out.pc \in Nat
                            /\ out.place = LineAtPc(ln, out.pc)
    /\ out.cmd = "break" => LookedUp(BreakAddress(out.target))
    /\ out.cmd = "run" => LookedUp(EntryAddress(ln, syms))

(* The table as long as nothing is loaded.                                 *)
LEMMA ReaderKept ==
    ASSUME ReaderInv, UNCHANGED loadVars
    PROVE  ReaderInv'
<1>1. image' = image /\ source' = source /\ entries' = entries /\ at' = at
      BY DEF loadVars
<1>2. DecodeInv' /\ Units' = Units
      BY <1>1, DecodeKept DEF ReaderInv, Units
<1> QED BY <1>1, <1>2 DEF ReaderInv

(* A step that leaves the tables and the answer alone: what was looked up  *)
(* is still what a lookup finds.                                           *)
LEMMA AnswerKept ==
    ASSUME PlaceInv, UNCHANGED vars
    PROVE  PlaceInv'
<1>1. /\ UNCHANGED loadVars /\ UNCHANGED <<phase, loaded, slide, syms, out>>
      /\ source' = source /\ image' = image /\ entries' = entries
      BY DEF vars, loadVars
<1>2. ReaderInv'
      BY <1>1, ReaderKept DEF PlaceInv
<1>3. ln' = ln
      BY <1>1 DEF ln
<1>4. LineAtPc(ln, out.pc)' = LineAtPc(ln, out.pc) /\ EntryAddress(ln, syms)' = EntryAddress(ln, syms)
      BY <1>1, <1>3
<1>5. BreakAddress(out.target)' = BreakAddress(out.target)
      BY <1>1, <1>3 DEF BreakAddress, LineAddress, NameAddress
<1>6. LookedUp(BreakAddress(out.target))' <=> LookedUp(BreakAddress(out.target))
      BY <1>1, <1>5 DEF LookedUp, Mapped
<1>7. LookedUp(EntryAddress(ln, syms))' <=> LookedUp(EntryAddress(ln, syms))
      BY <1>1, <1>4 DEF LookedUp, Mapped
<1> QED BY <1>1, <1>2, <1>4, <1>6, <1>7 DEF PlaceInv

(* The steps of run: there is no answer until its end.                     *)
LEMMA RunPlaces ==
    ASSUME PlaceInv, CmdRun \/ LoadLines \/ LoadSymbols \/ Spawn \/ Started \/ ExecFailed
    PROVE  PlaceInv'
<1>1. CASE CmdRun
    <2>1. /\ image' \in Images /\ source' = "loading" /\ entries' = <<>> /\ out' = Silent
          /\ phase' = "loading" /\ loaded' = NoProcess
          BY <1>1 DEF CmdRun
    <2>2. ReaderInv'
          BY <2>1 DEF ReaderInv, DecodeInv
    <2> QED BY <2>1, <2>2 DEF PlaceInv, Silent, NoProcess
<1>2. CASE LoadLines
    <2>1. ReaderInv' /\ phase = "loading" /\ UNCHANGED <<phase, loaded, out>>
          BY <1>2, LoadTells DEF LoadLines, PlaceInv
    <2>2. out.cmd = "none"
          BY <2>1 DEF PlaceInv
    <2> QED BY <2>1, <2>2 DEF PlaceInv
<1>3. CASE LoadSymbols
    <2>1. /\ UNCHANGED loadVars /\ UNCHANGED <<loaded, out>> /\ phase = "loading" /\ LinesLoaded
          /\ source' = source
          BY <1>3 DEF LoadSymbols, loadVars
    <2>2. out.cmd = "none" /\ ReaderInv'
          BY <2>1, ReaderKept DEF PlaceInv
    <2> QED BY <2>1, <2>2 DEF PlaceInv, LinesLoaded
<1>4. CASE Spawn
    <2>1. PICK load \in Loads : loaded' = load
          BY <1>4 DEF Spawn
    <2>2. load \in Nat
          BY LocationsAssumption
    <2>3. /\ UNCHANGED loadVars /\ out' = out /\ phase = "forked" /\ source' = source
          BY <1>4 DEF Spawn, loadVars
    <2>4. out.cmd = "none" /\ ReaderInv'
          BY <2>3, ReaderKept DEF PlaceInv
    <2> QED BY <2>1, <2>2, <2>3, <2>4 DEF PlaceInv
<1>5. CASE Started
    <2>1. /\ UNCHANGED loadVars /\ loaded' = loaded /\ phase = "spawned" /\ phase' = "prompt"
          /\ source' = source /\ image' = image /\ entries' = entries
          BY <1>5 DEF Started, loadVars
    <2>2. ReaderInv'
          BY <2>1, ReaderKept DEF PlaceInv
    <2> DEFINE addr == EntryAddress([entries |-> entries, slide |-> slide'], syms')
    <2>3. /\ out'.cmd = "run"
          /\ out'.address = IF Mapped(addr) THEN addr ELSE NoAddress
          BY <1>5 DEF Started, Silent
    <2>4. addr = EntryAddress(ln, syms)'
          BY <2>1 DEF ln
    <2>5. Mapped(out.address)' <=> Mapped(out'.address)
          BY <2>1 DEF Mapped
    <2> HIDE DEF addr
    <2>6. LookedUp(EntryAddress(ln, syms))'
          BY <2>3, <2>4, <2>5 DEF LookedUp
    <2> QED BY <2>1, <2>2, <2>3, <2>6 DEF PlaceInv
<1>6. CASE ExecFailed
    <2>1. /\ UNCHANGED loadVars /\ loaded' = NoProcess /\ phase = "spawned" /\ out' = out
          /\ source' = source
          BY <1>6 DEF ExecFailed, loadVars
    <2>2. out.cmd = "none" /\ ReaderInv'
          BY <2>1, ReaderKept DEF PlaceInv
    <2> QED BY <2>1, <2>2 DEF PlaceInv, NoProcess
<1> QED BY <1>1, <1>2, <1>3, <1>4, <1>5, <1>6

(* The commands.                                                           *)
LEMMA CommandPlaces ==
    ASSUME PlaceInv, NEW t, NEW pc,
           CmdKill \/ CmdBreak(t) \/ CmdDis(t) \/ CmdList(t) \/ (pc \in Pcs /\ ShowFrame(pc))
    PROVE  PlaceInv'
<1>1. UNCHANGED loadVars /\ phase = "prompt" /\ phase' = phase /\ syms' = syms /\ slide' = slide
      BY DEF CmdKill, CmdBreak, CmdDis, CmdList, ShowFrame
<1>2. source' = source /\ image' = image /\ entries' = entries /\ ln' = ln
      BY <1>1 DEF loadVars, ln
<1>3. ReaderInv'
      BY <1>1, ReaderKept DEF PlaceInv
<1>4. CASE CmdKill
    <2>1. loaded' = NoProcess /\ out' = Silent
          BY <1>4 DEF CmdKill
    <2> QED BY <1>1, <1>2, <1>3, <2>1 DEF PlaceInv, Silent, NoProcess
<1>5. CASE CmdDis(t) \/ CmdList(t)
    <2>1. loaded' = loaded /\ out'.cmd \in {"dis", "list"}
          BY <1>5 DEF CmdDis, CmdList, Silent
    <2> QED BY <1>1, <1>2, <1>3, <2>1 DEF PlaceInv
<1>6. CASE CmdBreak(t)
    <2>1. /\ loaded' = loaded /\ out'.cmd = "break" /\ out'.target = t
          /\ out'.address = IF Mapped(BreakAddress(t)) THEN BreakAddress(t) ELSE NoAddress
          BY <1>6 DEF CmdBreak, Silent
    <2>2. BreakAddress(out.target)' = BreakAddress(t)
          BY <1>1, <1>2, <2>1 DEF BreakAddress, LineAddress, NameAddress
    <2>3. Mapped(out.address)' <=> Mapped(out'.address)
          BY <1>2, <2>1 DEF Mapped
    <2>4. LookedUp(BreakAddress(out.target))'
          BY <2>1, <2>2, <2>3 DEF LookedUp
    <2> QED BY <1>1, <1>2, <1>3, <2>1, <2>4 DEF PlaceInv
<1>7. CASE pc \in Pcs /\ ShowFrame(pc)
    <2>1. /\ loaded' = loaded /\ loaded # NoProcess
          /\ out'.cmd = "frame" /\ out'.pc = pc /\ out'.place = LineAtPc(ln, pc)
          BY <1>7 DEF ShowFrame, Silent
    <2>2. pc \in Nat
          BY <1>7, LocationsAssumption
    <2> QED BY <1>1, <1>2, <1>3, <2>1, <2>2 DEF PlaceInv
<1> QED BY <1>4, <1>5, <1>6, <1>7

(* PlaceInv is an invariant.                                               *)
LEMMA PlacesKept == LocationsSpec => []PlaceInv
<1>1. Init => PlaceInv
    <2> SUFFICES ASSUME Init
                 PROVE  PlaceInv
        OBVIOUS
    <2>1. ReaderInv
          BY DEF Init, LoadInit, ReaderInv, DecodeInv
    <2> QED BY <2>1 DEF Init, LoadInit, PlaceInv, Silent, NoProcess
<1>2. PlaceInv /\ [Next]_vars => PlaceInv'
    <2> SUFFICES ASSUME PlaceInv, [Next]_vars
                 PROVE  PlaceInv'
        OBVIOUS
    <2>1. CASE UNCHANGED vars
          BY <2>1, AnswerKept
    <2>2. CASE CmdRun \/ LoadLines \/ LoadSymbols \/ Spawn \/ Started \/ ExecFailed
          BY <2>2, RunPlaces
    <2>3. CASE CmdKill
          BY <2>3, CommandPlaces
    <2>4. ASSUME NEW t, CmdBreak(t) \/ CmdDis(t) \/ CmdList(t)
          PROVE  PlaceInv'
          BY <2>4, CommandPlaces
    <2>5. ASSUME NEW pc \in Pcs, ShowFrame(pc)
          PROVE  PlaceInv'
          BY <2>5, CommandPlaces
    <2> QED BY <2>1, <2>2, <2>3, <2>4, <2>5 DEF Next
<1> QED BY <1>1, <1>2, PTL DEF LocationsSpec

-----------------------------------------------------------------------------
(* The code of a row.                                                      *)

RangeOf(i, k) ==
    [unit |-> image.units[i], from |-> RowOf(image, i, k).address,
     to |-> RowOf(image, i, k + 1).address, line |-> RowOf(image, i, k).line,
     file |-> RowOf(image, i, k).file]

(* Every range is the code of a row, and every row that does not end a     *)
(* sequence has one.                                                       *)
LEMMA RangeIs ==
    ASSUME image \in Images
    PROVE  /\ \A r \in Ranges : \E i, k :
                IsRow(image, i, k) /\ IsRow(image, i, k + 1) /\ r = RangeOf(i, k)
           /\ \A i, k : /\ IsRow(image, i, k) /\ IsRow(image, i, k + 1) /\ ~ RowOf(image, i, k).end
                        => RangeOf(i, k) \in Ranges
<1>1. image.units \in Seq(LineUnit) /\ \A i \in DOMAIN image.units :
          /\ image.units[i] \in Units
          /\ Len(image.units[i].rows) \in Nat
          /\ DOMAIN image.units[i].rows = 1 .. Len(image.units[i].rows)
    <2>1. image.units \in Seq(LineUnit)
          BY LineLoadAssumption
    <2>2. \A i \in DOMAIN image.units : image.units[i].rows \in Seq(LineRow)
          BY UnitFacts
    <2> QED BY <2>1, <2>2 DEF Units, Range
<1>2. ASSUME NEW r \in Ranges
      PROVE  \E i, k : IsRow(image, i, k) /\ IsRow(image, i, k + 1) /\ r = RangeOf(i, k)
    <2>1. PICK u \in Units : r \in RangesOf(u)
          BY DEF Ranges
    <2>2. PICK i \in DOMAIN image.units : u = image.units[i]
          BY DEF Units, Range
    <2>3. PICK k \in 1 .. Len(u.rows) - 1 :
             r = [unit |-> u, from |-> u.rows[k].address, to |-> u.rows[k + 1].address,
                  line |-> u.rows[k].line, file |-> u.rows[k].file]
          BY <2>1 DEF RangesOf
    <2>4. k \in DOMAIN u.rows /\ k + 1 \in DOMAIN u.rows
        <3> DEFINE n == Len(u.rows)
        <3>1. n \in Nat /\ DOMAIN u.rows = 1 .. n /\ k \in 1 .. n - 1
              BY <1>1, <2>2
        <3> HIDE DEF n
        <3> QED BY <3>1
    <2> QED BY <2>2, <2>3, <2>4 DEF IsRow, RangeOf, RowOf
<1>3. ASSUME NEW i, NEW k, IsRow(image, i, k), IsRow(image, i, k + 1), ~ RowOf(image, i, k).end
      PROVE  RangeOf(i, k) \in Ranges
    <2> DEFINE u == image.units[i]
               n == Len(u.rows)
    <2>1. i \in DOMAIN image.units /\ n \in Nat /\ k \in 1 .. n /\ k + 1 \in 1 .. n /\ u \in Units
          BY <1>1, <1>3 DEF IsRow
    <2>2. k \in 1 .. n - 1
        <3> HIDE DEF n
        <3> QED BY <2>1
    <2>3. RangeOf(i, k) \in RangesOf(u)
          BY <1>3, <2>2 DEF RangesOf, RangeOf, RowOf
    <2> QED BY <2>1, <2>3 DEF Ranges
<1> QED BY <1>2, <1>3

\* Row k of unit i is the last before addr, and no other is between.
Alone(i, k, addr) ==
    /\ IsRow(image, i, k)
    /\ RowOf(image, i, k).address <= addr
    /\ \A j, m : IsRow(image, j, m) /\ RowOf(image, j, m).address \in RowOf(image, i, k).address .. addr
                    => j = i /\ m = k

(* What Clear says of the row of a range.                                  *)
LEMMA ClearIs ==
    ASSUME image \in Images, NEW i, NEW k, IsRow(image, i, k), NEW addr \in Int,
           Clear(RangeOf(i, k), addr), RowOf(image, i, k + 1).address \in Int
    PROVE  Alone(i, k, addr)
<1> DEFINE from == RowOf(image, i, k).address
           r == RangeOf(i, k)
<1>1. from \in Nat
      BY CopiedIs DEF LineRow
<1>2. r.from = from /\ r.to = RowOf(image, i, k + 1).address
      BY DEF RangeOf
<1>3. from <= addr
    <2>1. addr \in r.from .. r.to - 1
          BY DEF Clear
    <2> HIDE DEF r, from
    <2> QED BY <1>1, <1>2, <2>1
<1>4. \A j, m : IsRow(image, j, m) /\ RowOf(image, j, m).address \in from .. addr
                   => <<j, m>> \in RowsIn(from, addr)
      BY DEF IsRow, RowOf, RowsIn
<1>5. \A x, y \in RowsIn(from, addr) : x = y
      BY <1>2 DEF Clear
<1> HIDE DEF from, r
<1>6. <<i, k>> \in RowsIn(from, addr)
    <2>1. RowOf(image, i, k).address \in from .. addr
          BY <1>1, <1>3 DEF from
    <2> QED BY <1>4, <2>1
<1>7. ASSUME NEW j, NEW m, IsRow(image, j, m), RowOf(image, j, m).address \in from .. addr
      PROVE  j = i /\ m = k
    <2>1. <<j, m>> = <<i, k>>
          BY <1>4, <1>5, <1>6, <1>7
    <2> QED BY <2>1
<1> QED BY <1>3, <1>7 DEF Alone, from

(* No row of an image is at address 0.                                     *)
LEMMA RowPlace ==
    ASSUME RowsTell, image \in Images, NEW i, NEW k, IsRow(image, i, k)
    PROVE  RowOf(image, i, k).address \in Nat \ {0} /\ RowOf(image, i, k).line \in Nat
<1>1. RowOf(image, i, k).address # 0
      BY DEF RowsTell, IsRow, RowOf
<1> QED BY <1>1, CopiedIs DEF LineRow

(* The lookup for a pc finds the row the pc is in, if that row is alone,   *)
(* and nothing above it.                                                   *)
LEMMA LookupAt ==
    ASSUME RowsTell, image \in Images, loaded \in Nat, LinesSlid,
           NEW all \in BOOLEAN, TableIs(image, entries, all),
           NEW i, NEW k, Kept(image, i, k, all), NEW pc \in Int, Alone(i, k, True(pc))
    PROVE  /\ LookupPc(ln, pc) # NoRow /\ LookupPc(ln, pc) \in DOMAIN entries
           /\ Shows(entries[LookupPc(ln, pc)], image, i, k, all)
           /\ \A g \in DOMAIN entries :
                RuntimeAddr(ln, g) <= pc => RuntimeAddr(ln, g) <= RuntimeAddr(ln, LookupPc(ln, pc))
<1> DEFINE from == RowOf(image, i, k).address
           base == image.base
           below == {g \in DOMAIN ln.entries : RuntimeAddr(ln, g) <= pc}
           h == LookupPc(ln, pc)
<1>1. base \in Nat /\ IsRow(image, i, k) /\ from \in Nat \ {0} /\ from <= True(pc)
      BY LocationsAssumption, RowPlace DEF Alone
<1>2. /\ ln.entries = entries /\ ln.slide = loaded - base /\ ln.slide \in Int
      /\ entries \in Seq(TableRow) /\ True(pc) = pc - loaded + base /\ True(pc) \in Int
      BY <1>1 DEF ln, LinesSlid, TableIs, True
<1>3. \A g \in DOMAIN entries :
         /\ entries[g].address \in Nat /\ entries[g] \in Range(entries)
         /\ RuntimeAddr(ln, g) = entries[g].address + ln.slide /\ RuntimeAddr(ln, g) \in Int
      BY <1>2, RuntimeIs
<1> HIDE DEF from, base
<1>4. ASSUME NEW g \in DOMAIN entries
      PROVE  RuntimeAddr(ln, g) <= pc <=> entries[g].address <= True(pc)
    <2> DEFINE x == entries[g].address
               y == RuntimeAddr(ln, g)
    <2>1. x \in Nat /\ y = x + ln.slide /\ y \in Int
          BY <1>3
    <2> HIDE DEF x, y
    <2>2. y <= pc <=> x <= True(pc)
          BY <1>1, <1>2, <2>1
    <2> QED BY <2>2 DEF x, y
<1>5. PICK g \in DOMAIN entries : Shows(entries[g], image, i, k, all)
    <2>1. PICK x \in Range(entries) : Shows(x, image, i, k, all)
          BY <1>1 DEF TableIs
    <2> QED BY <2>1 DEF Range
<1>6. g \in below /\ entries[g].address = from
      BY <1>1, <1>2, <1>4, <1>5 DEF Shows, from
<1>7. h \in below /\ h # NoRow /\ \A j \in below : RuntimeAddr(ln, j) <= RuntimeAddr(ln, h)
    <2>1. h = HighestOf(ln, below)
          BY DEF LookupPc
    <2>2. below \in SUBSET (DOMAIN ln.entries) /\ below # {} /\ \A j \in below : RuntimeAddr(ln, j) <= pc
          BY <1>6
    <2> HIDE DEF below, h
    <2> QED BY <1>2, <2>1, <2>2, HighestFound
<1> HIDE DEF h
<1>8. h \in DOMAIN entries /\ entries[h].address \in from .. True(pc)
    <2> DEFINE x == entries[h].address
               y == RuntimeAddr(ln, h)
               z == RuntimeAddr(ln, g)
    <2>1. h \in DOMAIN entries /\ x <= True(pc)
          BY <1>2, <1>4, <1>7
    <2>2. x \in Nat /\ y = x + ln.slide /\ z = from + ln.slide /\ z <= y
          BY <1>3, <1>6, <1>7, <2>1
    <2> HIDE DEF x, y, z
    <2>3. x \in from .. True(pc)
          BY <1>1, <1>2, <2>1, <2>2
    <2> QED BY <2>1, <2>3 DEF x
<1>9. Shows(entries[h], image, i, k, all)
    <2>1. entries[h].address # 0 /\ entries[h] \in Range(entries)
          BY <1>1, <1>3, <1>8
    <2>2. PICK j, m : IsRow(image, j, m) /\ ShowsWell(entries[h], image, j, m, Range(entries), all)
          BY <2>1 DEF TableIs
    <2>3. Shows(entries[h], image, j, m, all)
          BY <2>2 DEF ShowsWell
    <2>4. RowOf(image, j, m).address \in from .. True(pc)
          BY <1>8, <2>3 DEF Shows
    <2>5. j = i /\ m = k
          BY <2>2, <2>4 DEF Alone, from
    <2> QED BY <2>3, <2>5
<1>10. \A j \in DOMAIN entries : RuntimeAddr(ln, j) <= pc => RuntimeAddr(ln, j) <= RuntimeAddr(ln, h)
       BY <1>2, <1>7
<1> QED BY <1>7, <1>8, <1>9, <1>10 DEF h

(* A table that was read to its end, by either reader.                     *)
LEMMA TableThere ==
    ASSUME PlaceInv, phase = "prompt",
           source = "dwarfdump" \/ (source = "native" /\ \A u \in Units : Aligned(u))
    PROVE  \E all \in BOOLEAN : TableIs(image, entries, all) /\ (all <=> source = "dwarfdump")
<1>1. CASE source = "dwarfdump"
    <2>1. TableIs(image, entries, TRUE)
          BY <1>1 DEF PlaceInv, ReaderInv
    <2> QED BY <1>1, <2>1
<1>2. CASE source = "native" /\ \A u \in Units : Aligned(u)
    <2>1. TableIs(image, entries, FALSE)
          BY <1>2 DEF PlaceInv, ReaderInv
    <2>2. source # "dwarfdump"
          BY <1>2
    <2> QED BY <2>1, <2>2
<1> QED BY <1>1, <1>2

(* All of u is one file to the reader that made the table.                 *)
LEMMA OneIs ==
    ASSUME NEW u, NEW all \in BOOLEAN, all \/ source = "native", OneFile(u)
    PROVE  Single(u, all)
BY DEF OneFile, Single

(* The table has the rows of the ranges that are whole.                    *)
LEMMA WholeKept ==
    ASSUME PlaceInv, phase = "prompt", NEW i, NEW k, Whole(RangeOf(i, k))
    PROVE  \E all \in BOOLEAN :
             /\ TableIs(image, entries, all) /\ (all \/ source = "native")
             /\ \A j, m : Whole(RangeOf(j, m)) => Kept(image, j, m, all)
<1>1. PICK all \in BOOLEAN : TableIs(image, entries, all) /\ (all <=> source = "dwarfdump")
      BY TableThere DEF Whole
<1>2. ASSUME NEW j, NEW m, Whole(RangeOf(j, m))
      PROVE  Kept(image, j, m, all)
    <2>1. CASE source = "dwarfdump"
          BY <1>1, <2>1 DEF Kept
    <2>2. CASE Keeps(RangeOf(j, m).unit, RangeOf(j, m))
          BY <2>2 DEF Keeps, RangeOf, Kept
    <2> QED BY <1>2, <2>1, <2>2 DEF Whole
<1>3. all \/ source = "native"
      BY <1>1 DEF Whole
<1> QED BY <1>1, <1>2, <1>3

(* A pc inside the code of a row is shown with the row's line: the table   *)
(* has the row, the lookup finds it among the rows of all units, and the   *)
(* slide leads back to where the row is.  The row is one that is Whole: of *)
(* a table read from the section only where all headers are right.         *)
THEOREM RowsLocated ==
    ASSUME RowsTell
    PROVE  LocationsSpec => []LocatesRow
<1>1. PlaceInv => LocatesRow
    <2> SUFFICES ASSUME PlaceInv, out.cmd = "frame", LinesSlid, NEW r \in Ranges,
                        Whole(r), r.line > 0, Clear(r, True(out.pc))
                 PROVE  IF True(out.pc) - r.from > RowReach THEN out.place = NoPlace
                        ELSE /\ out.place.line = r.line
                             /\ OneFile(r.unit) => out.place.file = r.unit.files[1]
        BY DEF LocatesRow
    <2> DEFINE pc == out.pc
               base == image.base
               h == LookupPc(ln, pc)
    <2>1. /\ image \in Images /\ loaded \in Nat /\ pc \in Nat /\ base \in Nat /\ phase = "prompt"
          /\ out.place = LineAtPc(ln, pc) /\ RowReach \in Nat
          BY LocationsAssumption DEF PlaceInv, ReaderInv, DecodeInv
    <2>2. PICK i, k : IsRow(image, i, k) /\ IsRow(image, i, k + 1) /\ r = RangeOf(i, k)
          BY <2>1, RangeIs
    <2>3. True(pc) = pc - loaded + base /\ True(pc) \in Int
          BY <2>1 DEF True
    <2>4. Alone(i, k, True(pc))
        <3>1. RowOf(image, i, k + 1).address \in Int
              BY <2>1, <2>2, CopiedIs DEF LineRow
        <3> QED BY <2>1, <2>2, <2>3, <3>1, ClearIs
    <2>5. PICK all \in BOOLEAN : /\ TableIs(image, entries, all) /\ Kept(image, i, k, all)
                                 /\ all \/ source = "native"
          BY <2>1, <2>2, WholeKept
    <2>6. /\ h # NoRow /\ h \in DOMAIN entries /\ Shows(entries[h], image, i, k, all)
          /\ \A g \in DOMAIN entries : RuntimeAddr(ln, g) <= pc => RuntimeAddr(ln, g) <= RuntimeAddr(ln, h)
          BY <2>1, <2>4, <2>5, LookupAt
    <2>7. /\ ln.entries = entries /\ ln.slide = loaded - base
          /\ entries \in Seq(TableRow) /\ ln.slide \in Int
          BY <2>1, <2>5 DEF ln, LinesSlid, TableIs
    <2>8. /\ \A g \in DOMAIN entries : RuntimeAddr(ln, g) \in Int
          /\ RuntimeAddr(ln, h) = entries[h].address + ln.slide
          BY <2>6, <2>7, RuntimeIs
    <2>9. /\ entries[h].address = r.from /\ entries[h].line = r.line /\ r.from \in Nat /\ r.line \in Nat
          /\ OneFile(r.unit) => entries[h].file = r.unit.files[1]
          BY <2>1, <2>2, <2>5, <2>6, CopiedIs, OneIs DEF Shows, RangeOf, LineRow
    <2>10. pc > RuntimeAddr(ln, h) + RowReach <=> True(pc) - r.from > RowReach
        <3> DEFINE x == r.from
                   y == RuntimeAddr(ln, h)
        <3>1. x \in Nat /\ y = x + ln.slide
              BY <2>8, <2>9
        <3> HIDE DEF x, y, pc, base
        <3>2. pc > y + RowReach <=> True(pc) - x > RowReach
              BY <2>1, <2>3, <2>7, <3>1
        <3> QED BY <3>2 DEF x, y
    <2>11. ~ \E g \in DOMAIN ln.entries : RuntimeAddr(ln, h) < RuntimeAddr(ln, g) /\ RuntimeAddr(ln, g) <= pc
        <3> SUFFICES ASSUME NEW g \in DOMAIN entries, RuntimeAddr(ln, h) < RuntimeAddr(ln, g),
                            RuntimeAddr(ln, g) <= pc
                     PROVE  FALSE
            BY <2>7
        <3>1. RuntimeAddr(ln, g) <= RuntimeAddr(ln, h)
              BY <2>6
        <3> HIDE DEF h
        <3> QED BY <2>6, <2>8, <3>1
    <2> HIDE DEF h, pc
    <2>12. EntryAtPc(ln, pc) = IF True(pc) - r.from > RowReach THEN NoRow ELSE h
           BY <2>6, <2>7, <2>9, <2>10, <2>11 DEF EntryAtPc, h
    <2>13. CASE True(pc) - r.from > RowReach
           BY <2>1, <2>12, <2>13 DEF LineAtPc, PlaceOf, pc
    <2>14. CASE ~ (True(pc) - r.from > RowReach)
        <3>1. out.place = [file |-> entries[h].file, line |-> entries[h].line]
              BY <2>1, <2>6, <2>7, <2>12, <2>14 DEF LineAtPc, PlaceOf
        <3> QED BY <2>9, <2>14, <3>1 DEF pc
    <2> QED BY <2>13, <2>14
<1> QED BY <1>1, PlacesKept, PTL

-----------------------------------------------------------------------------
(* Breakpoints on a line.                                                  *)

(* A row of the table that is not at address 0 is where code of its line   *)
(* begins: where it ends a sequence the row before is at the same address  *)
(* or a lower one, and the lookup takes the lowest.                        *)
LEMMA LowestBegins ==
    ASSUME RowsTell, image \in Images, NEW all \in BOOLEAN, TableIs(image, entries, all),
           all \/ source = "native", NEW x \in Range(entries), x.address # 0,
           NEW filter, FileMatches(x.file, filter),
           \A y \in Range(entries) :
              y.line = x.line /\ FileMatches(y.file, filter) => x.address <= y.address
    PROVE  \E r \in Ranges : /\ r.from = x.address /\ r.line = x.line
                             /\ OneFile(r.unit) => FileMatches(r.unit.files[1], filter)
<1>1. PICK i, k : IsRow(image, i, k) /\ ShowsWell(x, image, i, k, Range(entries), all)
      BY DEF TableIs
<1> DEFINE rows == image.units[i].rows
           n == Len(rows)
<1>2. /\ i \in DOMAIN image.units /\ k \in 1 .. n /\ n \in Nat /\ DOMAIN rows = 1 .. n
      /\ k \in Nat \ {0} /\ rows # <<>>
    <2>1. i \in DOMAIN image.units /\ k \in 1 .. n /\ n \in Nat /\ k \in Nat \ {0}
          BY <1>1, CopiedIs DEF IsRow
    <2>2. rows \in Seq(LineRow)
          BY <2>1, UnitFacts
    <2> QED BY <2>1, <2>2
<1>3. rows[n].end /\ (rows[k].end => k > 1 /\ ~ rows[k - 1].end /\ rows[k - 1].address <= rows[k].address)
      BY <1>2 DEF RowsTell
<1>4. Shows(x, image, i, k, all)
      BY <1>1 DEF ShowsWell
<1>5. CASE ~ rows[k].end
    <2>1. IsRow(image, i, k + 1)
        <3>1. k # n
              BY <1>3, <1>5
        <3>2. k + 1 \in 1 .. n
            <4> HIDE DEF n
            <4> QED BY <1>2, <3>1
        <3> QED BY <1>2, <3>2 DEF IsRow
    <2>2. RangeOf(i, k) \in Ranges
          BY <1>1, <1>5, <2>1, RangeIs DEF RowOf
    <2>3. RangeOf(i, k).from = x.address /\ RangeOf(i, k).line = x.line
          BY <1>4 DEF RangeOf, Shows
    <2>4. OneFile(RangeOf(i, k).unit) => FileMatches(RangeOf(i, k).unit.files[1], filter)
          BY <1>4, OneIs DEF RangeOf, Shows
    <2> QED BY <2>2, <2>3, <2>4
<1>6. CASE rows[k].end
    <2> DEFINE m == k - 1
    <2>1. Ends(image, i, k)
          BY <1>3, <1>6 DEF Ends, RowOf
    <2>2. PICK y \in Range(entries) : Shows(y, image, i, m, all) /\ y.line = x.line /\ y.file = x.file
          BY <1>1, <2>1 DEF ShowsWell
    <2>3. IsRow(image, i, m) /\ m + 1 = k
          BY <1>1, <1>2, <2>1, BeforeEnd
    <2>4. y.address = x.address
        <3>1. x.address <= y.address
              BY <2>2
        <3>2. y.address <= x.address
              BY <1>3, <1>4, <1>6, <2>2 DEF Shows, RowOf
        <3>3. x.address \in Nat /\ y.address \in Nat
            <4>1. \A z \in Range(entries) : z.address \in Nat
                <5>1. entries \in Seq(TableRow)
                      BY DEF TableIs
                <5>2. \A j \in DOMAIN entries : entries[j] \in TableRow
                      BY <5>1
                <5>3. \A z \in TableRow : z.address \in Nat
                      BY DEF TableRow
                <5> QED BY <5>2, <5>3 DEF Range
            <4> QED BY <4>1, <2>2
        <3> DEFINE a == x.address
                   b == y.address
        <3> HIDE DEF a, b
        <3>4. a = b
            <4>1. a \in Nat /\ b \in Nat /\ a <= b /\ b <= a
                  BY <3>1, <3>2, <3>3 DEF a, b
            <4> QED BY <4>1
        <3> QED BY <3>4 DEF a, b
    <2>5. RangeOf(i, m) \in Ranges
        <3>1. ~ RowOf(image, i, m).end
              BY <1>3, <1>6 DEF RowOf
        <3> HIDE DEF m
        <3>2. IsRow(image, i, m + 1)
              BY <1>1, <2>3
        <3> QED BY <2>3, <3>1, <3>2, RangeIs
    <2> HIDE DEF m
    <2>6. RangeOf(i, m).from = x.address /\ RangeOf(i, m).line = x.line
          BY <2>2, <2>4 DEF RangeOf, Shows
    <2>7. OneFile(RangeOf(i, m).unit) => FileMatches(RangeOf(i, m).unit.files[1], filter)
          BY <2>2, OneIs DEF RangeOf, Shows
    <2> QED BY <2>5, <2>6, <2>7
<1> QED BY <1>5, <1>6

(* The three arms of BreakAddress' CASE.                                   *)
LEMMA BreakArms ==
    ASSUME NEW v, NEW x, NEW y, NEW z
    PROVE  LET w == CASE v = "fileline" -> x [] v = "number" -> y [] v = "name" -> z
           IN  /\ v = "fileline" => w = x
               /\ v = "name" => w = z
OBVIOUS

(* What cmd_break resolves a file and line, and a name, to.                *)
LEMMA BreakIs ==
    ASSUME NEW t
    PROVE  /\ t.kind = "fileline" => BreakAddress(t) = LineAddress(t)
           /\ t.kind = "name" => BreakAddress(t) =
                IF NameAddress(t) = NoAddress THEN NoAddress
                ELSE IF NextLineAfterPc(ln, NameAddress(t)) # NoRow
                     THEN RuntimeAddr(ln, NextLineAfterPc(ln, NameAddress(t)))
                     ELSE NameAddress(t)
<1> DEFINE x == LineAddress(t)
           y == IF LineAddress(t) # NoAddress THEN LineAddress(t) ELSE t.line
           z == IF NameAddress(t) = NoAddress THEN NoAddress
                ELSE IF NextLineAfterPc(ln, NameAddress(t)) # NoRow
                     THEN RuntimeAddr(ln, NextLineAfterPc(ln, NameAddress(t)))
                     ELSE NameAddress(t)
<1>1. BreakAddress(t) = CASE t.kind = "fileline" -> x [] t.kind = "number" -> y [] t.kind = "name" -> z
      BY DEF BreakAddress
<1> HIDE DEF x, y, z
<1>2. /\ t.kind = "fileline" => BreakAddress(t) = x
      /\ t.kind = "name" => BreakAddress(t) = z
      BY <1>1, BreakArms
<1> QED BY <1>2 DEF x, z

(* A breakpoint that was written for a line is where code of it begins, by *)
(* the table of dwarfdump's output or, where every header is accepted and  *)
(* every program entered where it begins, by the one of the section        *)
(* (resolve_break_line).                                                   *)
THEOREM LinesBroken ==
    ASSUME RowsTell
    PROVE  LocationsSpec => []BreakOnLine
<1>1. PlaceInv => BreakOnLine
    <2> DEFINE t == out.target
               Matches(x) == x.line = t.line /\ FileMatches(x.file, t.file)
    <2> SUFFICES ASSUME PlaceInv, out.cmd = "break", t.kind = "fileline", out.address # NoAddress,
                        LinesSlid, source = "dwarfdump" \/ \A u \in Units : Aligned(u)
                 PROVE  \E r \in Ranges :
                            /\ r.from = True(out.address)
                            /\ r.line = t.line
                            /\ OneFile(r.unit) => FileMatches(r.unit.files[1], t.file)
        BY DEF BreakOnLine
    <2> DEFINE base == image.base
               rows == {i \in DOMAIN ln.entries : Matches(ln.entries[i])}
               row == LookupLine(ln, t.file, t.line)
    <2>1. /\ image \in Images /\ loaded \in Nat /\ base \in Nat \ {0} /\ phase = "prompt"
          /\ source \in {"none", "dwarfdump", "native", "failed"}
          /\ source \in {"none", "failed"} => entries = <<>>
        <3>1. image \in Images
              BY DEF PlaceInv, ReaderInv, DecodeInv
        <3>2. base \in Nat /\ base # 0
              BY <3>1, LocationsAssumption DEF RowsTell
        <3> QED BY <3>1, <3>2 DEF PlaceInv, ReaderInv
    <2>2. out.address = LineAddress(t) /\ Mapped(out.address)
          BY BreakIs DEF PlaceInv, LookedUp
    <2>3. row = LowestOf(ln, rows)
          BY DEF LookupLine
    <2>4. row # NoRow /\ out.address = RuntimeAddr(ln, row)
        <3> HIDE DEF row
        <3>1. LineAddress(t) = IF row = NoRow THEN NoAddress ELSE RuntimeAddr(ln, row)
              BY DEF LineAddress, row
        <3> QED BY <2>2, <3>1
    <2>5. rows # {}
          BY <2>3, <2>4 DEF LowestOf
    <2>6. entries # <<>>
          BY <2>5 DEF ln
    <2>7. PICK all \in BOOLEAN : TableIs(image, entries, all) /\ (all \/ source = "native")
        <3>1. source = "dwarfdump" \/ (source = "native" /\ \A u \in Units : Aligned(u))
              BY <2>1, <2>6
        <3> QED BY <2>1, <3>1, TableThere
    <2>8. /\ ln.entries = entries /\ ln.slide = loaded - base /\ ln.slide \in Int
          /\ entries \in Seq(TableRow)
          BY <2>1, <2>7 DEF ln, LinesSlid, TableIs
    <2>9. row \in rows /\ \A j \in rows : RuntimeAddr(ln, row) <= RuntimeAddr(ln, j)
        <3>1. rows \in SUBSET (DOMAIN ln.entries)
              OBVIOUS
        <3> HIDE DEF rows, row
        <3> QED BY <2>3, <2>5, <2>8, <3>1, LowestFound
    <2>10. \A i \in DOMAIN entries :
             /\ entries[i].address \in Nat /\ RuntimeAddr(ln, i) = entries[i].address + ln.slide
             /\ RuntimeAddr(ln, i) \in Int
           BY <2>8, RuntimeIs
    <2> DEFINE x == entries[row]
    <2> HIDE DEF row
    <2>11. row \in DOMAIN entries /\ x \in Range(entries) /\ x.line = t.line /\ FileMatches(x.file, t.file)
           BY <2>8, <2>9 DEF Range
    <2>12. x.address = True(out.address) /\ x.address # 0
        <3> DEFINE a == x.address
                   b == out.address
                   limit == image.limit
        <3>1. a \in Nat /\ b = a + ln.slide
              BY <2>4, <2>10, <2>11
        <3>2. limit \in Nat
              BY <2>1, LocationsAssumption
        <3>3. b \in loaded .. loaded + (limit - base) - 1
              BY <2>2 DEF Mapped
        <3>4. True(b) = b - loaded + base
              BY DEF True
        <3> HIDE DEF a, b, base, limit
        <3>5. a = b - loaded + base /\ a # 0
              BY <2>1, <2>8, <3>1, <3>2, <3>3
        <3> QED BY <3>4, <3>5 DEF a, b
    <2>13. ASSUME NEW y \in Range(entries), y.line = x.line, FileMatches(y.file, t.file)
           PROVE  x.address <= y.address
        <3>1. PICK j \in DOMAIN entries : y = entries[j]
              BY DEF Range
        <3>2. j \in rows
              BY <2>8, <2>11, <2>13, <3>1
        <3> DEFINE a == x.address
                   b == entries[j].address
        <3>3. /\ a \in Nat /\ RuntimeAddr(ln, row) = a + ln.slide
              /\ b \in Nat /\ RuntimeAddr(ln, j) = b + ln.slide
              /\ RuntimeAddr(ln, row) <= RuntimeAddr(ln, j)
              BY <2>9, <2>10, <2>11, <3>2
        <3> HIDE DEF a, b
        <3>4. a <= b
            <4>1. a + ln.slide <= b + ln.slide
                  BY <3>3
            <4> QED BY <2>8, <3>3, <4>1
        <3> QED BY <3>1, <3>4 DEF a, b
    <2> HIDE DEF x
    <2>14. \E r \in Ranges : /\ r.from = x.address /\ r.line = x.line
                             /\ OneFile(r.unit) => FileMatches(r.unit.files[1], t.file)
           BY <2>1, <2>7, <2>11, <2>12, <2>13, LowestBegins
    <2> QED BY <2>11, <2>12, <2>14
<1> QED BY <1>1, PlacesKept, PTL

-----------------------------------------------------------------------------
(* Breakpoints on a function.                                              *)

\* The code of f, and what BreakInBody asks of it.
Own(f) == {r \in Ranges : r.unit = image.units[f.unit] /\ r.from \in f.from .. f.to - 1}
Plain(f) ==
    /\ \A r \in Own(f) : Whole(r) /\ OneFile(r.unit)
    /\ \E r \in Own(f) : Clear(r, f.from)
    /\ \E r, s \in Own(f) : r.line # s.line

(* From the entry of a function the lookup finds the next other line, and  *)
(* it is in the function.                                                  *)
LEMMA BodyFound ==
    ASSUME RowsTell, PlaceInv, phase = "prompt", LinesSlid, NEW f \in image.functions, Plain(f),
           NEW pc, pc = f.from + slide
    PROVE  /\ NextLineAfterPc(ln, pc) # NoRow
           /\ True(RuntimeAddr(ln, NextLineAfterPc(ln, pc))) \in f.from + 1 .. f.to - 1
<1> DEFINE base == image.base
           from == f.from
           to == f.to
           h == LookupPc(ln, pc)
           unit == image.units[f.unit]
<1>1. /\ image \in Images /\ loaded \in Nat /\ base \in Nat /\ from \in Nat /\ to \in Nat
      BY LocationsAssumption DEF PlaceInv, ReaderInv, DecodeInv
<1>2. slide = loaded - base /\ slide \in Int /\ pc \in Int /\ True(pc) = from
    <2>1. slide = loaded - base /\ True(pc) = pc - loaded + base
          BY DEF LinesSlid, True
    <2> HIDE DEF base, from
    <2> QED BY <1>1, <2>1 DEF from
<1>3. PICK r \in Own(f) : Clear(r, from)
      BY DEF Plain
<1>4. /\ r \in Ranges /\ r.unit = unit /\ r.from \in from .. to - 1 /\ Whole(r) /\ OneFile(unit)
      BY DEF Own, Plain
<1>5. PICK i, k : IsRow(image, i, k) /\ IsRow(image, i, k + 1) /\ r = RangeOf(i, k)
      BY <1>1, <1>4, RangeIs
<1>6. PICK all \in BOOLEAN : /\ TableIs(image, entries, all) /\ (all \/ source = "native")
                             /\ \A j, m : Whole(RangeOf(j, m)) => Kept(image, j, m, all)
      BY <1>4, <1>5, WholeKept
<1>7. Alone(i, k, from) /\ r.from = from
    <2>1. RowOf(image, i, k + 1).address \in Int
          BY <1>1, <1>5, CopiedIs DEF LineRow
    <2>2. from \in Int
          BY <1>1
    <2>3. Alone(i, k, from)
          BY <1>1, <1>3, <1>5, <2>1, <2>2, ClearIs
    <2>4. r.from <= from
          BY <1>5, <2>3 DEF Alone, RangeOf
    <2> DEFINE x == r.from
    <2>5. x \in from .. to - 1 /\ x <= from
          BY <1>4, <2>4
    <2> HIDE DEF x, from, to
    <2>6. x = from
          BY <1>1, <2>5
    <2> QED BY <2>3, <2>6 DEF x
<1>8. h # NoRow /\ h \in DOMAIN entries /\ Shows(entries[h], image, i, k, all)
    <2>1. Kept(image, i, k, all)
          BY <1>4, <1>5, <1>6
    <2>2. Alone(i, k, True(pc))
          BY <1>2, <1>7
    <2> QED BY <1>1, <1>2, <1>6, <2>1, <2>2, LookupAt
<1> HIDE DEF h
<1>9. entries[h].line = r.line /\ entries[h].file = unit.files[1]
      BY <1>4, <1>5, <1>6, <1>8, OneIs DEF Shows, RangeOf
<1>10. PICK s \in Own(f) : s.line # r.line
       BY DEF Plain
<1>11. s \in Ranges /\ s.unit = unit /\ s.from \in from .. to - 1 /\ Whole(s)
       BY DEF Own, Plain
<1>12. PICK j, m : IsRow(image, j, m) /\ s = RangeOf(j, m)
       BY <1>1, <1>11, RangeIs
<1>13. s.from # from
    <2> SUFFICES ASSUME s.from = from
                 PROVE  FALSE
        OBVIOUS
    <2>1. RowOf(image, j, m).address = from /\ RowOf(image, i, k).address = from
          BY <1>5, <1>7, <1>12 DEF RangeOf
    <2>2. from \in from .. from
        <3> HIDE DEF from
        <3> QED BY <1>1
    <2>3. j = i /\ m = k
          BY <1>7, <1>12, <2>1, <2>2 DEF Alone
    <2> QED BY <1>5, <1>10, <1>12, <2>3
<1>14. PICK g \in DOMAIN entries : Shows(entries[g], image, j, m, all)
    <2>1. Kept(image, j, m, all)
          BY <1>6, <1>11, <1>12
    <2>2. PICK x \in Range(entries) : Shows(x, image, j, m, all)
          BY <1>6, <1>12, <2>1 DEF TableIs
    <2> QED BY <2>2 DEF Range
<1>15. /\ entries[g].line = s.line /\ entries[g].file = unit.files[1] /\ entries[g].address = s.from
       BY <1>4, <1>6, <1>11, <1>12, <1>14, OneIs DEF Shows, RangeOf
<1>16. /\ ln.entries = entries /\ ln.slide = slide /\ ln.slide \in Int /\ entries \in Seq(TableRow)
       BY <1>2, <1>6 DEF ln, TableIs
<1>17. \A q \in DOMAIN entries :
          /\ entries[q].address \in Nat /\ RuntimeAddr(ln, q) = entries[q].address + slide
          /\ RuntimeAddr(ln, q) \in Int
       BY <1>16, RuntimeIs
<1> DEFINE others == {q \in DOMAIN ln.entries : /\ RuntimeAddr(ln, q) > pc
                                               /\ ln.entries[q].file = ln.entries[h].file
                                               /\ ln.entries[q].line # ln.entries[h].line}
           next == NextLineAfterPc(ln, pc)
<1>18. next = LowestOf(ln, others)
       BY <1>8 DEF NextLineAfterPc, h
<1>19. RuntimeAddr(ln, g) > pc /\ RuntimeAddr(ln, g) < to + slide
    <2> DEFINE x == s.from
               y == RuntimeAddr(ln, g)
    <2>1. x \in from .. to - 1 /\ x # from /\ y = x + slide
          BY <1>11, <1>13, <1>14, <1>15, <1>17
    <2> HIDE DEF x, y
    <2>2. pc = from + slide
          OBVIOUS
    <2> HIDE DEF from, to
    <2>3. y > pc /\ y < to + slide
          BY <1>1, <1>2, <2>1, <2>2
    <2> QED BY <2>3 DEF y
<1>20. g \in others
       BY <1>9, <1>10, <1>14, <1>15, <1>16, <1>19
<1>21. next # NoRow /\ next \in others /\ RuntimeAddr(ln, next) <= RuntimeAddr(ln, g)
    <2>1. others \in SUBSET (DOMAIN ln.entries) /\ others # {}
          BY <1>20
    <2> HIDE DEF others, next
    <2> QED BY <1>16, <1>18, <1>20, <2>1, LowestFound
<1> HIDE DEF next
<1>22. True(RuntimeAddr(ln, next)) \in from + 1 .. to - 1
    <2> DEFINE x == RuntimeAddr(ln, next)
               y == RuntimeAddr(ln, g)
    <2>1. x \in Int /\ y \in Int /\ x > pc /\ x <= y /\ y < to + slide
          BY <1>14, <1>16, <1>17, <1>19, <1>21
    <2>2. True(x) = x - loaded + base /\ pc = from + slide
          BY DEF True
    <2> HIDE DEF x, y, from, to, base
    <2>3. True(x) \in from + 1 .. to - 1
          BY <1>1, <1>2, <2>1, <2>2
    <2> QED BY <2>3 DEF x
<1> QED BY <1>21, <1>22 DEF next

\* The table has no symbol of the name of a function but where it begins.
Named(f) == {x \in SymEntry : x.name = f.name => x.address = f.from}
NamedTold == \A f \in image.functions :
                syms.entries \in Seq(SymEntry) /\ Within(syms.entries, Named(f))
NamedInv ==
    /\ image \in Images
    /\ DOMAIN syms = {"entries", "slide"}
    /\ phase \in {"forked", "spawned"} \/ loaded # NoProcess => NamedTold

(* What the readers take from the objects.                                 *)
LEMMA NamesListed ==
    ASSUME NamesTell, image \in Images, NEW f \in image.functions, NEW i \in DOMAIN image.objects
    PROVE  Lists(image.objects[i], Named(f))
<1> DEFINE object == image.objects[i]
<1>1. \A sym \in Range(object) : sym.name = f.name => sym.address = f.from
      BY DEF NamesTell
<1>2. object \in Seq(Symbol)
      BY LocationsAssumption
<1> HIDE DEF object
<1>3. ASSUME NEW sym \in Range(object)
      PROVE  EntryOf(sym) \in Named(f) /\ EntryOf(Retyped(sym)) \in Named(f)
    <2>1. sym \in Symbol
          BY <1>2 DEF Range
    <2>2. /\ Retyped(sym) \in Symbol /\ Retyped(sym).name = sym.name
          /\ Retyped(sym).address = sym.address
          BY <2>1, RetypedIs
    <2>3. \A s \in Symbol : /\ EntryOf(s) \in SymEntry /\ EntryOf(s).address = s.address
                            /\ EntryOf(s).name = s.name
          BY DEF Symbol, SymEntry, EntryOf
    <2> QED BY <1>1, <2>1, <2>2, <2>3 DEF Named
<1> QED BY <1>3 DEF Lists, object

(* NamedInv is an invariant.                                               *)
LEMMA NamedKept ==
    ASSUME NamesTell
    PROVE  LocationsSpec => []NamedInv
<1>1. Init => NamedInv
      BY DEF Init, LoadInit, NamedInv, NoProcess, NoSyms
<1>2. NamedInv /\ [Next]_vars => NamedInv'
    <2> SUFFICES ASSUME NamedInv, [Next]_vars
                 PROVE  NamedInv'
        OBVIOUS
    <2>1. ASSUME image' = image, syms'.entries = syms.entries, DOMAIN syms' = DOMAIN syms,
                 phase' \in {"forked", "spawned"} \/ loaded' # NoProcess =>
                     phase \in {"forked", "spawned"} \/ loaded # NoProcess
          PROVE  NamedInv'
        <3>1. NamedTold' <=> NamedTold
              BY <2>1 DEF NamedTold, Named
        <3> QED BY <2>1, <3>1 DEF NamedInv
    <2>2. CASE UNCHANGED vars
          BY <2>1, <2>2 DEF vars, loadVars
    <2>3. CASE CmdRun
          BY <2>3 DEF CmdRun, NamedInv, NoSyms, NoProcess
    <2>4. CASE LoadLines
          BY <2>1, <2>4, ImageKept DEF LoadLines
    <2>5. CASE LoadSymbols
        <3>1. image \in Images /\ image' = image /\ DOMAIN syms' = {"entries", "slide"}
              BY <2>5 DEF NamedInv, LoadSymbols, loadVars
        <3>2. ASSUME NEW f \in image.functions
              PROVE  syms'.entries \in Seq(SymEntry) /\ Within(syms'.entries, Named(f))
            <4> DEFINE W == Named(f)
            <4>1. \A i \in DOMAIN image.objects : Lists(image.objects[i], W)
                  BY <3>1, NamesListed
            <4> HIDE DEF W
            <4>2. syms'.entries \in Seq(SymEntry) /\ Within(syms'.entries, W)
                  BY <2>5, <3>1, <4>1, SymsRead
            <4> QED BY <4>2 DEF W
        <3>3. NamedTold'
              BY <3>1, <3>2 DEF NamedTold, Named
        <3> QED BY <3>1, <3>3 DEF NamedInv
    <2>6. CASE Spawn
        <3>1. /\ image' = image /\ phase = "forked"
              /\ DOMAIN syms' = DOMAIN syms /\ syms'.entries = syms.entries
              BY <2>6 DEF Spawn, loadVars, NamedInv
        <3> QED BY <2>1, <3>1
    <2>7. CASE Started
        <3>1. /\ image' = image /\ phase = "spawned"
              /\ DOMAIN syms' = DOMAIN syms /\ syms'.entries = syms.entries
              BY <2>7 DEF Started, loadVars, NamedInv
        <3> QED BY <2>1, <3>1
    <2>8. CASE ExecFailed \/ CmdKill
        <3>1. /\ image' = image /\ loaded' = NoProcess /\ phase' = "prompt" /\ syms' = syms
              BY <2>8 DEF ExecFailed, CmdKill, loadVars
        <3> QED BY <2>1, <3>1
    <2>9. ASSUME NEW t, NEW pc, CmdBreak(t) \/ CmdDis(t) \/ CmdList(t) \/ ShowFrame(pc)
          PROVE  NamedInv'
          BY <2>1, <2>9 DEF CmdBreak, CmdDis, CmdList, ShowFrame, loadVars
    <2> QED BY <2>2, <2>3, <2>4, <2>5, <2>6, <2>7, <2>8, <2>9 DEF Next
<1> QED BY <1>1, <1>2, PTL DEF LocationsSpec

(* A defined symbol of the name of a function is where it begins.          *)
LEMMA NameLeads ==
    ASSUME NamedInv, loaded # NoProcess, NEW f \in image.functions,
           NEW sym, sym = LookupName(syms, f.name), IsDefined(syms, sym)
    PROVE  SymAddr(syms, sym) = f.from + syms.slide
<1> DEFINE e == syms.entries
           same == {i \in DOMAIN e : e[i].name = f.name}
<1>1. e \in Seq(SymEntry) /\ Within(e, Named(f))
      BY DEF NamedInv, NamedTold
<1>2. sym # NoSym
      BY DEF IsDefined
<1>3. same # {}
      BY <1>2 DEF LookupName
<1>4. sym = CHOOSE i \in same : \A j \in same : i <= j
      BY <1>3 DEF LookupName
<1>5. \E i \in same : \A j \in same : i <= j
    <2>1. same \subseteq Nat
          BY <1>1
    <2> HIDE DEF same
    <2> QED BY <1>3, <2>1, LeastElement
<1>6. sym \in same
    <2> HIDE DEF same
    <2> QED BY <1>4, <1>5
<1>7. e[sym] \in Range(e) /\ e[sym].name = f.name
      BY <1>6 DEF Range
<1>8. e[sym].address = f.from
      BY <1>1, <1>7 DEF Within, Named
<1> QED BY <1>8 DEF SymAddr

(* A breakpoint for a function is in its body, and so is the stop before   *)
(* main, provided the table has the function's rows (Whole).               *)
THEOREM BodiesBroken ==
    ASSUME RowsTell, NamesTell
    PROVE  LocationsSpec => []BreakInBody
<1>1. PlaceInv /\ NamedInv => BreakInBody
    <2> SUFFICES ASSUME PlaceInv, NamedInv, NEW f \in image.functions, Plain(f),
                        LinesSlid, SymsSlid, out.address # NoAddress,
                        \/ out.cmd = "break" /\ out.target.kind = "name" /\ out.target.name = f.name
                        \/ out.cmd = "run" /\ f.name = "_main"
                 PROVE  True(out.address) \in f.from + 1 .. f.to - 1
        BY DEF BreakInBody, Plain, Own
    <2> DEFINE sym == LookupName(syms, f.name)
               pc == f.from + slide
               next == NextLineAfterPc(ln, pc)
    <2>1. phase = "prompt" /\ loaded # NoProcess
          BY DEF PlaceInv, LinesSlid
    <2>2. next # NoRow /\ True(RuntimeAddr(ln, next)) \in f.from + 1 .. f.to - 1
          BY <2>1, BodyFound
    <2>3. IsDefined(syms, sym) => SymAddr(syms, sym) = pc
        <3>1. IsDefined(syms, sym) => SymAddr(syms, sym) = f.from + syms.slide
              BY <2>1, NameLeads
        <3>2. syms.slide = slide
              BY DEF SymsSlid, LinesSlid
        <3> QED BY <3>1, <3>2
    <2> HIDE DEF pc
    <2>4. CASE out.cmd = "break" /\ out.target.kind = "name" /\ out.target.name = f.name
        <3> DEFINE t == out.target
        <3>1. out.address = BreakAddress(t)
              BY <2>4 DEF PlaceInv, LookedUp
        <3>2. NameAddress(t) = IF IsDefined(syms, sym) THEN SymAddr(syms, sym) ELSE NoAddress
              BY <2>4 DEF NameAddress
        <3> HIDE DEF sym
        <3>3. NameAddress(t) # NoAddress /\ NameAddress(t) = pc
              BY <2>3, <2>4, <3>1, <3>2, BreakIs
        <3>4. out.address = RuntimeAddr(ln, next)
              BY <2>2, <2>4, <3>1, <3>3, BreakIs
        <3> QED BY <2>2, <3>4
    <2>5. CASE out.cmd = "run" /\ f.name = "_main"
        <3>1. out.address = EntryAddress(ln, syms)
              BY <2>5 DEF PlaceInv, LookedUp
        <3>2. sym = LookupName(syms, "_main")
              BY <2>5
        <3> HIDE DEF sym
        <3>3. IsDefined(syms, sym)
              BY <3>1, <3>2 DEF EntryAddress
        <3>4. EntryAddress(ln, syms) = RuntimeAddr(ln, next)
              BY <2>2, <2>3, <3>2, <3>3 DEF EntryAddress
        <3> QED BY <2>2, <3>1, <3>4
    <2> QED BY <2>4, <2>5
<1> QED BY <1>1, PlacesKept, NamedKept, PTL
=============================================================================
