------------------------------- MODULE MCData -------------------------------
(***************************************************************************)
(* A program for TLC, with bytes of one bit.                               *)
(*   main has locals of several types, a block with x and, nested in it, a *)
(*   block with another x and with y; g is called from the inner block.    *)
(* Text is one page at 16, data one at 64, the stack six from 96 to 191.   *)
(***************************************************************************)
EXTENDS DataCommands, TLC

T(b) == [base |-> b, stars |-> 0, dim |-> 0]
Ptr(b) == [base |-> b, stars |-> 1, dim |-> 0]
Arr(b, n) == [base |-> b, stars |-> 0, dim |-> n]

Die(tag, depth, name, type, base, at) ==
    [tag |-> tag, depth |-> depth, name |-> name, type |-> type, base |-> base, at |-> at,
     low |-> 0, high |-> 0]
Var(depth, name, type, base, at) == Die("variable", depth, name, type, base, at)
Code(tag, depth, low, high) == [Die(tag, depth, "", NoType, "none", 0) EXCEPT !.low = low, !.high = high]
Null(depth) == Die("null", depth, "", NoType, "none", 0)

SomeDies == <<
    Code("compile_unit", 1, 8, 22),
    Var(3, "total", UnsignedLong, "addr", 56),
    Var(3, "flag", T("int"), "addr", 64),
    Code("subprogram", 3, 8, 16),
    Var(5, "i", T("int"), "fp", -4),
    Var(5, "c", T("unsigned char"), "fp", -5),
    Var(5, "s", T("short"), "fp", -8),
    Var(5, "a", Arr("int", 2), "fp", -16),
    Var(5, "n", T("node"), "fp", -24),
    Var(5, "p", Ptr("node"), "fp", -32),
    Var(5, "kept", T("int"), "addr", 68),
    Code("lexical_block", 5, 10, 14),
    Var(7, "x", T("int"), "sp", 0),
    Code("lexical_block", 7, 11, 13),
    Var(9, "x", T("int"), "sp", 4),
    Var(9, "y", T("unsigned char"), "fp", -6),
    Null(9), Null(7), Null(5),
    Code("subprogram", 3, 16, 22),
    Die("formal_parameter", 5, "np", Ptr("node"), "fp", -8),
    Var(5, "k", T("long"), "sp", 0),
    Null(5), Null(3) >>

SomeStructs ==
    [node |-> [size |-> 8, members |-> <<[name |-> "val", type |-> T("int"), offset |-> 0],
                                         [name |-> "tag", type |-> T("char"), offset |-> 4]>>]]

SomeWords == [b \in {"int", "unsigned char", "char", "short", "long", "unsigned long", "node"} |->
    CASE b = "unsigned char" -> {"unsigned", "char"}
      [] b = "unsigned long" -> {"unsigned", "long"}
      [] b = "node" -> {}
      [] OTHER -> {b}]
SomePlainBases == DOMAIN SomeWords
SomeCSizes == [int |-> 4, char |-> 1, short |-> 2, long |-> 8] @@ ("unsigned char" :> 1) @@ ("unsigned long" :> 8)
SomeCSigned == {"int", "char", "short", "long"}

SomeTable == [slide |-> Slide, entries |-> <<
    [address |-> 8, type |-> "T", name |-> "_main"],
    [address |-> 16, type |-> "t", name |-> "_g"],
    [address |-> 56, type |-> "D", name |-> "_total"],
    [address |-> 64, type |-> "S", name |-> "_flag"],
    [address |-> 68, type |-> "d", name |-> "_main.kept"]>>]

-----------------------------------------------------------------------------
\* The frames: g's record at 120, main's at 176, which leads to one that is
\* not mapped.
Initials == <<
    <<64, 8, 130>>, <<72, 4, 1>>,
    <<104, 8, 3>>, <<112, 8, 152>>, <<120, 8, 176>>, <<128, 8, 20>>,
    <<136, 4, 2>>, <<140, 4, 15>>, <<144, 8, 152>>, <<152, 4, 14>>, <<156, 1, 1>>,
    <<160, 4, 3>>, <<164, 4, 9>>, <<168, 2, 1>>, <<170, 1, 1>>, <<171, 1, 1>>, <<172, 4, 1>>,
    <<176, 8, 200>>, <<184, 8, 30>> >>

SomeMemory0 ==
    FoldLeft(LAMBDA m, w : Put(m, w[1], BytesOf(w[3], w[2])),
        [bytes |-> [x \in 16 .. 31 \cup 64 .. 79 \cup 96 .. 191 |-> 0],
         prot |-> [q \in {16, 64} \cup {96 + 16 * j : j \in 0 .. 5} |-> IF q = 16 THEN "rx" ELSE "rw"]],
        Initials)

At(pc, fp, sp) == [pc |-> pc, fp |-> fp, sp |-> sp, lr |-> 20, x0 |-> 0]
InMain == {At(pc, 176, 136) : pc \in {17, 21}}
InG == {At(26, 120, 104)}
SomeStops == InMain \cup InG
SomeCallerOf == [s \in SomeStops |->
    IF s \in InG THEN [pc |-> 20, fp |-> 176, sp |-> 136] ELSE [pc |-> 30, fp |-> 200, sp |-> 192]]

-----------------------------------------------------------------------------
Num(v) == [kind |-> "num", number |-> v]
Id(name) == [kind |-> "ident", ident |-> name]
Deref(n) == [kind |-> "deref", lhs |-> n]
Addr(n) == [kind |-> "addr", lhs |-> n]
Member(n, name) == [kind |-> "member", lhs |-> n, ident |-> name]
Arrow(n, name) == [kind |-> "arrow", lhs |-> n, ident |-> name]
Index(n, i) == [kind |-> "index", lhs |-> n, rhs |-> i]
Un(op, n) == [kind |-> "unary", op |-> op, lhs |-> n]
Bin(op, l, r) == [kind |-> "binary", op |-> op, lhs |-> l, rhs |-> r]

Names == {"i", "c", "s", "a", "n", "p", "x", "y", "np", "k", "total", "flag", "kept"}
SomePrintExprs ==
    {Id(name) : name \in Names}
    \cup {Arrow(Id("p"), "val"), Arrow(Id("np"), "tag"), Member(Id("n"), "val"), Deref(Id("p")),
          Index(Id("a"), Id("i")), Index(Id("p"), Id("i")), Member(Deref(Id("np")), "tag"),
          Addr(Arrow(Id("p"), "tag"))}
    \cup {Bin(op, Id("i"), Arrow(Id("p"), "val")) : op \in {"-", "*", "/", "<=", "=="}}
    \cup {Bin(op, Id("c"), Num(3)) : op \in {"<<", ">>"}}
    \cup {Un(op, Id("s")) : op \in {"-", "!"}}

SomeSets ==
    ({Id("i"), Id("p")} \X {Num(152), Bin("-", Id("i"), Num(2))})
    \cup {<<Id("k"), Num(120)>>, <<Member(Id("n"), "tag"), Num(1)>>, <<Deref(Num(78)), Num(85)>>,
          <<Index(Id("a"), Id("i")), Num(20)>>, <<Id("n"), Num(1)>>, <<Id("i"), Addr(Id("i"))>>,
          <<Deref(Num(18)), Num(85)>>}
SomeRegSets == {<<"x29", Num(120)>>, <<"pc", Bin("+", Num(16), Id("i"))>>, <<"x30", Bin("%", Num(1), Id("x"))>>}
SomeWatches == {<<Id("i"), {"store"}>>, <<Member(Id("n"), "tag"), {"load"}>>,
                <<Index(Id("a"), Num(1)), {"load", "store"}>>, <<Deref(Num(78)), {"store"}>>}
SomeAccesses ==
    {[addr |-> 172, size |-> 4, kind |-> "store", value |-> 5],
     [addr |-> 156, size |-> 1, kind |-> "load", value |-> 0],
     [addr |-> 152, size |-> 16, kind |-> "store", value |-> 257]}

-----------------------------------------------------------------------------
\* What the .cfg names: TLC evaluates a definition once, but the right-hand side
\* of a substitution at every use.
MCDies == SomeDies
MCStructs == SomeStructs
MCWords == SomeWords
MCPlainBases == SomePlainBases
MCCSizes == SomeCSizes
MCCSigned == SomeCSigned
MCTable == SomeTable
MCMemory0 == SomeMemory0
MCStops == SomeStops
MCCallerOf == SomeCallerOf
MCPrintExprs == SomePrintExprs
MCSets == SomeSets
MCRegSets == SomeRegSets
MCWatches == SomeWatches
MCAccesses == SomeAccesses
=============================================================================
