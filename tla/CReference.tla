----------------------------- MODULE CReference -----------------------------
(***************************************************************************)
(* What C says of a program that is stopped: which declaration a name      *)
(* means at a pc, and the place and the value of an expression, by types   *)
(* and scopes and without the debugger's rules.  It is defined for the     *)
(* part of the language the debugger's rules are made for, and is not ok   *)
(* outside it:                                                             *)
(*   - the base types of PlainBases, pointers to them, arrays of both;     *)
(*   - names that one declaration visible at the pc has, with a place in   *)
(*     the frame, or globals that are unsigned long (no static locals);    *)
(*   - pointers that are read from a place (of &e and of sums the debugger *)
(*     keeps the number and not the type);                                 *)
(*   - arithmetic whose operands are not negative and fit in a long.       *)
(***************************************************************************)
EXTENDS ExprEval

CONSTANTS
    PlainBases,     \* type names that mean the C type of that name
    CSizes,         \* the size of each base type that is no structure
    CSigned         \* the signed ones

Plain(t) == t.base \in PlainBases /\ t.stars <= 1

CSize(t) ==
    (IF t.dim > 0 THEN t.dim ELSE 1)
    * IF t.stars > 0 THEN WordSize
      ELSE IF t.base \in DOMAIN Structs THEN Structs[t.base].size
      ELSE CSizes[t.base]

-----------------------------------------------------------------------------
(* Scopes: the DIEs around a declaration                                   *)

Encloses(j, i) ==
    /\ j < i /\ Dies[j].depth < Dies[i].depth
    /\ \A k \in j + 1 .. i - 1 : Dies[k].depth > Dies[j].depth

ScopesOf ==
    [i \in DOMAIN Dies |-> {j \in DOMAIN Dies : Encloses(j, i) /\ HasRange(Dies[j])}]
InScope(i, pc) == \A j \in ScopesOf[i] : pc \in Dies[j].low .. Dies[j].high - 1

Declares(i) == Dies[i].tag \in {"variable", "formal_parameter"}
Visible(pc) == {i \in DOMAIN Dies : Declares(i) /\ InScope(i, pc)}
Meanings(name, pc) == {i \in DOMAIN Dies : Dies[i].name = name /\ Declares(i) /\ InScope(i, pc)}
Automatic(i) == Dies[i].base \in {"fp", "sp"}
InFunction(i) == \E j \in DOMAIN Dies : Encloses(j, i) /\ Dies[j].tag = "subprogram"

NoPlaceC == [ok |-> FALSE, addr |-> 0, type |-> NoType]
PlaceC(addr, type) ==
    [ok |-> Plain(type) /\ addr \in 0 .. WordValues - 1, addr |-> addr, type |-> type]

CDeclared(e, i) ==
    IF Dies[i].base = "addr"
    THEN [PlaceC(Dies[i].at + Slide, Dies[i].type)
            EXCEPT !.ok = Dies[i].type = UnsignedLong /\ ~ InFunction(i)]
    ELSE IF Dies[i].base = "none" THEN NoPlaceC
    ELSE PlaceC((IF Dies[i].base = "sp" THEN e.regs.sp ELSE e.regs.fp) + Dies[i].at, Dies[i].type)

COnly(e, same) ==
    IF \E i \in same : same = {i} THEN CDeclared(e, CHOOSE i \in same : TRUE) ELSE NoPlaceC

CVariable(e, name) == COnly(e, Meanings(name, LinkPc(e.regs)))

-----------------------------------------------------------------------------
(* Expressions                                                             *)

NoValueC == [ok |-> FALSE, value |-> 0, type |-> NoType]
Natural == 0 .. WordValues \div 2 - 1
Number(v) == [ok |-> -v \in Natural \/ v \in Natural, value |-> v, type |-> [NoType EXCEPT !.base = "long"]]

\* The value of a number or pointer at a place that can be read.
Readable(e, p) ==
    p.ok /\ p.type.dim = 0 /\ ~ IsStruct(p.type) /\ CanRead(e.mem, p.addr, CSize(p.type))

ReadC(e, p) ==
    IF Readable(e, p)
    THEN LET v == ValueOf(ReadBytes(e.mem, p.addr, CSize(p.type)))
         IN  [ok |-> TRUE, type |-> p.type,
              value |-> IF p.type.stars = 0 /\ p.type.base \in CSigned
                        THEN Signed(v, CSize(p.type)) ELSE v]
    ELSE NoValueC

\* The undefined cases are left out: division by zero, shifts that overflow.
Arithmetic(l, r, op) ==
    CASE op \in {"+", "-", "*"} ->
           Number(IF op = "+" THEN l + r ELSE IF op = "-" THEN l - r ELSE l * r)
      [] op \in {"/", "%"} ->
           IF r = 0 THEN NoValueC ELSE Number(IF op = "/" THEN l \div r ELSE l % r)
      [] op \in {"<<", ">>"} ->
           IF r >= WordSize * ByteBits THEN NoValueC
           ELSE Number(IF op = "<<" THEN l * 2 ^ r ELSE l \div 2 ^ r)
      [] op \in {"<", "<=", "==", "!="} ->
           Number(Truth(CASE op = "<" -> l < r [] op = "<=" -> l <= r
                          [] op = "==" -> l = r [] op = "!=" -> l # r))
      [] OTHER -> NoValueC

RECURSIVE CPlace(_, _), CValue(_, _)

\* The structure or the elements a pointer points at.
CTarget(v) == IF v.ok /\ v.type.stars = 1 THEN PlaceC(v.value, [v.type EXCEPT !.stars = 0])
              ELSE NoPlaceC

CMember(p, name) ==
    LET members == MembersNamed(p.type, name)
        member == Structs[p.type.base].members[CHOOSE i \in members : TRUE]
    IN  IF ~ p.ok \/ members = {} THEN NoPlaceC
        ELSE [PlaceC(p.addr + member.offset, member.type)
                EXCEPT !.ok = @ /\ member.type.dim = 0 /\ ~ IsStruct(member.type)]

CElementOf(target, i) ==
    IF target.ok THEN PlaceC(target.addr + i * CSize(target.type), target.type) ELSE NoPlaceC

CElement(e, p, i) ==
    IF ~ i.ok \/ i.value < 0 \/ (p.type.dim > 0 /\ i.value >= p.type.dim) THEN NoPlaceC
    ELSE IF p.ok /\ p.type.dim > 0 THEN CElementOf([p EXCEPT !.type = ElementOf(@)], i.value)
    ELSE CElementOf(CTarget(ReadC(e, p)), i.value)

CPlace(e, n) ==
    CASE n.kind = "ident" -> CVariable(e, n.ident)
      [] n.kind = "deref" -> CTarget(ReadC(e, CPlace(e, n.lhs)))
      [] n.kind = "arrow" -> CMember(CTarget(ReadC(e, CPlace(e, n.lhs))), n.ident)
      [] n.kind = "member" -> CMember(CPlace(e, n.lhs), n.ident)
      [] n.kind = "index" -> CElement(e, CPlace(e, n.lhs), CValue(e, n.rhs))
      [] OTHER -> NoPlaceC

CAddress(p) ==
    IF p.ok /\ p.type.dim = 0 /\ p.type.stars = 0
    THEN [ok |-> TRUE, value |-> p.addr, type |-> [p.type EXCEPT !.stars = 1]]
    ELSE NoValueC

Operand(v) == v.ok /\ v.type.stars = 0 /\ v.value \in Natural
CUnary(v, op) ==
    IF ~ Operand(v) \/ op \notin {"-", "!"} THEN NoValueC
    ELSE Number(IF op = "-" THEN - v.value ELSE Truth(v.value = 0))
CBinary(l, r, op) ==
    IF Operand(l) /\ Operand(r) THEN Arithmetic(l.value, r.value, op) ELSE NoValueC

CValue(e, n) ==
    CASE n.kind = "num" -> Number(n.number)
      [] n.kind = "addr" -> CAddress(CPlace(e, n.lhs))
      [] n.kind = "unary" -> CUnary(CValue(e, n.lhs), n.op)
      [] n.kind = "binary" -> CBinary(CValue(e, n.lhs), CValue(e, n.rhs), n.op)
      [] OTHER -> ReadC(e, CPlace(e, n))

\* The values print shows: one, or those of the elements and members.
CParts(p) ==
    IF ~ p.ok THEN <<>>
    ELSE IF p.type.dim > 0
    THEN [i \in 1 .. p.type.dim |->
            PlaceC(p.addr + (i - 1) * CSize(ElementOf(p.type)), ElementOf(p.type))]
    ELSE IF IsStruct(p.type)
    THEN [i \in DOMAIN Structs[p.type.base].members |->
            CMember(p, Structs[p.type.base].members[i].name)]
    ELSE <<p>>

CPartsOf(whole) == FlattenSeq([i \in DOMAIN whole |-> CParts(whole[i])])
CReadParts(e, n, parts) ==
    IF parts # <<>> THEN [i \in DOMAIN parts |-> ReadC(e, parts[i])] ELSE <<CValue(e, n)>>

CShown(e, n) == CReadParts(e, n, CPartsOf(CParts(CPlace(e, n))))
=============================================================================
