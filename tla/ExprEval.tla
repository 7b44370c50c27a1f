------------------------------ MODULE ExprEval ------------------------------
(***************************************************************************)
(* expr_eval.c: the value and the place of an expression.  An expression   *)
(* is the tree expr.y builds:                                              *)
(*   [kind |-> "num", number]            [kind |-> "ident", ident]         *)
(*   [kind |-> "deref", lhs]             [kind |-> "addr", lhs]            *)
(*   [kind |-> "member", lhs, ident]     [kind |-> "arrow", lhs, ident]    *)
(*   [kind |-> "index", lhs, rhs]                                          *)
(*   [kind |-> "unary", op, lhs]         [kind |-> "binary", op, lhs, rhs] *)
(* An environment e is [mem, regs, syms].  Numbers are uint64_t; floating  *)
(* point literals are left out.                                            *)
(***************************************************************************)
EXTENDS Variables, Bitwise

Word(v) == v % WordValues

NoLvalue == [ok |-> FALSE, addr |-> 0, size |-> 0, signed |-> FALSE, type |-> NoType]
Lvalue(addr, size, signed, type) ==
    [ok |-> TRUE, addr |-> Word(addr), size |-> size, signed |-> signed, type |-> type]

NoValue == [ok |-> FALSE, value |-> 0, type |-> NoType, isAddress |-> FALSE]

\* Mutation: the results are not words.
ValueUnbounded(v, type) == [ok |-> TRUE, value |-> v, type |-> type, isAddress |-> FALSE]

Value(v, type) == [ok |-> TRUE, value |-> Word(v), type |-> type, isAddress |-> FALSE]

Truth(b) == IF b THEN 1 ELSE 0

\* combine_binary: unsigned; both operands of && and || have been evaluated.  A
\* shift by the width or more is undefined, and ARM64 takes the count modulo
\* the width.
Shift(count) == 2 ^ (count % (WordSize * ByteBits))
CombineBinary(l, r, op) ==
    CASE op = "+" -> Value(l + r, NoType)
      [] op = "-" -> Value(l - r, NoType)
      [] op = "*" -> Value(l * r, NoType)
      [] op = "/" -> IF r = 0 THEN NoValue ELSE Value(l \div r, NoType)
      [] op = "%" -> IF r = 0 THEN NoValue ELSE Value(l % r, NoType)
      [] op = "<<" -> Value(l * Shift(r), NoType)
      [] op = ">>" -> Value(l \div Shift(r), NoType)
      [] op = "<" -> Value(Truth(l < r), NoType)
      [] op = ">" -> Value(Truth(l > r), NoType)
      [] op = "<=" -> Value(Truth(l <= r), NoType)
      [] op = ">=" -> Value(Truth(l >= r), NoType)
      [] op = "==" -> Value(Truth(l = r), NoType)
      [] op = "!=" -> Value(Truth(l # r), NoType)
      [] op = "&" -> Value(l & r, NoType)
      [] op = "^" -> Value(l ^^ r, NoType)
      [] op = "|" -> Value(l | r, NoType)
      [] op = "&&" -> Value(Truth(l # 0 /\ r # 0), NoType)
      [] op = "||" -> Value(Truth(l # 0 \/ r # 0), NoType)

CombineUnary(x, op) ==
    CASE ~ x.ok \/ op = "+" -> x
      [] x.ok /\ op = "-" -> Value(- x.value, NoType)
      [] x.ok /\ op = "!" -> Value(Truth(x.value = 0), NoType)
      [] x.ok /\ op = "~" -> Value(WordValues - 1 - x.value, NoType)

Combined(l, r, op) ==
    IF l.ok /\ r.ok THEN CombineBinary(l.value, r.value, op) ELSE NoValue

\* The value read from a place.
Read(r, type) == IF r.ok THEN Value(r.value, type) ELSE NoValue
Loaded(e, lv) ==
    IF lv.ok THEN Read(ReadScalar(e.mem, lv.addr, lv.size), lv.type) ELSE NoValue

\* A pointer read from a place [ok, addr, type].
Pointer(ok, value, pointee) == [ok |-> ok, value |-> value, pointee |-> pointee]
LoadedPointer(e, place) ==
    IF place.ok /\ place.type.stars > 0
    THEN LET r == ReadScalar(e.mem, place.addr, WordSize)
         IN  Pointer(r.ok, r.value, Pointee(place.type))
    ELSE Pointer(FALSE, 0, NoType)

\* Elements: what a pointer points at has the size of its pointee, a word if
\* that is not known.
PointeeSize(ptr) == IF ptr.pointee = NoType THEN WordSize ELSE ElementSize(ptr.pointee)
Element(ptr, size, index) ==
    IF ptr.ok THEN Lvalue(ptr.value + index * size, size, IsSigned(ptr.pointee), ptr.pointee)
    ELSE NoLvalue

\* resolve_subscript_element: the bound of an array is checked.
Subscript(e, var, index) ==
    IF ~ var.ok \/ (var.type.dim > 0 /\ index >= var.type.dim) THEN NoLvalue
    ELSE LET base == IF var.type.dim > 0 THEN Pointer(TRUE, var.addr, ElementOf(var.type))
                     ELSE LoadedPointer(e, var)
         IN  Element(base, ElementSize(base.pointee), index)

VariableLvalue(var) ==
    IF var.ok /\ var.type.dim = 0
    THEN Lvalue(var.addr, VarSize(var.type), IsSigned(var.type), var.type)
    ELSE NoLvalue

Dereferenced(ptr) ==
    [Element(ptr, PointeeSize(ptr), 0) EXCEPT !.signed = @ /\ ptr.pointee # NoType]

\* A member of the structure at a place, or of the one a pointer points at.
MemberLvalue(base, name) ==
    LET members == MembersNamed(base.type, name)
        m == Structs[base.type.base].members[CHOOSE i \in members : \A j \in members : i <= j]
    IN  IF ~ base.ok \/ members = {} THEN NoLvalue
        ELSE Lvalue(base.addr + m.offset, ScalarSize(m.type), IsSigned(m.type), m.type)

PointedAt(ptr) == [ok |-> ptr.ok, addr |-> ptr.value, type |-> ptr.pointee]

VariableValue(e, var) ==
    IF var.ok THEN Loaded(e, Lvalue(var.addr, VarSize(var.type), TRUE, var.type)) ELSE NoValue

AddressOf(lv) ==
    IF lv.ok
    THEN [ok |-> TRUE, value |-> lv.addr, isAddress |-> TRUE,
          type |-> IF lv.type = NoType THEN NoType ELSE [lv.type EXCEPT !.stars = @ + 1]]
    ELSE NoValue

-----------------------------------------------------------------------------
Places == {"member", "arrow", "index", "deref"}
Found(e, name) == Resolve(e.regs, e.syms, name)

RECURSIVE EvalLvalue(_, _), EvalValue(_, _), EvalPointer(_, _)

\* A variable's element, or that of a pointer that is no variable.
EvalIndex(e, base, index) ==
    IF ~ index.ok THEN NoLvalue
    ELSE IF base.kind = "ident" THEN Subscript(e, Found(e, base.ident), index.value)
    ELSE LET ptr == EvalPointer(e, base) IN Element(ptr, PointeeSize(ptr), index.value)

\* eval_as_pointer: a number may stand for an address, without a type.
EvalPointer(e, n) ==
    CASE n.kind = "ident" -> LoadedPointer(e, Found(e, n.ident))
      [] n.kind \in Places -> LoadedPointer(e, EvalLvalue(e, n))
      [] OTHER -> LET v == EvalValue(e, n) IN Pointer(v.ok, v.value, NoType)

\* eval_lvalue
EvalLvalue(e, n) ==
    CASE n.kind = "ident" -> VariableLvalue(Found(e, n.ident))
      [] n.kind = "deref" -> Dereferenced(EvalPointer(e, n.lhs))
      [] n.kind = "member" -> MemberLvalue(EvalLvalue(e, n.lhs), n.ident)
      [] n.kind = "arrow" -> MemberLvalue(PointedAt(EvalPointer(e, n.lhs)), n.ident)
      [] n.kind = "index" -> EvalIndex(e, n.lhs, EvalValue(e, n.rhs))
      [] OTHER -> NoLvalue

\* eval_value
EvalValue(e, n) ==
    CASE n.kind = "num" -> Value(n.number, NoType)
      [] n.kind = "ident" -> VariableValue(e, Found(e, n.ident))
      [] n.kind \in Places -> Loaded(e, EvalLvalue(e, n))
      [] n.kind = "addr" -> AddressOf(EvalLvalue(e, n.lhs))
      [] n.kind = "unary" -> CombineUnary(EvalValue(e, n.lhs), n.op)
      [] n.kind = "binary" -> Combined(EvalValue(e, n.lhs), EvalValue(e, n.rhs), n.op)

\* cdbg_expr_eval_lvalue: whole tells that the place is a structure, which only
\* the root of the tree shows.
WholeStruct(n, lv) ==
    n.kind \in {"ident", "deref", "index"} /\ lv.type # NoType /\ ~ IsScalar(lv.type)
=============================================================================
