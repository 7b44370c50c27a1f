---------------------------- MODULE DataCommands ----------------------------
(***************************************************************************)
(* The commands that show and change the data of a stopped process: the    *)
(* expressions of set, set $reg and watch are evaluated, and DataState     *)
(* does the rest.  print, x, bt and show change nothing; what they answer  *)
(* is an operator of the state.                                            *)
(***************************************************************************)
EXTENDS CReference, DataState

CONSTANTS
    Table,          \* cdbg_syms_t
    Sets,           \* <<place, value>>: the expressions the user sets
    RegSets,        \* <<name, value>> for set $name
    Watches,        \* <<place, kinds>>: what the user watches
    PrintExprs      \* expressions the user prints

env == [mem |-> mem, regs |-> regs, syms |-> Table]

-----------------------------------------------------------------------------
(* print, x, show                                                          *)

Formats == {"default", "d", "x", "s"}

\* print_scalar_result_fmt; the text of a format is left out, not the number it
\* shows: signed or not, and cut to the size.
Shown(fmt, v, size, signed, pointer) ==
    IF fmt = "x" \/ pointer \/ ~ signed THEN MaskToSize(v, size)
    ELSE SignExtend(MaskToSize(v, size), size)

\* read_c_string
CString(e, addr) ==
    LET ends == {n \in 0 .. WordValues : CanRead(e.mem, addr, n + 1)
                                         /\ e.mem.bytes[addr + n] = 0}
        end == CHOOSE n \in ends : \A k \in ends : n <= k
    IN  IF ends = {} THEN <<>> ELSE ReadBytes(e.mem, addr, end + 1)

Failed == [ok |-> FALSE, values |-> <<>>]

PrintedString(s) == [ok |-> s # <<>>, values |-> s]

ShownScalar(e, fmt, addr, size, signed, pointer) ==
    LET r == ReadScalar(e.mem, addr, size)
    IN  IF ~ r.ok THEN Failed
        ELSE IF fmt = "s" THEN PrintedString(CString(e, MaskToSize(r.value, size)))
        ELSE [ok |-> TRUE, values |-> <<Shown(fmt, r.value, size, signed, pointer)>>]

Joined(answers) ==
    IF \A i \in DOMAIN answers : answers[i].ok
    THEN [ok |-> TRUE, values |-> FlattenSeq([i \in DOMAIN answers |-> answers[i].values])]
    ELSE Failed

\* print_struct_element
ShownStruct(e, addr, name) ==
    Joined([i \in DOMAIN Structs[name].members |->
        LET member == Structs[name].members[i]
        IN  ShownScalar(e, "default", addr + member.offset, ScalarSize(member.type),
                        IsSigned(member.type), FALSE)])

\* print_array_variable, print_array_element_value
ShownArray(e, addr, t) ==
    LET elem == ElementOf(t)
    IN  Joined([i \in 1 .. t.dim |->
            LET at == addr + (i - 1) * ElementSize(elem)
            IN  IF ~ IsScalar(elem) /\ IsStruct(elem) THEN ShownStruct(e, at, elem.base)
                ELSE ShownScalar(e, "default", at, ElementSize(elem), IsSigned(elem),
                                 elem.stars > 0)])

\* cmd_print: a variable as a whole, then a place, then a value.
PrintedVariable(e, fmt, var) ==
    IF var.type.dim > 0 /\ fmt = "default" THEN ShownArray(e, var.addr, var.type)
    ELSE IF fmt = "default" /\ ~ IsScalar(var.type) /\ IsStruct(var.type)
    THEN ShownStruct(e, var.addr, var.type.base)
    ELSE ShownScalar(e, fmt, var.addr, VarSize(var.type), IsSigned(var.type),
                     var.type.stars > 0 /\ fmt # "d")

PrintedPlace(e, fmt, whole, lv) ==
    IF whole /\ fmt = "default"
    THEN IF IsStruct(lv.type) THEN ShownStruct(e, lv.addr, lv.type.base) ELSE Failed
    ELSE ShownScalar(e, fmt, lv.addr, lv.size, lv.signed, FALSE)

PrintedValue(e, fmt, val) ==
    IF ~ val.ok THEN Failed
    ELSE IF fmt = "s" THEN PrintedString(CString(e, val.value))
    ELSE [ok |-> TRUE, values |-> <<Shown(fmt, val.value, WordSize, TRUE,
                                          val.isAddress /\ fmt # "d")>>]

PrintedExpr(e, fmt, n, lv) ==
    IF n.kind # "addr" /\ lv.ok THEN PrintedPlace(e, fmt, WholeStruct(n, lv), lv)
    ELSE PrintedValue(e, fmt, EvalValue(e, n))

Printed(e, fmt, n) ==
    IF n.kind = "ident" /\ Found(e, n.ident).ok
    THEN PrintedVariable(e, fmt, Found(e, n.ident))
    ELSE PrintedExpr(e, fmt, n, EvalLvalue(e, n))

\* cmd_examine: 1 to 64 bytes.
Examined(e, addr, n) == IF n \in 1 .. 64 /\ CanRead(e.mem, addr, n) THEN ReadBytes(e.mem, addr, n)
                        ELSE <<>>

-----------------------------------------------------------------------------
(* set                                                                     *)

\* cmd_set, resolve_set_lhs: the value first, then the place; an address is
\* refused as either, a whole structure as a place.
Settable(l, lv, val) ==
    /\ val.ok /\ ~ val.isAddress
    /\ l.kind # "addr" /\ lv.ok /\ ~ WholeStruct(l, lv)

SetPlace(l, lv, val) ==
    \/ ~ Settable(l, lv, val) /\ Refused
    \/ Settable(l, lv, val) /\ Store(l, lv.addr, lv.size, val.value)

CmdSet(l, r) == SetPlace(l, EvalLvalue(env, l), EvalValue(env, r))

\* set_gpr_field: the names of a register.
RegisterNamed(name) ==
    CASE name = "x29" -> {"fp"}
      [] name = "x30" -> {"lr"}
      [] name \in {"pc", "sp", "fp", "lr", "x0"} -> {name}
      [] OTHER -> {}

\* cmd_set of a register, cdbg_regs_set_by_name.
SetRegister(name, val) ==
    \/ (~ val.ok \/ val.isAddress \/ RegisterNamed(name) = {}) /\ Refused
    \/ /\ val.ok /\ ~ val.isAddress
       /\ \E f \in RegisterNamed(name) : StoreRegister(f, val.value)

CmdSetReg(name, r) == SetRegister(name, EvalValue(env, r))

-----------------------------------------------------------------------------
(* watch                                                                   *)

Watchable(lv, n) == lv.ok /\ ~ WholeStruct(n, lv) /\ Coverable(lv.addr, lv.size)

\* cmd_watch; a failure changes nothing.
Watch(n, kinds, lv) ==
    \/ ~ (Watchable(lv, n) /\ Room) /\ Refused
    \/ Watchable(lv, n) /\ WatchRange(lv.addr, lv.size, kinds)

CmdWatch(n, kinds) == Watch(n, kinds, EvalLvalue(env, n))

-----------------------------------------------------------------------------
Next ==
    \/ \E s \in Sets : CmdSet(s[1], s[2])
    \/ \E s \in RegSets : CmdSetReg(s[1], s[2])
    \/ CmdUp
    \/ \E w \in Watches : CmdWatch(w[1], w[2])
    \/ \E i \in 1 .. MaxWps : CmdDelWatch(i)
    \/ \E s \in Stops : Resume(s)
    \/ \E a \in Accesses : Access(a)

DataSpec == Init /\ [][Next]_vars
-----------------------------------------------------------------------------
(* Properties                                                              *)

\* print shows the value an expression has in C, element by element, in every
\* format of numbers, also after set, after up (with the variables of the
\* caller), in and out of blocks, through pointers the user changed.  Pointers
\* that are members are shown as signed numbers (cmd_print, eval_lvalue,
\* eval_value, find_local_var, complete_var_type).
ShowsValue(answer, expected) ==
    /\ answer.ok /\ Len(answer.values) = Len(expected)
    /\ \A i \in DOMAIN expected :
          \/ answer.values[i] = expected[i].value
          \/ expected[i].type.stars > 0 /\ Word(answer.values[i]) = expected[i].value

PrintIsValue ==
    \A n \in PrintExprs :
        LET expected == CShown(env, n)
        IN  (\A i \in DOMAIN expected : expected[i].ok) =>
                /\ ShowsValue(Printed(env, "default", n), expected)
                /\ Len(expected) = 1 /\ CValue(env, n).ok =>
                      /\ ShowsValue(Printed(env, "d", n), expected)
                      /\ Printed(env, "x", n).values[1] =
                            expected[1].value % ByteBase ^ CSize(expected[1].type)

\* show locals and show args list exactly the declarations that are visible at
\* the pc, and what they, print and x take for the place of a name is the same
\* and is right; only names declared twice are left out.  A global has the
\* address print uses (collect_show_vars against find_local_var: two walks over
\* the same DIEs with different rules for blocks).
ScopeTag == [args |-> "formal_parameter", locals |-> "variable"]
VariablesAgree ==
    LET pc == LinkPc(regs)
        Once(name) == Cardinality(Meanings(name, pc)) = 1
    IN  /\ \A scope \in DOMAIN ScopeTag :
             LET shown == Range(ShowVars(scope, regs, Table))
                 visible == {i \in Visible(pc) : Automatic(i) /\ Dies[i].tag = ScopeTag[scope]}
             IN  /\ {v.name : v \in shown} = {Dies[i].name : i \in visible}
                 /\ \A v \in shown : Once(v.name) =>
                       /\ v.addr = CVariable(env, v.name).addr
                       /\ v.addr = Resolve(regs, Table, v.name).addr
                       /\ CanRead(mem, v.addr, CSize(v.type)) =>
                             Len(Examined(env, v.addr, CSize(v.type))) = CSize(v.type)
        /\ \A v \in Range(ShowVars("globals", regs, Table)) :
             Once(v.name) => v.addr = Resolve(regs, Table, v.name).addr

\* A set that answers changes the bytes of the C object to those of the value
\* and no other byte; one that fails changes at most the first of them, whatever
\* Mach and ptrace refused (cmd_set, write_scalar_value, cdbg_mem_write).
SetExact ==
    [][out'.cmd = "set" =>
        LET p == CPlace(env, out'.lhs)
            bytes == BytesOf(out'.value, CSize(p.type))
        IN  p.ok /\ p.type.dim = 0 /\ ~ IsStruct(p.type) =>
              \E k \in 0 .. CSize(p.type) :
                /\ out'.ok => k = CSize(p.type)
                /\ mem'.bytes = Put(mem, p.addr, SubSeq(bytes, 1, k)).bytes]_vars
=============================================================================
