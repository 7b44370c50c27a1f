----------------------------- MODULE Variables -----------------------------
(***************************************************************************)
(* How debugger.c finds variables, types and members in the output of      *)
(* `dwarfdump --debug-info`, in single passes over its lines.  A DIE is a  *)
(* record                                                                  *)
(*   tag    "subprogram", "lexical_block", "variable", "formal_parameter", *)
(*          "null" (the end of a list of children) or another              *)
(*   depth  its indentation                                                *)
(*   low, high  its DW_AT_low_pc and DW_AT_high_pc, both 0 without them    *)
(*   name, type                                                            *)
(*   base   "fp", "sp" (DW_OP_fbreg, DW_OP_breg29, DW_OP_breg31), "addr"   *)
(*          (DW_OP_addr) or "none", and the offset or address at           *)
(*                                                                         *)
(* A type is [base, stars, dim]: the name of the base type, the number of  *)
(* stars after it and the length of the array, 0 for none.  The program    *)
(* asks which words the text of a type contains: Words[base].              *)
(***************************************************************************)
EXTENDS Memory, Symbols

CONSTANTS
    Dies,       \* the DIEs of the program
    Structs,    \* name -> [size, members: sequence of [name, type, offset]]
    Words,      \* base type name -> the words it contains
    Slide       \* run-time address minus link-time address

NoType == [base |-> "", stars |-> 0, dim |-> 0]
UnsignedLong == [base |-> "unsigned long", stars |-> 0, dim |-> 0]

-----------------------------------------------------------------------------
(* Types                                                                   *)

Has(t, w) == t.base # "" /\ w \in Words[t.base]
ElementOf(t) == [t EXCEPT !.dim = 0]

\* type_scalar_size: the first of these words that the text contains.
ScalarSize(t) ==
    IF t.stars > 0 THEN WordSize
    ELSE IF Has(t, "char") THEN 1
    ELSE IF Has(t, "short") THEN 2
    ELSE IF Has(t, "long") THEN 8
    ELSE IF Has(t, "int") \/ Has(t, "bool") THEN 4
    ELSE WordSize

\* type_is_scalar
IsScalar(t) ==
    t.stars > 0 \/ \E w \in {"char", "short", "int", "long", "bool"} : Has(t, w)

\* Mutation: the word is not looked for.
AlwaysSigned(t) == TRUE

IsSigned(t) == ~ Has(t, "unsigned")

\* dwarf_lookup_struct looks for the whole text of the type.
IsStruct(t) == t.stars = 0 /\ t.dim = 0 /\ t.base \in DOMAIN Structs

\* type_element_size
ElementSize(t) ==
    IF t = NoType THEN 0
    ELSE IF IsScalar(t) THEN ScalarSize(t)
    ELSE IF IsStruct(t) /\ Structs[t.base].size > 0 THEN Structs[t.base].size
    ELSE WordSize

\* complete_var_type: the size of a variable.
VarSize(t) == IF t.dim > 0 THEN t.dim * ElementSize(ElementOf(t)) ELSE ScalarSize(t)

\* pointer_pointee_type, strip_pointer_star: everything from the first star on
\* is dropped.
Pointee(t) == IF t.stars > 0 THEN [NoType EXCEPT !.base = t.base] ELSE t

\* lookup_struct_member: the indices of the members of that name.
MembersNamed(t, name) ==
    IF ~ IsStruct(t) THEN {}
    ELSE {i \in DOMAIN Structs[t.base].members : Structs[t.base].members[i].name = name}

-----------------------------------------------------------------------------
(* Variables                                                               *)

\* Mutation: the end belongs to the range.
PcInClosedRange(pc, low, high) == low # 0 /\ pc >= low /\ pc <= high

\* pc_in_range
PcInRange(pc, low, high) ==
    /\ low # 0 /\ high # 0
    /\ pc >= low
    /\ pc < IF high < low THEN high + low ELSE high

HasRange(die) == die.low # 0
LinkPc(regs) == regs.pc - Slide

\* in_func when the i-th DIE is read: the last subprogram before it, until a
\* DIE that is no deeper.
FunctionOf(i) ==
    {f \in 1 .. i : /\ Dies[f].tag = "subprogram"
                    /\ \A k \in f + 1 .. i : /\ Dies[k].tag # "subprogram"
                                             /\ Dies[k].depth > Dies[f].depth}

\* The DIE whose range find_local_var holds in func_low and func_high then: that
\* of the function is overwritten by the one of every block in it.
LastOf(S) == {i \in S : \A j \in S : j <= i}
FirstOf(S) == {i \in S : \A j \in S : i <= j}
RangeHeld ==
    [i \in DOMAIN Dies |-> LastOf({r \in UNION {f .. i : f \in FunctionOf(i)} : HasRange(Dies[r])})]

\* find_local_var: the first variable of the name, none if there is none.
IsVariable(die, name) ==
    /\ die.tag \in {"variable", "formal_parameter"}
    /\ die.name = name
    /\ die.base \in {"fp", "sp"}

FindLocal(name, pc) ==
    {Dies[i] : i \in FirstOf({k \in DOMAIN Dies :
        /\ IsVariable(Dies[k], name)
        /\ \E r \in RangeHeld[k] : PcInRange(pc, Dies[r].low, Dies[r].high)})}

\* var_base_addr and the offset.
LocalAddr(regs, die) == (IF die.base = "sp" THEN regs.sp ELSE regs.fp) + die.at

\* resolve_variable_address: a local, or else a symbol, which is taken for an
\* unsigned long.
NoPlace == [ok |-> FALSE, addr |-> 0, type |-> NoType]
SymbolPlace(syms, sym) ==
    IF IsDefined(syms, sym)
    THEN [ok |-> TRUE, addr |-> SymAddr(syms, sym), type |-> UnsignedLong]
    ELSE NoPlace

LocalOr(locals, place) == CHOOSE p \in locals \cup {place} : locals # {} => p \in locals

Resolve(regs, syms, name) ==
    LocalOr({[ok |-> TRUE, addr |-> LocalAddr(regs, die), type |-> die.type] :
                die \in FindLocal(name, LinkPc(regs))},
            SymbolPlace(syms, LookupName(syms, "_" \o name)))

-----------------------------------------------------------------------------
(* show locals, show args, show globals                                    *)

\* show_var_push: the first of several of one name.
PushVar(vars, name, addr, type) ==
    IF \E v \in Range(vars) : v.name = name THEN vars
    ELSE Append(vars, [name |-> name, addr |-> addr, type |-> type])

\* collect_show_vars, one DIE: blocks have a range of their own, until the end
\* of the list of their children.  A DIE that ends a function is not read.
ShowStep(s, die, scope, regs, syms) ==
    LET pc == LinkPc(regs)
        entered == die.tag = "subprogram"
        leaves == ~ entered /\ s.inFunc /\ die.depth <= s.depth
        opens == ~ leaves /\ die.tag = "lexical_block" /\ s.inFunc /\ s.matches
        closes == ~ leaves /\ die.tag = "null" /\ s.inBlock
        inFunc == entered \/ (s.inFunc /\ ~ leaves)
        inBlock == opens \/ (s.inBlock /\ ~ leaves /\ ~ closes)
        ranged == HasRange(die) /\ inFunc
        matches == IF ranged /\ ~ inBlock THEN PcInRange(pc, die.low, die.high)
                   ELSE s.matches /\ inFunc /\ ~ entered
        blockMatches == IF ranged /\ inBlock THEN PcInRange(pc, die.low, die.high)
                        ELSE s.blockMatches /\ inBlock /\ ~ opens
        local == inFunc /\ matches /\ die.base \in {"fp", "sp"}
        shown == /\ ~ leaves
                 /\ CASE scope = "args" -> die.tag = "formal_parameter" /\ local
                      [] scope = "locals" -> /\ die.tag = "variable" /\ local
                                             /\ ~ inBlock \/ blockMatches
                      [] scope = "globals" -> /\ die.tag = "variable" /\ ~ inFunc
                                              /\ ~ inBlock /\ die.base = "addr"
    IN  [inFunc  |-> inFunc,
         depth   |-> IF entered THEN die.depth ELSE s.depth,
         matches |-> matches,
         inBlock |-> inBlock,
         blockMatches |-> blockMatches,
         vars    |-> IF ~ shown THEN s.vars
                     ELSE PushVar(s.vars, die.name,
                            IF scope = "globals" THEN die.at + syms.slide
                            ELSE LocalAddr(regs, die), die.type)]

\* sym_is_global_data, collect_globals_from_syms: under the symbol's name.
DataTypes == {"b", "B", "d", "D", "g", "G", "s", "S", "C"}

PushSymbols(vars, syms) ==
    FoldLeft(LAMBDA vs, i : IF syms.entries[i].address # 0 /\ syms.entries[i].type \in DataTypes
                            THEN PushVar(vs, syms.entries[i].name, SymAddr(syms, i), UnsignedLong)
                            ELSE vs,
             vars, [i \in DOMAIN syms.entries |-> i])

ShowVars(scope, regs, syms) ==
    LET dies == FoldLeft(LAMBDA s, die : ShowStep(s, die, scope, regs, syms),
                    [inFunc |-> FALSE, depth |-> 0, matches |-> FALSE,
                     inBlock |-> FALSE, blockMatches |-> FALSE, vars |-> <<>>], Dies).vars
    IN  IF scope = "globals" THEN PushSymbols(dies, syms) ELSE dies
=============================================================================
