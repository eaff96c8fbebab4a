------------------------------ MODULE SpecTerms ------------------------------
(***************************************************************************)
(* Terms and formulas of the spec language (src/spec/dsl.py), without      *)
(* memory: a kind, the parts, the width.                                   *)
(***************************************************************************)

Const(v, w)       == [k |-> "const", val |-> v, ty |-> w]
Var(name, w)      == [k |-> "var", name |-> name, ty |-> w]
Bin(op, a, b)     == [k |-> "bin", op |-> op, lhs |-> a, rhs |-> b, ty |-> a.ty]
Un(op, a, w)      == [k |-> "un", op |-> op, arg |-> a, ty |-> w]
Select(c, a, b)   == [k |-> "select", cond |-> c, then |-> a, else |-> b, ty |-> a.ty]
Cmp(op, a, b)     == [k |-> "cmp", op |-> op, lhs |-> a, rhs |-> b]
Join(k, f, g)     == [k |-> k, lhs |-> f, rhs |-> g]
NotF(f)           == [k |-> "not", arg |-> f]
Quant(k, x, w, f) == [k |-> k, var |-> x, ty |-> w, body |-> f]
Let(x, w, e, f)   == [k |-> "let", var |-> x, ty |-> w, value |-> e, body |-> f]
TrueF             == [k |-> "true"]
FalseF            == [k |-> "false"]

BinOps == {"add", "sub", "mul", "sdiv", "udiv", "srem", "urem", "and", "or", "xor", "shl", "lshr", "ashr"}
UnOps  == {"neg", "not", "sext", "zext", "trunc"}
CmpOps == {"eq", "ne", "slt", "sle", "sgt", "sge", "ult", "ule", "ugt", "uge"}

TermKinds   == {"const", "var", "bin", "un", "select"}
Connectives == {"and", "or", "implies", "iff"}
Quantifiers == {"forall", "exists"}
FormulaKinds == {"true", "false", "cmp", "not", "let"} \cup Connectives \cup Quantifiers

(* The terms a term or formula is made of, and the formulas.               *)
TermsIn(x) ==
  CASE x.k \in {"bin", "cmp"} -> {x.lhs, x.rhs}
    [] x.k = "un"             -> {x.arg}
    [] x.k = "select"         -> {x.cond, x.then, x.else}
    [] x.k = "let"            -> {x.value}
    [] OTHER                  -> {}
FormulasIn(f) ==
  CASE f.k \in Connectives               -> {f.lhs, f.rhs}
    [] f.k = "not"                       -> {f.arg}
    [] f.k \in Quantifiers \cup {"let"}  -> {f.body}
    [] OTHER                             -> {}
=============================================================================
