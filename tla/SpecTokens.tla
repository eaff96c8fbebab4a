------------------------------ MODULE SpecTokens ------------------------------
(***************************************************************************)
(* tokenize_spec of src/model/vocab.py: a spec in pre-order as a flat      *)
(* sequence of ids, names replaced by positional slots.  Terms are the     *)
(* records of SpecTerms; a spec is [inputs, outputs, pre, post], a         *)
(* parameter [name, ty].                                                   *)
(***************************************************************************)
EXTENDS ConstVocab, Orders

CONSTANTS Tys,      \* the types in the order of Ty
          MaxVars,  \* MAX_VARS
          Exprs,    \* terms and formulas
          Depth(_), \* how deep one is nested
          Idents    \* names of variables

ASSUME SlotAssumption == Tys \in Seq(Widths) /\ MaxVars \in Nat

Specials == <<"pad", "cls", "sep", "UNK", "inp(", ")inp", "pre(", ")pre", "post(", ")post", "(", ")", ",",
              "const", "var", "bin", "un", "select", "cmp", "not", "and", "or", "implies", "iff",
              "forall", "exists", "true", "false", "param">>
BinOps == <<"add", "sub", "mul", "sdiv", "udiv", "srem", "urem", "and", "or", "xor", "shl", "lshr", "ashr">>
UnOps  == <<"neg", "not", "sext", "zext", "trunc">>
CmpOps == <<"eq", "ne", "slt", "sle", "sgt", "sge", "ult", "ule", "ugt", "uge">>

Index(s, v) == (CHOOSE i \in DOMAIN s : s[i] = v) - 1

(* SpecVocab: one id space, a range per kind of token.                     *)
OffTypes  == Len(Specials)
OffBin    == OffTypes + Len(Tys)
OffUn     == OffBin + Len(BinOps)
OffCmp    == OffUn + Len(UnOps)
OffVars   == OffCmp + Len(CmpOps)
OffConsts == OffVars + MaxVars

tok(t)      == Index(Specials, t)
ty(w)       == OffTypes + Index(Tys, w)
bin_op(o)   == OffBin + Index(BinOps, o)
un_op(o)    == OffUn + Index(UnOps, o)
cmp_op(o)   == OffCmp + Index(CmpOps, o)
varSlot(i)  == OffVars + i
const(n, w) == OffConsts + Encode(n, w)

UNK   == tok("UNK")
Raise == -1           \* TypeError

-----------------------------------------------------------------------------
(* The parts of a term or formula in the order they are visited in.        *)
Connectives == {"and", "or", "implies", "iff"}
Quantifiers == {"forall", "exists"}
Parts(e) ==
  CASE e.k \in {"bin", "cmp"} \cup Connectives  -> <<e.lhs, e.rhs>>
    [] e.k \in {"un", "not"}                    -> <<e.arg>>
    [] e.k = "select"                           -> <<e.cond, e.then, e.else>>
    [] e.k \in Quantifiers                      -> <<e.body>>
    [] OTHER                                    -> <<>>

(* Specs have passed the type checker.                                     *)
WellTyped(e) ==
  /\ e.k \in {"const", "var", "bin", "un", "select"} \cup Quantifiers => e.ty \in Range(Tys)
  /\ e.k = "const"          => e.val \in Int
  /\ e.k = "var"            => e.name \in Idents
  /\ e.k \in Quantifiers    => e.var \in Idents
  /\ e.k = "bin"            => e.op \in Range(BinOps)
  /\ e.k = "un"             => e.op \in Range(UnOps)
  /\ e.k = "cmp"            => e.op \in Range(CmpOps)

ASSUME ExprAssumption ==
  \A e \in Exprs :
    /\ Depth(e) \in Nat /\ WellTyped(e)
    /\ \A i \in DOMAIN Parts(e) : Parts(e)[i] \in Exprs /\ Depth(Parts(e)[i]) < Depth(e)

(* _emit_expr and _emit_formula: a node, then its parts.                   *)
InTurn(s) ==
  CASE Len(s) = 0 -> <<>>
    [] Len(s) = 1 -> s[1]
    [] Len(s) = 2 -> s[1] \o s[2]
    [] Len(s) = 3 -> s[1] \o s[2] \o s[3]
VisitWith(own, e, L) == own[e] \o InTurn([i \in DOMAIN Parts(e) |-> L[Parts(e)[i]]])
PreOrder(own, e) == LET L[x \in Exprs] == VisitWith(own, x, L) IN L[e]

Mentioned(e) ==
  CASE e.k = "var"          -> <<e.name>>
    [] e.k \in Quantifiers  -> <<e.var>>
    [] OTHER                -> <<>>
Names(e) == PreOrder([x \in Exprs |-> Mentioned(x)], e)

NamesOf(spec) ==
  [i \in DOMAIN spec.inputs |-> spec.inputs[i].name] \o [i \in DOMAIN spec.outputs |-> spec.outputs[i].name]
    \o Names(spec.pre) \o Names(spec.post)

(* var_idx: names are numbered as they are first met, until the slots have *)
(* run out.                                                                *)
var_idx(name, names) == LET n == Rank(name, names) IN IF n < MaxVars THEN n ELSE UNK

(* The token of a name: a slot, unless that is the value of UNK.  Slip:    *)
(* every name has the first slot.                                          *)
VarTokenFirst(name, names) == varSlot(0)
VarToken(name, names) == LET i == var_idx(name, names) IN IF i # UNK THEN varSlot(i) ELSE UNK

Opening(e, names) ==
  CASE e.k = "const"         -> <<tok("const"), ty(e.ty), const(e.val, e.ty)>>
    [] e.k = "var"           -> <<tok("var"), ty(e.ty), VarToken(e.name, names)>>
    [] e.k = "bin"           -> <<tok("bin"), bin_op(e.op), ty(e.ty)>>
    [] e.k = "un"            -> <<tok("un"), un_op(e.op), ty(e.ty)>>
    [] e.k = "select"        -> <<tok("select"), ty(e.ty)>>
    [] e.k = "cmp"           -> <<tok("cmp"), cmp_op(e.op)>>
    [] e.k \in Quantifiers   -> <<tok(e.k), VarToken(e.var, names), ty(e.ty)>>
    [] e.k \in {"not", "true", "false"} \cup Connectives -> <<tok(e.k)>>
    [] OTHER                 -> <<Raise>>
Emit(e, names) == PreOrder([x \in Exprs |-> Opening(x, names)], e)

(* A name and a type for each parameter.                                   *)
Params(ps, names) ==
  [i \in 1..2 * Len(ps) |->
     IF i % 2 = 1 THEN VarToken(ps[(i + 1) \div 2].name, names) ELSE ty(ps[i \div 2].ty)]

TokenizeSpec(spec) ==
  LET names == NamesOf(spec)
      pre   == IF spec.pre.k = "true" THEN <<>>
               ELSE <<tok("pre(")>> \o Emit(spec.pre, names) \o <<tok(")pre")>>
  IN  <<tok("cls"), tok("inp(")>> \o Params(spec.inputs, names) \o <<tok(")inp")>>
        \o Params(spec.outputs, names)
        \o pre \o <<tok("post(")>> \o Emit(spec.post, names) \o <<tok(")post")>>

-----------------------------------------------------------------------------
(* What the tokens should tell of a spec: its tree, with names told apart  *)
(* and constants by bucket.                                                *)
Node(e, names) ==
  CASE e.k = "const"         -> <<e.k, e.ty, Encode(e.val, e.ty)>>
    [] e.k = "var"           -> <<e.k, e.ty, var_idx(e.name, names)>>
    [] e.k \in {"bin", "un"} -> <<e.k, e.ty, e.op>>
    [] e.k = "select"        -> <<e.k, e.ty>>
    [] e.k = "cmp"           -> <<e.k, e.op>>
    [] e.k \in Quantifiers   -> <<e.k, e.ty, var_idx(e.var, names)>>
    [] OTHER                 -> <<e.k>>

SameWith(a, na, b, nb, S) ==
  /\ Node(a, na) = Node(b, nb)
  /\ \A i \in DOMAIN Parts(a) : S[<<Parts(a)[i], Parts(b)[i]>>]
SameTree(a, na, b, nb) ==
  LET S[p \in Exprs \X Exprs] == SameWith(p[1], na, p[2], nb, S) IN S[<<a, b>>]

SameParams(ps, na, qs, nb) ==
  /\ Len(ps) = Len(qs)
  /\ \A i \in 1..Len(ps) : var_idx(ps[i].name, na) = var_idx(qs[i].name, nb) /\ ps[i].ty = qs[i].ty

SameSpec(a, b) ==
  LET na == NamesOf(a)  nb == NamesOf(b) IN
  /\ SameParams(a.inputs, na, b.inputs, nb) /\ SameParams(a.outputs, na, b.outputs, nb)
  /\ SameTree(a.pre, na, b.pre, nb) /\ SameTree(a.post, na, b.post, nb)
=============================================================================
