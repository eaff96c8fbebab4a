---------------------------- MODULE SpecSemantics ----------------------------
(***************************************************************************)
(* Two meanings of a spec's terms and formulas: the interpreter's          *)
(* (src/spec/interpreter.py), which is lazy and raises, and that of the    *)
(* query verify_smt gives to Z3 (src/eval/verify_smt.py), where operations *)
(* are total and the conditions that exclude undefined ones are collected. *)
(***************************************************************************)
EXTENDS BitVectors, SpecTerms

CONSTANTS EnumMax,  \* BOUNDED_ENUM_MAX_VALUES
          Terms, Formulas,
          Depth(_), \* how deep one is nested
          Names,    \* parameters and bound variables, renamed apart: one is bound once
          Width(_)  \* the width of one

(* type_check, of one term and one formula: widths and names.              *)
WellTypedTerm(e) ==
  CASE e.k = "const"  -> e.val \in Values(e.ty)
    [] e.k = "var"    -> e.name \in Names /\ e.ty = Width(e.name)
    [] e.k = "bin"    -> e.op \in BinOps /\ e.lhs.ty = e.rhs.ty /\ e.ty = e.lhs.ty
    [] e.k = "un"     -> \/ e.op \in {"neg", "not"} /\ e.ty = e.arg.ty
                         \/ e.op \in {"sext", "zext"} /\ e.ty > e.arg.ty
                         \/ e.op = "trunc" /\ e.ty < e.arg.ty
    [] e.k = "select" -> e.then.ty = e.else.ty /\ e.ty = e.then.ty
Binds(f) == f.var \in Names /\ f.ty = Width(f.var)
WellTypedFormula(f) ==
  CASE f.k = "cmp"            -> f.op \in CmpOps /\ f.lhs.ty = f.rhs.ty
    [] f.k \in Quantifiers    -> Binds(f)
    [] f.k = "let"            -> Binds(f) /\ f.value.ty = f.ty
    [] OTHER                  -> TRUE

Shallower(x, y) == Depth(x) \in Nat /\ Depth(y) \in Nat /\ Depth(x) < Depth(y)

(* Parts are terms and formulas, and nested less deeply; specs have passed *)
(* the type checker.                                                       *)
ASSUME SemanticsAssumption ==
  /\ EnumMax \in Nat
  /\ \A n \in Names : Width(n) \in Nat \ {0}
  /\ \A e \in Terms :
       /\ e.k \in TermKinds /\ Depth(e) \in Nat /\ e.ty \in Nat \ {0} /\ WellTypedTerm(e)
       /\ \A p \in TermsIn(e) : p \in Terms /\ Shallower(p, e)
  /\ \A f \in Formulas :
       /\ f.k \in FormulaKinds /\ Depth(f) \in Nat /\ WellTypedFormula(f)
       /\ TermsIn(f) \subseteq Terms
       /\ \A g \in FormulasIn(f) : g \in Formulas /\ Shallower(g, f)

(* What the names stand for; those that are bound to nothing are not read. *)
Envs == {env \in [Names -> Nat] : \A n \in Names : env[n] \in Values(Width(n))}

UB     == -1              \* UndefinedBehavior, beside the values of a term
Raised == {"ub", "smt"}   \* UndefinedBehavior and NeedsSMT, beside those of a formula
Truth(b) == IF b THEN "true" ELSE "false"

-----------------------------------------------------------------------------
(* _eval_expr: both operands, one arm.  V holds the values of subterms.    *)
ValueWith(e, env, V) ==
  CASE e.k = "const"  -> e.val
    [] e.k = "var"    -> env[e.name]
    [] e.k = "bin"    -> LET l == V[e.lhs]  r == V[e.rhs] IN
                         IF l = UB \/ r = UB \/ ~BinDefined(e.op, r, e.ty) THEN UB
                         ELSE BinVal(e.op, l, r, e.ty)
    [] e.k = "un"     -> IF V[e.arg] = UB THEN UB ELSE UnVal(e.op, V[e.arg], e.arg.ty, e.ty)
    [] e.k = "select" -> IF V[e.cond] = UB THEN UB ELSE V[IF V[e.cond] # 0 THEN e.then ELSE e.else]

EvalExpr(e, env) == LET V[x \in Terms] == ValueWith(x, env, V) IN V[e]

(* eval_formula.  all() and any() stop at the first value that settles     *)
(* them, and raise if they meet one that raises before.                    *)
First(S) == CHOOSE n \in S : \A m \in S : n <= m

HoldsWith(f, env, H) ==
  LET sub(g) == H[g][env]
      at(n)  == H[f.body][[env EXCEPT ![f.var] = n]]
      enumerated(goesOn) ==
        LET stops == {n \in Values(f.ty) : at(n) # goesOn} IN
        IF Pow2[f.ty] > EnumMax THEN "smt"
        ELSE IF stops = {} THEN goesOn
        ELSE at(First(stops))
  IN
  CASE f.k \in {"true", "false"} -> f.k
    [] f.k = "cmp"     -> LET l == EvalExpr(f.lhs, env)  r == EvalExpr(f.rhs, env) IN
                          IF l = UB \/ r = UB THEN "ub" ELSE Truth(CmpHolds(f.op, l, r, f.lhs.ty))
    [] f.k = "not"     -> LET a == sub(f.arg) IN IF a \in Raised THEN a ELSE Truth(a = "false")
    [] f.k = "and"     -> LET l == sub(f.lhs) IN IF l = "true" THEN sub(f.rhs) ELSE l
    [] f.k = "or"      -> LET l == sub(f.lhs) IN IF l = "false" THEN sub(f.rhs) ELSE l
    [] f.k = "implies" -> LET l == sub(f.lhs) IN
                          IF l = "true" THEN sub(f.rhs) ELSE IF l = "false" THEN "true" ELSE l
    [] f.k = "iff"     -> LET l == sub(f.lhs)  r == sub(f.rhs) IN
                          IF l \in Raised THEN l ELSE IF r \in Raised THEN r ELSE Truth(l = r)
    [] f.k = "forall"  -> enumerated("true")
    [] f.k = "exists"  -> enumerated("false")
    [] f.k = "let"     -> LET v == EvalExpr(f.value, env) IN
                          IF v = UB THEN "ub" ELSE at(mask(v, f.ty))

Holds[f \in Formulas] == [env \in Envs |-> HoldsWith(f, env, Holds)]
EvalFormula(f, env) == Holds[f][env]

-----------------------------------------------------------------------------
(* z3.If(c != 0, t, f).  Slip: the condition is one bit.                   *)
PickOne(c, a, b) == IF c.v = 1 THEN a.v ELSE b.v
Pick(c, a, b)    == IF c.v # 0 THEN a.v ELSE b.v

(* _term_to_z3: the value of the bit-vector term, and whether all the      *)
(* conditions it appended to ub hold (those of both arms of a select).     *)
TermWith(e, env, T) ==
  CASE e.k = "const"  -> [v |-> e.val, ok |-> TRUE]
    [] e.k = "var"    -> [v |-> env[e.name], ok |-> TRUE]
    [] e.k = "bin"    -> LET l == T[e.lhs]  r == T[e.rhs] IN
                         [v  |-> BinZ3(e.op, l.v, r.v, e.ty),
                          ok |-> l.ok /\ r.ok /\ BinDefined(e.op, r.v, e.ty)]
    [] e.k = "un"     -> LET a == T[e.arg] IN
                         [v |-> UnVal(e.op, a.v, e.arg.ty, e.ty), ok |-> a.ok]
    [] e.k = "select" -> LET c == T[e.cond]  a == T[e.then]  b == T[e.else] IN
                         [v |-> Pick(c, a, b), ok |-> c.ok /\ a.ok /\ b.ok]

TermZ3(e, env) == LET T[x \in Terms] == TermWith(x, env, T) IN T[e]

(* Body of a quantifier under the conditions its own terms collected.      *)
Guarded(k, b) == IF k = "forall" THEN b.ok => b.v ELSE b.ok /\ b.v

Joined(k, p, q) ==
  CASE k = "and"     -> p /\ q
    [] k = "or"      -> p \/ q
    [] k = "implies" -> p => q
    [] k = "iff"     -> p = q

(* _formula_to_z3.  A let binds a bit vector of its width.                 *)
QueryWith(f, env, Q) ==
  LET at(n) == Q[f.body][[env EXCEPT ![f.var] = n]] IN
  CASE f.k \in {"true", "false"} -> [v |-> f.k = "true", ok |-> TRUE]
    [] f.k = "cmp"     -> LET l == TermZ3(f.lhs, env)  r == TermZ3(f.rhs, env) IN
                          [v |-> CmpHolds(f.op, l.v, r.v, f.lhs.ty), ok |-> l.ok /\ r.ok]
    [] f.k = "not"     -> LET a == Q[f.arg][env] IN [v |-> ~a.v, ok |-> a.ok]
    [] f.k \in Connectives -> LET l == Q[f.lhs][env]  r == Q[f.rhs][env] IN
                          [v |-> Joined(f.k, l.v, r.v), ok |-> l.ok /\ r.ok]
    [] f.k = "forall"  -> [v |-> \A n \in Values(f.ty) : Guarded("forall", at(n)), ok |-> TRUE]
    [] f.k = "exists"  -> [v |-> \E n \in Values(f.ty) : Guarded("exists", at(n)), ok |-> TRUE]
    [] f.k = "let"     -> LET e == TermZ3(f.value, env)  b == at(mask(e.v, f.ty)) IN
                          [v |-> b.v, ok |-> e.ok /\ b.ok]

Queries[f \in Formulas] == [env \in Envs |-> QueryWith(f, env, Queries)]
FormulaZ3(f, env) == Queries[f][env]

(* The names a term or formula brings into the query: a bound variable is  *)
(* Z3's own, and a let stands for its value.                               *)
ReadsWith(x, N) ==
  CASE x.k = "var"                                 -> {x.name}
    [] x.k \in (TermKinds \ {"var"}) \cup {"cmp"}   -> UNION {N[p] : p \in TermsIn(x)}
    [] x.k \in Quantifiers \cup {"let"}             -> (N[x.body] \ {x.var}) \cup UNION {N[p] : p \in TermsIn(x)}
    [] x.k \in {"true", "false", "not"} \cup Connectives -> UNION {N[p] : p \in FormulasIn(x)}

Reads[x \in Terms \cup Formulas] == ReadsWith(x, Reads)

-----------------------------------------------------------------------------
(* Where the interpreter settles a quantifier by a value of its variable,  *)
(* all operations in the body are defined at that value, evaluated or not. *)
Settling(k) == IF k = "forall" THEN "false" ELSE "true"

SettledWith(f, env, S) ==
  LET at(n) == [env EXCEPT ![f.var] = n] IN
  CASE f.k = "not"           -> S[f.arg][env]
    [] f.k \in Connectives   -> S[f.lhs][env] /\ S[f.rhs][env]
    [] f.k \in Quantifiers   ->
         \A n \in Values(f.ty) :
           /\ S[f.body][at(n)]
           /\ EvalFormula(f.body, at(n)) = Settling(f.k) => FormulaZ3(f.body, at(n)).ok
    [] f.k = "let"           -> S[f.body][at(mask(TermZ3(f.value, env).v, f.ty))]
    [] OTHER                 -> TRUE

Settled[f \in Formulas] == [env \in Envs |-> SettledWith(f, env, Settled)]
SettledWhereDefined(f, env) == Settled[f][env]
=============================================================================
