--------------------------- MODULE VerdictsProofs ---------------------------
(***************************************************************************)
(* Theorems about the judges: for every spec and candidate, every choice   *)
(* of samples, every way in which a candidate ends and every answer of Z3. *)
(* The first half relates the two readings of a spec, the interpreter's    *)
(* and the query's; the second the judges' variables.                      *)
(***************************************************************************)
EXTENDS Verdicts, OrderProofs

(* Operations on single bits yield integers, and so does their sum.        *)
LEMMA BitByBitInt ==
  ASSUME NEW op \in {"and", "or", "xor"}, NEW l \in Nat, NEW r \in Nat, NEW w \in Nat
  PROVE  BitByBit(op, l, r, w) \in Int
<1> DEFINE Bits(i) == BitOp(op, BitAt(l, i-1), BitAt(r, i-1)) * Pow2[i-1]
           Right(i, U) == IF i = 0 THEN 0 ELSE U[i-1] + BitOp(op, BitAt(l, i-1), BitAt(r, i-1)) * Pow2[i-1]
           D == 0..w
           G == [p \in D \X [D -> Int] |-> Right(p[1], p[2])]
           h == [i \in D |-> i]
           IsTable(U) == U = [i \in D |-> Right(i, U)]
           T == CHOOSE U : IsTable(U)
<1>1. \A i \in D : i # 0 => Bits(i) \in Int
  <2> SUFFICES ASSUME NEW i \in D, i # 0 PROVE Bits(i) \in Int OBVIOUS
  <2>1. Pow2[i-1] \in Nat \ {0} BY Pow2Facts
  <2>2. BitAt(l, i-1) \in Int /\ BitAt(r, i-1) \in Int BY <2>1 DEF BitAt
  <2>3. \A a, b \in Int : BitOp(op, a, b) \in Int BY DEF BitOp
  <2>4. \A a, b \in Int : a * b \in Int OBVIOUS
  <2>5. BitOp(op, BitAt(l, i-1), BitAt(r, i-1)) \in Int BY <2>2, <2>3
  <2> QED BY <2>1, <2>4, <2>5
<1>2. \A i \in D : i # 0 => i - 1 \in D /\ h[i-1] < h[i]
  OBVIOUS
<1>3. \A i \in D : \A U \in [D -> Int] : Right(i, U) \in Int
  <2> SUFFICES ASSUME NEW i \in D, NEW U \in [D -> Int], i # 0 PROVE U[i-1] + Bits(i) \in Int
    OBVIOUS
  <2>1. U[i-1] \in Int /\ Bits(i) \in Int BY <1>1, <1>2
  <2> QED BY <2>1
<1>4. \A i \in D : \A U, V \in [D -> Int] :
        (\A m \in D : h[m] < h[i] => U[m] = V[m]) => Right(i, U) = Right(i, V)
  <2> SUFFICES ASSUME NEW i \in D, NEW U \in [D -> Int], NEW V \in [D -> Int],
                      \A m \in D : h[m] < h[i] => U[m] = V[m]
               PROVE  Right(i, U) = Right(i, V)
    OBVIOUS
  <2>1. i # 0 => U[i-1] = V[i-1] BY <1>2
  <2> QED BY <2>1
<1>9. BitByBit(op, l, r, w) = T[w]
  BY DEF BitByBit
<1> HIDE DEF Bits, Right, T
<1>5. \A i \in D : \A U \in [D -> Int] : G[<<i, U>>] = Right(i, U)
  OBVIOUS
<1>6. G \in [D \X [D -> Int] -> Int] /\ h \in [D -> Nat] /\ Int # {}
  BY <1>3
<1> HIDE DEF G, h
<1>d. \A i \in D : \A U, V \in [D -> Int] :
        (\A m \in D : h[m] < h[i] => U[m] = V[m]) => G[<<i, U>>] = G[<<i, V>>]
  <2> HIDE DEF D
  <2> QED BY <1>4, <1>5
<1>7. Descends(D, Int, h, G)
  <2> HIDE DEF D
  <2> QED BY <1>d, <1>6 DEF Descends
<1>8. PICK U : Solves(U, D, Int, G)
  BY <1>7, Recursion
<1>10. IsTable(U)
  BY <1>5, <1>8 DEF Solves
<1>11. IsTable(T)
  BY <1>10 DEF T
<1>12. \A i \in D : T[i] = Right(i, T)
  BY <1>11
<1> DEFINE S == {i \in D : T[i] \in Int}
<1>13. \A i \in D : (\A m \in D : h[m] < h[i] => m \in S) => i \in S
  <2> SUFFICES ASSUME NEW i \in D, \A m \in D : h[m] < h[i] => m \in S PROVE T[i] \in Int
    OBVIOUS
  <2>1. CASE i = 0 BY <1>12, <2>1 DEF Right
  <2>2. CASE i # 0
    <3>1. T[i-1] \in Int /\ Bits(i) \in Int BY <1>1, <1>2, <2>2
    <3>2. T[i] = T[i-1] + Bits(i) BY <1>12, <2>2 DEF Right, Bits
    <3> QED BY <3>1, <3>2
  <2> QED BY <2>1, <2>2
<1>14. D \subseteq S
  <2> HIDE DEF S, D
  <2> QED BY <1>6, <1>13, RankInduction
<1>15. w \in D OBVIOUS
<1> QED BY <1>9, <1>14, <1>15

(* A value is zero exactly if it is as a signed one.                       *)
LEMMA SignedFacts ==
  ASSUME NEW w \in Nat, NEW r \in Values(w)
  PROVE  signed(r, w) \in Int /\ (signed(r, w) = 0 => r = 0)
<1> DEFINE p == Pow2[w]
<1>1. p \in Nat \ {0} /\ r \in 0..p-1
  BY Pow2Facts DEF Values
<1>2. signed(r, w) = r - p \/ signed(r, w) = r
  BY DEF signed
<1> HIDE DEF p
<1> QED BY <1>1, <1>2

(* The quotient that truncates is an integer.                              *)
LEMMA QuotInt == \A a, b \in Int : b # 0 => Quot(a, b) \in Int
<1> SUFFICES ASSUME NEW a \in Int, NEW b \in Int, b # 0 PROVE Quot(a, b) \in Int
  OBVIOUS
<1> DEFINE m == Magnitude(a)
           n == Magnitude(b)
<1>1. m \in Nat /\ n \in Nat \ {0}
  BY DEF Magnitude
<1>2. Quot(a, b) = m \div n \/ Quot(a, b) = -(m \div n)
  BY DEF Quot
<1> HIDE DEF m, n
<1>3. m \div n \in Int
  BY <1>1
<1> QED BY <1>2, <1>3

(* An operation on two values of a type yields one of the type, in the     *)
(* interpreter where it is defined, in Z3 everywhere; and the same.        *)
LEMMA BinFacts ==
  ASSUME NEW op \in BinOps, NEW w \in Nat \ {0}, NEW l \in Values(w), NEW r \in Values(w)
  PROVE  /\ BinDefined(op, r, w) \in BOOLEAN
         /\ BinDefined(op, r, w) => BinVal(op, l, r, w) \in Values(w) /\ BinZ3(op, l, r, w) = BinVal(op, l, r, w)
         /\ BinZ3(op, l, r, w) \in Values(w)
<1>0. l \in Nat /\ r \in Nat /\ Pow2[r] \in Nat \ {0} /\ signed(l, w) \in Int /\ signed(r, w) \in Int
  BY MaskFacts, Pow2Facts
<1>1. ASSUME BinDefined(op, r, w) PROVE BinExact(op, l, r, w) \in Int
  <2>1. CASE op \in {"add", "sub", "mul"}
    <3>1. \A a, b \in Int : a + b \in Int /\ a - b \in Int /\ a * b \in Int OBVIOUS
    <3> QED BY <1>0, <2>1, <3>1 DEF BinExact
  <2>2. CASE op \in {"and", "or", "xor"}
    <3>1. BitByBit(op, l, r, w) \in Int BY <1>0, <2>2, BitByBitInt
    <3> QED BY <2>2, <3>1 DEF BinExact
  <2>3. CASE op \in {"udiv", "urem"}
    <3>1. r # 0 BY <1>1, <2>3 DEF BinDefined
    <3>2. l \div r \in Int /\ l % r \in Int BY <1>0, <3>1
    <3> QED BY <2>3, <3>2 DEF BinExact
  <2>4. CASE op \in {"sdiv", "srem"}
    <3>1. r # 0 BY <1>1, <2>4 DEF BinDefined
    <3>2. Quot(signed(l, w), signed(r, w)) \in Int BY <1>0, <3>1, SignedFacts, QuotInt
    <3>3. \A q, a, b \in Int : a - q * b \in Int OBVIOUS
    <3> QED BY <1>0, <2>4, <3>2, <3>3 DEF BinExact
  <2>5. CASE op \in {"shl", "lshr", "ashr"}
    <3>1. \A a \in Int : \A p \in Nat \ {0} : a * p \in Int /\ a \div p \in Int OBVIOUS
    <3> QED BY <1>0, <2>5, <3>1 DEF BinExact
  <2> QED BY <2>1, <2>2, <2>3, <2>4, <2>5 DEF BinOps
<1>2. BinDefined(op, r, w) => BinVal(op, l, r, w) \in Values(w)
  BY <1>1, MaskFacts DEF BinVal
<1>3. BinDefined(op, r, w) => BinZ3(op, l, r, w) = BinVal(op, l, r, w)
  BY DEF BinZ3
<1>4. BinDefined(op, r, w) \in BOOLEAN
  <2>1. (r # 0) \in BOOLEAN /\ (r < w) \in BOOLEAN BY <1>0
  <2>2. CASE op \in {"udiv", "urem", "sdiv", "srem"} BY <2>1, <2>2 DEF BinDefined
  <2>3. CASE op \in {"shl", "lshr", "ashr"} BY <2>1, <2>3 DEF BinDefined
  <2>4. CASE op \in {"add", "sub", "mul", "and", "or", "xor"} BY <2>4 DEF BinDefined
  <2> QED BY <2>2, <2>3, <2>4 DEF BinOps
<1>5. 0 \in Values(w) /\ 1 \in Values(w) /\ Pow2[w] - 1 \in Values(w)
  BY MaskFacts
<1>6. ASSUME ~BinDefined(op, r, w) PROVE BinZ3(op, l, r, w) \in Values(w)
  <2>1. op \in {"udiv", "urem", "sdiv", "srem", "shl", "lshr", "ashr"}
    BY <1>6 DEF BinDefined
  <2>2. BinZ3(op, l, r, w) \in {Pow2[w] - 1, 1, l, 0}
    BY <1>6, <2>1 DEF BinZ3
  <2> QED BY <1>5, <2>2
<1> QED BY <1>2, <1>3, <1>4, <1>6

(* The operations of one operand, likewise.                                *)
LEMMA UnFacts ==
  ASSUME NEW op \in UnOps, NEW from \in Nat \ {0}, NEW to \in Nat \ {0}, NEW v \in Values(from),
         \/ op \in {"neg", "not"} /\ to = from
         \/ op \in {"sext", "zext"} /\ to > from
         \/ op = "trunc" /\ to < from
  PROVE  UnVal(op, v, from, to) \in Values(to)
<1>0. v \in Nat /\ signed(v, from) \in Int
  BY MaskFacts
<1>1. CASE op = "neg"
  BY <1>0, <1>1, MaskFacts DEF UnVal
<1>2. CASE op = "not"
  BY <1>0, <1>2, MaskFacts DEF UnVal
<1>3. CASE op = "sext"
  BY <1>0, <1>3, MaskFacts DEF UnVal, sext
<1>4. CASE op = "zext"
  <2>1. Values(from) \subseteq Values(to) BY <1>4, MaskFacts
  <2> QED BY <1>4, <2>1 DEF UnVal
<1>5. CASE op = "trunc"
  BY <1>0, <1>5, MaskFacts DEF UnVal
<1> QED BY <1>1, <1>2, <1>3, <1>4, <1>5 DEF UnOps

(* A comparison is true or false.                                          *)
LEMMA CmpFacts ==
  ASSUME NEW op \in CmpOps, NEW w \in Nat, NEW l \in Values(w), NEW r \in Values(w)
  PROVE  CmpHolds(op, l, r, w) \in BOOLEAN
<1>1. l \in Int /\ r \in Int /\ signed(l, w) \in Int /\ signed(r, w) \in Int
  BY MaskFacts
<1>2. \A a, b \in Int : {a = b, a # b, a < b, a <= b, a > b, a >= b} \subseteq BOOLEAN
  OBVIOUS
<1> QED BY <1>1, <1>2 DEF CmpHolds, CmpOps

-----------------------------------------------------------------------------
(* Terms: values of their type, or undefined.                              *)
Outcome(e) == Values(e.ty) \cup {UB}
TermRank   == [e \in Terms |-> Depth(e)]

(* The parts of a term are terms, nested less deeply.                      *)
LEMMA TermParts ==
  /\ TermRank \in [Terms -> Nat]
  /\ \A e \in Terms :
       /\ e.k \in TermKinds /\ e.ty \in Nat \ {0} /\ WellTypedTerm(e)
       /\ \A p \in TermsIn(e) : p \in Terms /\ TermRank[p] < TermRank[e]
BY SemanticsAssumption DEF TermRank, Shallower

(* What the type checker says of the parts of an operation,                *)
LEMMA PartsOfBin ==
  ASSUME NEW e \in Terms, e.k = "bin"
  PROVE  /\ {e.lhs, e.rhs} \subseteq Terms /\ TermsIn(e) = {e.lhs, e.rhs}
         /\ e.op \in BinOps /\ e.lhs.ty = e.ty /\ e.rhs.ty = e.ty
<1>1. TermsIn(e) = {e.lhs, e.rhs}
  BY DEF TermsIn
<1>2. WellTypedTerm(e) /\ TermsIn(e) \subseteq Terms
  BY TermParts
<1> QED BY <1>1, <1>2 DEF WellTypedTerm

(* of an operation of one operand,                                         *)
LEMMA PartsOfUn ==
  ASSUME NEW e \in Terms, e.k = "un"
  PROVE  /\ e.arg \in Terms /\ TermsIn(e) = {e.arg} /\ e.op \in UnOps
         /\ \/ e.op \in {"neg", "not"} /\ e.ty = e.arg.ty
            \/ e.op \in {"sext", "zext"} /\ e.ty > e.arg.ty
            \/ e.op = "trunc" /\ e.ty < e.arg.ty
<1>1. TermsIn(e) = {e.arg}
  BY DEF TermsIn
<1>2. WellTypedTerm(e) /\ TermsIn(e) \subseteq Terms
  BY TermParts
<1> QED BY <1>1, <1>2 DEF WellTypedTerm, UnOps

(* and of a selection.                                                     *)
LEMMA PartsOfSelect ==
  ASSUME NEW e \in Terms, e.k = "select"
  PROVE  /\ {e.cond, e.then, e.else} \subseteq Terms /\ TermsIn(e) = {e.cond, e.then, e.else}
         /\ e.then.ty = e.ty /\ e.else.ty = e.ty
<1>1. TermsIn(e) = {e.cond, e.then, e.else}
  BY DEF TermsIn
<1>2. WellTypedTerm(e) /\ TermsIn(e) \subseteq Terms
  BY TermParts
<1> QED BY <1>1, <1>2 DEF WellTypedTerm

(* Constants and variables have values of their type.                      *)
LEMMA LeafFacts ==
  ASSUME NEW e \in Terms, NEW env \in Envs
  PROVE  /\ e.k = "const" => e.val \in Values(e.ty)
         /\ e.k = "var"   => env[e.name] \in Values(e.ty)
<1>1. WellTypedTerm(e)
  BY TermParts
<1> QED BY <1>1 DEF WellTypedTerm, Envs

(* Undefined is told apart from every value.                               *)
LEMMA UBIsNoValue == \A e \in Terms : UB \notin Values(e.ty) /\ Outcome(e) \subseteq Nat \cup {UB}
<1>1. \A e \in Terms : Values(e.ty) \subseteq Nat
  BY TermParts, MaskFacts
<1> QED BY <1>1 DEF UB, Outcome

(* _eval_expr of one node, given outcomes of its parts.                    *)
LEMMA ValueTyped ==
  ASSUME NEW e \in Terms, NEW env \in Envs, NEW V, \A p \in TermsIn(e) : V[p] \in Outcome(p)
  PROVE  ValueWith(e, env, V) \in Outcome(e)
<1>0. e.k \in TermKinds /\ e.ty \in Nat \ {0}
  BY TermParts
<1>1. CASE e.k \in {"const", "var"}
  BY <1>1, LeafFacts DEF ValueWith, Outcome
<1>2. CASE e.k = "bin"
  <2>1. V[e.lhs] \in Values(e.ty) \cup {UB} /\ V[e.rhs] \in Values(e.ty) \cup {UB} /\ e.op \in BinOps
    BY <1>2, PartsOfBin DEF Outcome
  <2>2. CASE V[e.lhs] = UB \/ V[e.rhs] = UB \/ ~BinDefined(e.op, V[e.rhs], e.ty)
    BY <1>2, <2>2 DEF ValueWith, Outcome
  <2>3. CASE ~(V[e.lhs] = UB \/ V[e.rhs] = UB \/ ~BinDefined(e.op, V[e.rhs], e.ty))
    <3>1. ValueWith(e, env, V) = BinVal(e.op, V[e.lhs], V[e.rhs], e.ty)
      BY <1>2, <2>3 DEF ValueWith
    <3> QED BY <1>0, <2>1, <2>3, <3>1, BinFacts DEF Outcome
  <2> QED BY <2>2, <2>3
<1>3. CASE e.k = "un"
  <2>1. e.arg \in Terms /\ V[e.arg] \in Values(e.arg.ty) \cup {UB} /\ e.arg.ty \in Nat \ {0}
    BY <1>3, PartsOfUn, TermParts DEF Outcome
  <2>2. CASE V[e.arg] = UB
    BY <1>3, <2>2 DEF ValueWith, Outcome
  <2>3. CASE V[e.arg] # UB
    <3>1. ValueWith(e, env, V) = UnVal(e.op, V[e.arg], e.arg.ty, e.ty)
      BY <1>3, <2>3 DEF ValueWith
    <3>2. V[e.arg] \in Values(e.arg.ty)
      BY <2>1, <2>3
    <3> QED BY <1>0, <1>3, <2>1, <3>1, <3>2, PartsOfUn, UnFacts DEF Outcome
  <2> QED BY <2>2, <2>3
<1>4. CASE e.k = "select"
  <2>1. V[e.then] \in Outcome(e) /\ V[e.else] \in Outcome(e)
    BY <1>4, PartsOfSelect DEF Outcome
  <2>2. ValueWith(e, env, V) \in {UB, V[e.then], V[e.else]}
    BY <1>4 DEF ValueWith
  <2> QED BY <2>1, <2>2 DEF Outcome
<1> QED BY <1>0, <1>1, <1>2, <1>3, <1>4 DEF TermKinds

(* The value of a node depends on those of its parts only.                 *)
LEMMA ValueLocal ==
  ASSUME NEW e \in Terms, NEW env, NEW U, NEW V, \A p \in TermsIn(e) : U[p] = V[p]
  PROVE  ValueWith(e, env, U) = ValueWith(e, env, V)
<1>0. e.k \in TermKinds
  BY TermParts
<1>1. CASE e.k \in {"const", "var"}
  BY <1>1 DEF ValueWith
<1>2. CASE e.k = "bin"
  <2>1. U[e.lhs] = V[e.lhs] /\ U[e.rhs] = V[e.rhs] BY <1>2, PartsOfBin
  <2> QED BY <1>2, <2>1 DEF ValueWith
<1>3. CASE e.k = "un"
  <2>1. U[e.arg] = V[e.arg] BY <1>3, PartsOfUn
  <2> QED BY <1>3, <2>1 DEF ValueWith
<1>4. CASE e.k = "select"
  <2>1. U[e.cond] = V[e.cond] /\ U[e.then] = V[e.then] /\ U[e.else] = V[e.else] BY <1>4, PartsOfSelect
  <2> QED BY <1>4, <2>1 DEF ValueWith
<1> QED BY <1>0, <1>1, <1>2, <1>3, <1>4 DEF TermKinds

(* _eval_expr is what its body says of it, and well typed.                 *)
MeansValue(V, env) ==
  \A e \in Terms : V[e] = EvalExpr(e, env) /\ V[e] = ValueWith(e, env, V) /\ V[e] \in Outcome(e)

(* There is a table of the values of all terms, and it is well typed.      *)
LEMMA EvalMeans == \A env \in Envs : \E V : MeansValue(V, env)
<1> SUFFICES ASSUME NEW env \in Envs PROVE \E V : MeansValue(V, env)
  OBVIOUS
<1> DEFINE R == Nat \cup {UB}
           Right(e, V) == IF ValueWith(e, env, V) \in R THEN ValueWith(e, env, V) ELSE UB
           G == [p \in Terms \X [Terms -> R] |-> Right(p[1], p[2])]
           IsTable(V) == V = [e \in Terms |-> ValueWith(e, env, V)]
           T == CHOOSE V : IsTable(V)
<1>1. \A e \in Terms : \A U, V \in [Terms -> R] :
        (\A p \in Terms : TermRank[p] < TermRank[e] => U[p] = V[p]) => Right(e, U) = Right(e, V)
  <2> SUFFICES ASSUME NEW e \in Terms, NEW U \in [Terms -> R], NEW V \in [Terms -> R],
                      \A p \in Terms : TermRank[p] < TermRank[e] => U[p] = V[p]
               PROVE  Right(e, U) = Right(e, V)
    OBVIOUS
  <2>1. \A p \in TermsIn(e) : U[p] = V[p]
    BY TermParts
  <2>2. ValueWith(e, env, U) = ValueWith(e, env, V)
    BY <2>1, ValueLocal
  <2> QED BY <2>2
<1>2. \A e \in Terms : \A V : Right(e, V) \in R /\ (ValueWith(e, env, V) \in R => Right(e, V) = ValueWith(e, env, V))
  OBVIOUS
<1>a. \A e : EvalExpr(e, env) = T[e]
  BY DEF EvalExpr
<1> HIDE DEF Right, T, R
<1>3. \A e \in Terms : \A V \in [Terms -> R] : G[<<e, V>>] = Right(e, V)
  OBVIOUS
<1>4. G \in [Terms \X [Terms -> R] -> R] /\ R # {}
  BY <1>2 DEF R
<1> HIDE DEF G
<1>5. Descends(Terms, R, TermRank, G)
  BY <1>1, <1>3, <1>4, TermParts DEF Descends
<1>6. PICK W : Solves(W, Terms, R, G)
  BY <1>5, Recursion
<1>7. W \in [Terms -> R] /\ \A e \in Terms : W[e] = Right(e, W)
  BY <1>3, <1>6 DEF Solves
<1> DEFINE S(V) == {e \in Terms : V[e] \in Outcome(e)}
<1>8. ASSUME NEW V, NEW e \in Terms, \A p \in Terms : TermRank[p] < TermRank[e] => p \in S(V)
      PROVE  ValueWith(e, env, V) \in Outcome(e) /\ ValueWith(e, env, V) \in R
  <2>1. \A p \in TermsIn(e) : V[p] \in Outcome(p)
    BY <1>8, TermParts
  <2> QED BY <2>1, ValueTyped, UBIsNoValue DEF R
<1>9. Terms \subseteq S(W)
  <2>1. \A e \in Terms : (\A p \in Terms : TermRank[p] < TermRank[e] => p \in S(W)) => e \in S(W)
    BY <1>2, <1>7, <1>8
  <2> HIDE DEF S
  <2> QED BY <2>1, TermParts, RankInduction
<1>10. \A e \in Terms : W[e] = ValueWith(e, env, W)
  BY <1>2, <1>7, <1>8, <1>9
<1>11. IsTable(W)
  <2>1. W = [e \in Terms |-> W[e]]
    BY <1>7
  <2> QED BY <1>10, <2>1
<1>12. IsTable(T)
  BY <1>11 DEF T
<1>13. \A e \in Terms : T[e] = ValueWith(e, env, T)
  BY <1>12
<1>14. Terms \subseteq S(T)
  <2>1. \A e \in Terms : (\A p \in Terms : TermRank[p] < TermRank[e] => p \in S(T)) => e \in S(T)
    BY <1>8, <1>13
  <2> HIDE DEF S
  <2> QED BY <2>1, TermParts, RankInduction
<1>15. MeansValue(T, env)
  BY <1>13, <1>14, <1>a DEF MeansValue
<1> QED BY <1>15

-----------------------------------------------------------------------------
(* The same for the bit-vector term Z3 is given.                           *)
BitVec(e) == [v : Values(e.ty), ok : BOOLEAN]

(* _term_to_z3 of one node, given bit vectors for its parts.               *)
LEMMA TermTyped ==
  ASSUME NEW e \in Terms, NEW env \in Envs, NEW T, \A p \in TermsIn(e) : T[p] \in BitVec(p)
  PROVE  TermWith(e, env, T) \in BitVec(e)
<1>0. e.k \in TermKinds /\ e.ty \in Nat \ {0}
  BY TermParts
<1>1. CASE e.k \in {"const", "var"}
  BY <1>1, LeafFacts DEF TermWith, BitVec
<1>2. CASE e.k = "bin"
  <2>1. /\ T[e.lhs].v \in Values(e.ty) /\ T[e.rhs].v \in Values(e.ty) /\ e.op \in BinOps
        /\ T[e.lhs].ok \in BOOLEAN /\ T[e.rhs].ok \in BOOLEAN
    BY <1>2, PartsOfBin DEF BitVec
  <2>2. /\ BinZ3(e.op, T[e.lhs].v, T[e.rhs].v, e.ty) \in Values(e.ty)
        /\ BinDefined(e.op, T[e.rhs].v, e.ty) \in BOOLEAN
    BY <1>0, <2>1, BinFacts
  <2>3. TermWith(e, env, T) = [v  |-> BinZ3(e.op, T[e.lhs].v, T[e.rhs].v, e.ty),
                               ok |-> T[e.lhs].ok /\ T[e.rhs].ok /\ BinDefined(e.op, T[e.rhs].v, e.ty)]
    BY <1>2 DEF TermWith
  <2> QED BY <2>1, <2>2, <2>3 DEF BitVec
<1>3. CASE e.k = "un"
  <2>1. e.arg \in Terms /\ T[e.arg].v \in Values(e.arg.ty) /\ T[e.arg].ok \in BOOLEAN /\ e.arg.ty \in Nat \ {0}
    BY <1>3, PartsOfUn, TermParts DEF BitVec
  <2>2. UnVal(e.op, T[e.arg].v, e.arg.ty, e.ty) \in Values(e.ty)
    BY <1>0, <1>3, <2>1, PartsOfUn, UnFacts
  <2>3. TermWith(e, env, T) = [v |-> UnVal(e.op, T[e.arg].v, e.arg.ty, e.ty), ok |-> T[e.arg].ok]
    BY <1>3 DEF TermWith
  <2> QED BY <2>1, <2>2, <2>3 DEF BitVec
<1>4. CASE e.k = "select"
  <2>1. /\ T[e.then].v \in Values(e.ty) /\ T[e.else].v \in Values(e.ty)
        /\ T[e.cond].ok \in BOOLEAN /\ T[e.then].ok \in BOOLEAN /\ T[e.else].ok \in BOOLEAN
    BY <1>4, PartsOfSelect DEF BitVec
  <2>2. TermWith(e, env, T) = [v  |-> Pick(T[e.cond], T[e.then], T[e.else]),
                               ok |-> T[e.cond].ok /\ T[e.then].ok /\ T[e.else].ok]
    BY <1>4 DEF TermWith
  <2>3. Pick(T[e.cond], T[e.then], T[e.else]) \in Values(e.ty)
    BY <2>1 DEF Pick
  <2> QED BY <2>1, <2>2, <2>3 DEF BitVec
<1> QED BY <1>0, <1>1, <1>2, <1>3, <1>4 DEF TermKinds

(* The bit vector of a node depends on those of its parts only.            *)
LEMMA TermLocal ==
  ASSUME NEW e \in Terms, NEW env, NEW U, NEW V, \A p \in TermsIn(e) : U[p] = V[p]
  PROVE  TermWith(e, env, U) = TermWith(e, env, V)
<1>0. e.k \in TermKinds
  BY TermParts
<1>1. CASE e.k \in {"const", "var"}
  BY <1>1 DEF TermWith
<1>2. CASE e.k = "bin"
  <2>1. U[e.lhs] = V[e.lhs] /\ U[e.rhs] = V[e.rhs] BY <1>2, PartsOfBin
  <2> QED BY <1>2, <2>1 DEF TermWith
<1>3. CASE e.k = "un"
  <2>1. U[e.arg] = V[e.arg] BY <1>3, PartsOfUn
  <2> QED BY <1>3, <2>1 DEF TermWith
<1>4. CASE e.k = "select"
  <2>1. U[e.cond] = V[e.cond] /\ U[e.then] = V[e.then] /\ U[e.else] = V[e.else] BY <1>4, PartsOfSelect
  <2> QED BY <1>4, <2>1 DEF TermWith
<1> QED BY <1>0, <1>1, <1>2, <1>3, <1>4 DEF TermKinds

MeansTerm(T, env) ==
  \A e \in Terms : T[e] = TermZ3(e, env) /\ T[e] = TermWith(e, env, T) /\ T[e] \in BitVec(e)

(* There is a table of the bit vectors of all terms.                       *)
LEMMA TermMeans == \A env \in Envs : \E T : MeansTerm(T, env)
<1> SUFFICES ASSUME NEW env \in Envs PROVE \E T : MeansTerm(T, env)
  OBVIOUS
<1> DEFINE R == [v : Nat, ok : BOOLEAN]
           Right(e, V) == IF TermWith(e, env, V) \in R THEN TermWith(e, env, V) ELSE [v |-> 0, ok |-> FALSE]
           G == [p \in Terms \X [Terms -> R] |-> Right(p[1], p[2])]
           IsTable(V) == V = [e \in Terms |-> TermWith(e, env, V)]
           T == CHOOSE V : IsTable(V)
<1>1. \A e \in Terms : \A U, V \in [Terms -> R] :
        (\A p \in Terms : TermRank[p] < TermRank[e] => U[p] = V[p]) => Right(e, U) = Right(e, V)
  <2> SUFFICES ASSUME NEW e \in Terms, NEW U \in [Terms -> R], NEW V \in [Terms -> R],
                      \A p \in Terms : TermRank[p] < TermRank[e] => U[p] = V[p]
               PROVE  Right(e, U) = Right(e, V)
    OBVIOUS
  <2>1. \A p \in TermsIn(e) : U[p] = V[p]
    BY TermParts
  <2>2. TermWith(e, env, U) = TermWith(e, env, V)
    BY <2>1, TermLocal
  <2> QED BY <2>2
<1>r. [v |-> 0, ok |-> FALSE] \in R /\ \A e \in Terms : BitVec(e) \subseteq R
  <2>1. \A e \in Terms : Values(e.ty) \subseteq Nat BY TermParts, MaskFacts
  <2> QED BY <2>1 DEF BitVec
<1> HIDE DEF R
<1>2. \A e \in Terms : \A V : Right(e, V) \in R /\ (TermWith(e, env, V) \in R => Right(e, V) = TermWith(e, env, V))
  BY <1>r
<1>a. \A e : TermZ3(e, env) = T[e]
  BY DEF TermZ3
<1> HIDE DEF Right, T
<1>3. \A e \in Terms : \A V \in [Terms -> R] : G[<<e, V>>] = Right(e, V)
  OBVIOUS
<1>4. G \in [Terms \X [Terms -> R] -> R] /\ R # {}
  BY <1>2, <1>r
<1> HIDE DEF G
<1>5. Descends(Terms, R, TermRank, G)
  BY <1>1, <1>3, <1>4, TermParts DEF Descends
<1>6. PICK W : Solves(W, Terms, R, G)
  BY <1>5, Recursion
<1>7. W \in [Terms -> R] /\ \A e \in Terms : W[e] = Right(e, W)
  BY <1>3, <1>6 DEF Solves
<1> DEFINE S(V) == {e \in Terms : V[e] \in BitVec(e)}
<1>8. ASSUME NEW V, NEW e \in Terms, \A p \in Terms : TermRank[p] < TermRank[e] => p \in S(V)
      PROVE  TermWith(e, env, V) \in BitVec(e) /\ TermWith(e, env, V) \in R
  <2>1. \A p \in TermsIn(e) : V[p] \in BitVec(p)
    BY <1>8, TermParts
  <2> QED BY <2>1, <1>r, TermTyped
<1>9. Terms \subseteq S(W)
  <2>1. \A e \in Terms : (\A p \in Terms : TermRank[p] < TermRank[e] => p \in S(W)) => e \in S(W)
    BY <1>2, <1>7, <1>8
  <2> HIDE DEF S
  <2> QED BY <2>1, TermParts, RankInduction
<1>10. \A e \in Terms : W[e] = TermWith(e, env, W)
  BY <1>2, <1>7, <1>8, <1>9
<1>11. IsTable(W)
  <2>1. W = [e \in Terms |-> W[e]]
    BY <1>7
  <2> QED BY <1>10, <2>1
<1>12. IsTable(T)
  BY <1>11 DEF T
<1>13. \A e \in Terms : T[e] = TermWith(e, env, T)
  BY <1>12
<1>14. Terms \subseteq S(T)
  <2>1. \A e \in Terms : (\A p \in Terms : TermRank[p] < TermRank[e] => p \in S(T)) => e \in S(T)
    BY <1>8, <1>13
  <2> HIDE DEF S
  <2> QED BY <2>1, TermParts, RankInduction
<1>15. MeansTerm(T, env)
  BY <1>13, <1>14, <1>a DEF MeansTerm
<1> QED BY <1>15

-----------------------------------------------------------------------------
(* Where all conditions that _term_to_z3 collected for a term hold, the    *)
(* interpreter evaluates it, to the same value (src/spec/interpreter.py:   *)
(* 102-172 and src/eval/verify_smt.py:50-111).                             *)
THEOREM TermsAgree ==
  ASSUME NEW env \in Envs, NEW e \in Terms
  PROVE  /\ EvalExpr(e, env) \in Values(e.ty) \cup {UB}
         /\ TermZ3(e, env).v \in Values(e.ty) /\ TermZ3(e, env).ok \in BOOLEAN
         /\ TermZ3(e, env).ok => EvalExpr(e, env) = TermZ3(e, env).v /\ EvalExpr(e, env) # UB
<1>1. PICK V : MeansValue(V, env)
  BY EvalMeans
<1>2. PICK T : MeansTerm(T, env)
  BY TermMeans
<1>v. \A p \in Terms : V[p] = ValueWith(p, env, V) /\ V[p] \in Outcome(p)
  BY <1>1 DEF MeansValue
<1>t. \A p \in Terms : T[p] = TermWith(p, env, T) /\ T[p] \in BitVec(p)
  BY <1>2 DEF MeansTerm
<1> DEFINE Agrees(p) == T[p].ok => V[p] = T[p].v
           S == {p \in Terms : Agrees(p)}
<1>3. \A p \in Terms : Agrees(p) /\ T[p].ok => V[p] # UB
  BY <1>t, UBIsNoValue DEF BitVec
<1>4. ASSUME NEW p \in Terms, \A q \in TermsIn(p) : Agrees(q), T[p].ok
      PROVE  V[p] = T[p].v
  <2>0. p.k \in TermKinds /\ p.ty \in Nat \ {0} /\ V[p] = ValueWith(p, env, V) /\ T[p] = TermWith(p, env, T)
    BY <1>v, <1>t, TermParts
  <2>1. CASE p.k \in {"const", "var"}
    BY <2>0, <2>1 DEF ValueWith, TermWith
  <2>2. CASE p.k = "bin"
    <3> DEFINE l == T[p.lhs]
               r == T[p.rhs]
    <3>1. {p.lhs, p.rhs} \subseteq Terms /\ Agrees(p.lhs) /\ Agrees(p.rhs)
      BY <1>4, <2>2, PartsOfBin
    <3>2. T[p].v = BinZ3(p.op, l.v, r.v, p.ty) /\ T[p].ok = (l.ok /\ r.ok /\ BinDefined(p.op, r.v, p.ty))
      BY <2>0, <2>2 DEF TermWith
    <3>3. l.ok /\ r.ok /\ BinDefined(p.op, r.v, p.ty)
      BY <1>4, <3>2
    <3>4. V[p.lhs] = l.v /\ V[p.rhs] = r.v /\ V[p.lhs] # UB /\ V[p.rhs] # UB
      BY <1>3, <3>1, <3>3
    <3>5. V[p] = BinVal(p.op, l.v, r.v, p.ty)
      BY <2>0, <2>2, <3>3, <3>4 DEF ValueWith
    <3>6. l.v \in Values(p.ty) /\ r.v \in Values(p.ty) /\ p.op \in BinOps
      BY <1>t, <2>2, PartsOfBin DEF BitVec
    <3> QED BY <2>0, <3>2, <3>3, <3>5, <3>6, BinFacts
  <2>3. CASE p.k = "un"
    <3>1. p.arg \in Terms /\ Agrees(p.arg)
      BY <1>4, <2>3, PartsOfUn
    <3>2. T[p].v = UnVal(p.op, T[p.arg].v, p.arg.ty, p.ty) /\ T[p].ok = T[p.arg].ok
      BY <2>0, <2>3 DEF TermWith
    <3>3. V[p.arg] = T[p.arg].v /\ V[p.arg] # UB
      BY <1>3, <1>4, <3>1, <3>2
    <3> QED BY <2>0, <2>3, <3>2, <3>3 DEF ValueWith
  <2>4. CASE p.k = "select"
    <3>1. {p.cond, p.then, p.else} \subseteq Terms /\ Agrees(p.cond) /\ Agrees(p.then) /\ Agrees(p.else)
      BY <1>4, <2>4, PartsOfSelect
    <3>2. T[p].v = Pick(T[p.cond], T[p.then], T[p.else]) /\ T[p].ok = (T[p.cond].ok /\ T[p.then].ok /\ T[p.else].ok)
      BY <2>0, <2>4 DEF TermWith
    <3>3. T[p.cond].ok /\ T[p.then].ok /\ T[p.else].ok
      BY <1>4, <3>2
    <3>4. V[p.cond] = T[p.cond].v /\ V[p.cond] # UB /\ V[p.then] = T[p.then].v /\ V[p.else] = T[p.else].v
      BY <1>3, <3>1, <3>3
    <3> QED BY <2>0, <2>4, <3>2, <3>4 DEF ValueWith, Pick
  <2> QED BY <2>0, <2>1, <2>2, <2>3, <2>4 DEF TermKinds
<1>5. Terms \subseteq S
  <2>1. \A p \in Terms : (\A q \in Terms : TermRank[q] < TermRank[p] => q \in S) => p \in S
    BY <1>4, TermParts
  <2> HIDE DEF S
  <2> QED BY <2>1, TermParts, RankInduction
<1>6. Agrees(e)
  BY <1>5
<1>7. V[e] = EvalExpr(e, env) /\ T[e] = TermZ3(e, env) /\ V[e] \in Outcome(e) /\ T[e] \in BitVec(e)
  BY <1>1, <1>2 DEF MeansValue, MeansTerm
<1> QED BY <1>3, <1>6, <1>7 DEF Outcome, BitVec

-----------------------------------------------------------------------------
(* Formulas, in all environments at once.                                  *)
Truths      == {"true", "false", "ub", "smt"}
FormulaRank == [f \in Formulas |-> Depth(f)]
At(f, env, n) == [env EXCEPT ![f.var] = n]

(* The parts of a formula are formulas, nested less deeply.                *)
LEMMA FormulaParts ==
  /\ FormulaRank \in [Formulas -> Nat]
  /\ \A f \in Formulas :
       /\ f.k \in FormulaKinds /\ WellTypedFormula(f) /\ TermsIn(f) \subseteq Terms
       /\ \A g \in FormulasIn(f) : g \in Formulas /\ FormulaRank[g] < FormulaRank[f]
BY SemanticsAssumption DEF FormulaRank, Shallower

(* What the type checker says of the sides of a comparison,                *)
LEMMA PartsOfCmp ==
  ASSUME NEW f \in Formulas, f.k = "cmp"
  PROVE  f.lhs \in Terms /\ f.rhs \in Terms /\ f.op \in CmpOps /\ f.lhs.ty = f.rhs.ty /\ f.lhs.ty \in Nat \ {0}
<1>1. TermsIn(f) = {f.lhs, f.rhs}
  BY DEF TermsIn
<1>2. WellTypedFormula(f) /\ TermsIn(f) \subseteq Terms
  BY FormulaParts
<1>3. f.op \in CmpOps /\ f.lhs.ty = f.rhs.ty
  BY <1>2 DEF WellTypedFormula, Quantifiers
<1> QED BY <1>1, <1>2, <1>3, TermParts

(* of a variable that is bound: its value makes an environment,            *)
LEMMA PartsOfBinder ==
  ASSUME NEW f \in Formulas, f.k \in Quantifiers \cup {"let"}
  PROVE  /\ f.body \in FormulasIn(f) /\ f.body \in Formulas
         /\ f.var \in Names /\ f.ty = Width(f.var) /\ f.ty \in Nat \ {0}
         /\ f.k = "let" => f.value \in Terms /\ f.value.ty = f.ty
         /\ \A env \in Envs : \A n \in Values(f.ty) : At(f, env, n) \in Envs
<1>1. f.body \in FormulasIn(f)
  BY DEF FormulasIn, Quantifiers, Connectives
<1>2. WellTypedFormula(f) /\ TermsIn(f) \subseteq Terms /\ f.body \in Formulas
  BY <1>1, FormulaParts
<1>3. Binds(f) /\ (f.k = "let" => f.value.ty = f.ty)
  BY <1>2 DEF WellTypedFormula, Quantifiers
<1>4. f.k = "let" => f.value \in Terms
  BY <1>2 DEF TermsIn
<1>w. \A n \in Names : Width(n) \in Nat \ {0}
  BY SemanticsAssumption
<1>5. f.var \in Names /\ f.ty = Width(f.var) /\ f.ty \in Nat \ {0}
  BY <1>3, <1>w DEF Binds
<1>6. ASSUME NEW env \in Envs, NEW n \in Values(f.ty) PROVE At(f, env, n) \in Envs
  <2>1. n \in Nat BY <1>5, MaskFacts
  <2>2. env \in [Names -> Nat] /\ \A m \in Names : env[m] \in Values(Width(m)) BY DEF Envs
  <2>3. At(f, env, n) \in [Names -> Nat] BY <1>5, <2>1, <2>2 DEF At
  <2>4. \A m \in Names : At(f, env, n)[m] = IF m = f.var THEN n ELSE env[m] BY <1>5, <2>2 DEF At
  <2>5. \A m \in Names : At(f, env, n)[m] \in Values(Width(m)) BY <1>5, <2>2, <2>4
  <2> QED BY <2>3, <2>5 DEF Envs
<1> QED BY <1>1, <1>2, <1>3, <1>4, <1>5, <1>6

(* and of the other connectives.                                           *)
LEMMA PartsOfJoin ==
  ASSUME NEW f \in Formulas
  PROVE  /\ f.k \in Connectives => {f.lhs, f.rhs} \subseteq FormulasIn(f)
         /\ f.k = "not" => f.arg \in FormulasIn(f)
<1>1. CASE f.k \in Connectives
  BY <1>1 DEF FormulasIn, Connectives, Quantifiers
<1>2. CASE f.k = "not"
  BY <1>2 DEF FormulasIn, Connectives, Quantifiers
<1>3. ~(f.k \in Connectives /\ f.k = "not")
  BY DEF Connectives
<1> QED BY <1>1, <1>2, <1>3

(* Recursion on formulas, in all environments at once.                     *)
FormulaWise(R, F) ==
  /\ F \in [Formulas \X Envs \X [Formulas -> [Envs -> R]] -> R]
  /\ \A f \in Formulas : \A e \in Envs : \A U, V \in [Formulas -> [Envs -> R]] :
       (\A g \in FormulasIn(f) : U[g] = V[g]) => F[<<f, e, U>>] = F[<<f, e, V>>]
FormulaTable(H, R, F) ==
  H \in [Formulas -> [Envs -> R]] /\ \A f \in Formulas : \A e \in Envs : H[f][e] = F[<<f, e, H>>]

(* A definition by such a recursion has a solution.                        *)
LEMMA FormulaRecursion ==
  ASSUME NEW R, R # {}, NEW F, FormulaWise(R, F)
  PROVE  \E H : FormulaTable(H, R, F)
<1>f. F \in [Formulas \X Envs \X [Formulas -> [Envs -> R]] -> R]
  BY DEF FormulaWise
<1>w. \A f \in Formulas : \A e \in Envs : \A U, V \in [Formulas -> [Envs -> R]] :
        (\A g \in FormulasIn(f) : U[g] = V[g]) => F[<<f, e, U>>] = F[<<f, e, V>>]
  BY DEF FormulaWise
<1> DEFINE B == [Envs -> R]
           G == [p \in Formulas \X [Formulas -> B] |-> [e \in Envs |-> F[<<p[1], e, p[2]>>]]]
<1>1. B # {}
  <2>1. PICK r \in R : TRUE OBVIOUS
  <2>2. [e \in Envs |-> r] \in B OBVIOUS
  <2> QED BY <2>2
<1>2. \A f \in Formulas : \A U \in [Formulas -> B] :
        G[<<f, U>>] \in B /\ \A e \in Envs : G[<<f, U>>][e] = F[<<f, e, U>>]
  BY <1>f
<1>3. G \in [Formulas \X [Formulas -> B] -> B]
  BY <1>f
<1>x. \A u, v \in B : (\A e \in Envs : u[e] = v[e]) => u = v
  OBVIOUS
<1>4. \A f \in Formulas : \A U, V \in [Formulas -> B] :
        (\A g \in Formulas : FormulaRank[g] < FormulaRank[f] => U[g] = V[g]) => G[<<f, U>>] = G[<<f, V>>]
  <2> SUFFICES ASSUME NEW f \in Formulas, NEW U \in [Formulas -> B], NEW V \in [Formulas -> B],
                      \A g \in Formulas : FormulaRank[g] < FormulaRank[f] => U[g] = V[g]
               PROVE  G[<<f, U>>] = G[<<f, V>>]
    OBVIOUS
  <2>1. \A g \in FormulasIn(f) : U[g] = V[g]
    BY FormulaParts
  <2>2. \A e \in Envs : F[<<f, e, U>>] = F[<<f, e, V>>]
    BY <2>1, <1>w
  <2>3. G[<<f, U>>] \in B /\ G[<<f, V>>] \in B /\ \A e \in Envs : G[<<f, U>>][e] = G[<<f, V>>][e]
    BY <1>2, <2>2
  <2> HIDE DEF G, B
  <2> QED BY <2>3, <1>x
<1> HIDE DEF G, B
<1>5. Descends(Formulas, B, FormulaRank, G)
  BY <1>1, <1>3, <1>4, FormulaParts DEF Descends
<1>6. PICK H : Solves(H, Formulas, B, G)
  BY <1>5, Recursion
<1>7. H \in [Formulas -> B] /\ \A f \in Formulas : \A e \in Envs : H[f][e] = F[<<f, e, H>>]
  <2>1. H \in [Formulas -> B] /\ \A f \in Formulas : H[f] = G[<<f, H>>]
    BY <1>6 DEF Solves
  <2>2. ASSUME NEW f \in Formulas, NEW e \in Envs PROVE H[f][e] = F[<<f, e, H>>]
    <3>1. G[<<f, H>>][e] = F[<<f, e, H>>] BY <1>2, <2>1, Zenon
    <3> QED BY <2>1, <3>1, Zenon
  <2> QED BY <2>1, <2>2, Zenon
<1> QED BY <1>7 DEF B, FormulaTable

(* A set of numbers that is not empty has a first one.                     *)
LEMMA FirstIsIn == \A S \in SUBSET Nat : S # {} => First(S) \in S
<1> SUFFICES ASSUME NEW S \in SUBSET Nat, S # {} PROVE First(S) \in S
  OBVIOUS
<1>1. \E n \in S : \A m \in S : n <= m
  BY LeastElement
<1> QED BY <1>1 DEF First

(* eval_formula of one node.                                               *)
Stops(f, env, h, goesOn) == {n \in Values(f.ty) : h[At(f, env, n)] # goesOn}
GoesOn(k) == IF k = "forall" THEN "true" ELSE "false"

(* What eval_formula says of each kind of formula.                         *)
LEMMA HoldsCases ==
  ASSUME NEW f, NEW env, NEW H
  PROVE  /\ f.k \in {"true", "false"} => HoldsWith(f, env, H) = f.k
         /\ f.k = "cmp" =>
              HoldsWith(f, env, H) =
                IF EvalExpr(f.lhs, env) = UB \/ EvalExpr(f.rhs, env) = UB THEN "ub"
                ELSE Truth(CmpHolds(f.op, EvalExpr(f.lhs, env), EvalExpr(f.rhs, env), f.lhs.ty))
         /\ f.k = "not" =>
              HoldsWith(f, env, H) =
                IF H[f.arg][env] \in Raised THEN H[f.arg][env] ELSE Truth(H[f.arg][env] = "false")
         /\ f.k = "and" =>
              HoldsWith(f, env, H) = IF H[f.lhs][env] = "true" THEN H[f.rhs][env] ELSE H[f.lhs][env]
         /\ f.k = "or" =>
              HoldsWith(f, env, H) = IF H[f.lhs][env] = "false" THEN H[f.rhs][env] ELSE H[f.lhs][env]
         /\ f.k = "implies" =>
              HoldsWith(f, env, H) = IF H[f.lhs][env] = "true" THEN H[f.rhs][env]
                                     ELSE IF H[f.lhs][env] = "false" THEN "true" ELSE H[f.lhs][env]
         /\ f.k = "iff" =>
              HoldsWith(f, env, H) = IF H[f.lhs][env] \in Raised THEN H[f.lhs][env]
                                     ELSE IF H[f.rhs][env] \in Raised THEN H[f.rhs][env]
                                     ELSE Truth(H[f.lhs][env] = H[f.rhs][env])
         /\ f.k \in Quantifiers =>
              HoldsWith(f, env, H) =
                IF Pow2[f.ty] > EnumMax THEN "smt"
                ELSE IF Stops(f, env, H[f.body], GoesOn(f.k)) = {} THEN GoesOn(f.k)
                ELSE H[f.body][At(f, env, First(Stops(f, env, H[f.body], GoesOn(f.k))))]
         /\ f.k = "let" =>
              HoldsWith(f, env, H) = IF EvalExpr(f.value, env) = UB THEN "ub"
                                     ELSE H[f.body][At(f, env, mask(EvalExpr(f.value, env), f.ty))]
<1>1. f.k \in {"true", "false"} => HoldsWith(f, env, H) = f.k
  BY DEF HoldsWith
<1>2. CASE f.k = "cmp" BY <1>2 DEF HoldsWith, Quantifiers
<1>3. CASE f.k = "not" BY <1>3 DEF HoldsWith, Quantifiers
<1>4. CASE f.k = "and" BY <1>4 DEF HoldsWith, Quantifiers
<1>5. CASE f.k = "or" BY <1>5 DEF HoldsWith, Quantifiers
<1>6. CASE f.k = "implies" BY <1>6 DEF HoldsWith, Quantifiers
<1>7. CASE f.k = "iff" BY <1>7 DEF HoldsWith, Quantifiers
<1>8. CASE f.k = "forall" BY <1>8 DEF HoldsWith, Quantifiers, GoesOn, Stops, At
<1>9. CASE f.k = "exists" BY <1>9 DEF HoldsWith, Quantifiers, GoesOn, Stops, At
<1>10. CASE f.k = "let" BY <1>10 DEF HoldsWith, Quantifiers, At
<1> QED BY <1>1, <1>2, <1>3, <1>4, <1>5, <1>6, <1>7, <1>8, <1>9, <1>10 DEF Quantifiers

(* It returns a truth value or raises.                                     *)
LEMMA HoldsTyped ==
  ASSUME NEW f \in Formulas, NEW env \in Envs, NEW H,
         \A g \in FormulasIn(f) : \A e \in Envs : H[g][e] \in Truths
  PROVE  HoldsWith(f, env, H) \in Truths
<1>0. f.k \in FormulaKinds /\ Raised \subseteq Truths /\ {"true", "false", "ub", "smt"} \subseteq Truths
  BY FormulaParts DEF Raised, Truths
<1>t. \A b : Truth(b) \in Truths
  BY DEF Truth, Truths
<1>1. CASE f.k \in {"true", "false", "cmp"}
  BY <1>0, <1>1, <1>t, HoldsCases
<1>2. CASE f.k \in Connectives
  <2>1. H[f.lhs][env] \in Truths /\ H[f.rhs][env] \in Truths
    BY <1>2, PartsOfJoin
  <2>2. HoldsWith(f, env, H) \in {H[f.lhs][env], H[f.rhs][env], "true", Truth(H[f.lhs][env] = H[f.rhs][env])}
    <3>1. f.k \in {"and", "or", "implies", "iff"} BY <1>2 DEF Connectives
    <3> QED BY <3>1, HoldsCases
  <2> QED BY <1>0, <1>t, <2>1, <2>2
<1>3. CASE f.k = "not"
  <2>1. H[f.arg][env] \in Truths
    BY <1>3, PartsOfJoin
  <2> QED BY <1>3, <1>t, <2>1, HoldsCases
<1>4. CASE f.k \in Quantifiers
  <2>1. f.body \in FormulasIn(f) /\ \A n \in Values(f.ty) : At(f, env, n) \in Envs
    BY <1>4, PartsOfBinder
  <2> DEFINE S == Stops(f, env, H[f.body], GoesOn(f.k))
  <2>2. S \in SUBSET Values(f.ty) /\ Values(f.ty) \subseteq Nat
    BY <1>4, PartsOfBinder, MaskFacts DEF Stops
  <2>3. \/ HoldsWith(f, env, H) \in {"smt", GoesOn(f.k)}
        \/ S # {} /\ HoldsWith(f, env, H) = H[f.body][At(f, env, First(S))]
    BY <1>4, HoldsCases
  <2>4. GoesOn(f.k) \in Truths
    BY DEF GoesOn, Truths
  <2> HIDE DEF S
  <2>5. S # {} => First(S) \in Values(f.ty)
    BY <2>2, FirstIsIn
  <2> QED BY <1>0, <2>1, <2>3, <2>4, <2>5
<1>5. CASE f.k = "let"
  <2> DEFINE v == EvalExpr(f.value, env)
  <2>1. f.body \in FormulasIn(f) /\ f.value \in Terms /\ f.ty \in Nat \ {0} /\ \A n \in Values(f.ty) : At(f, env, n) \in Envs
    BY <1>5, PartsOfBinder
  <2>2. HoldsWith(f, env, H) = IF v = UB THEN "ub" ELSE H[f.body][At(f, env, mask(v, f.ty))]
    BY <1>5, HoldsCases
  <2>3. v \in Int
    BY <2>1, TermsAgree, UBIsNoValue DEF Outcome, UB
  <2>4. mask(v, f.ty) \in Values(f.ty)
    BY <2>1, <2>3, MaskFacts
  <2> QED BY <1>0, <2>1, <2>2, <2>4
<1> QED BY <1>0, <1>1, <1>2, <1>3, <1>4, <1>5 DEF FormulaKinds

(* The value of a formula depends on those of its parts only.              *)
LEMMA HoldsLocal ==
  ASSUME NEW f \in Formulas, NEW env, NEW U, NEW V, \A g \in FormulasIn(f) : U[g] = V[g]
  PROVE  HoldsWith(f, env, U) = HoldsWith(f, env, V)
<1>0. f.k \in FormulaKinds
  BY FormulaParts
<1>1. CASE f.k \in {"true", "false"}
  BY <1>1 DEF HoldsWith
<1>2. CASE f.k = "cmp"
  BY <1>2 DEF HoldsWith, Quantifiers
<1>3. CASE f.k \in Connectives
  <2>1. U[f.lhs] = V[f.lhs] /\ U[f.rhs] = V[f.rhs]
    BY <1>3, PartsOfJoin
  <2>2. f.k \in {"and", "or", "implies", "iff"}
    BY <1>3 DEF Connectives
  <2> QED BY <2>1, <2>2, HoldsCases
<1>4. CASE f.k = "not"
  <2>1. U[f.arg] = V[f.arg]
    BY <1>4, PartsOfJoin
  <2> QED BY <1>4, <2>1, HoldsCases
<1>5. CASE f.k \in Quantifiers \cup {"let"}
  <2>1. U[f.body] = V[f.body]
    BY <1>5, PartsOfBinder
  <2> QED BY <1>5, <2>1, HoldsCases
<1> QED BY <1>0, <1>1, <1>2, <1>3, <1>4, <1>5 DEF FormulaKinds

(* eval_formula is what its body says of it.                               *)
MeansHolds(H) ==
  \A f \in Formulas : \A e \in Envs :
    H[f][e] = EvalFormula(f, e) /\ H[f][e] = HoldsWith(f, e, H) /\ H[f][e] \in Truths

(* There is a table of the values of all formulas.                         *)
LEMMA HoldsMeans == \E H : MeansHolds(H)
<1> DEFINE D == Formulas \X Envs \X [Formulas -> [Envs -> Truths]]
           F == [p \in D |-> HoldsWith(p[1], p[2], p[3])]
           IsTable(V) == V = [g \in Formulas |-> [e \in Envs |-> HoldsWith(g, e, V)]]
           T == CHOOSE V : IsTable(V)
<1>a. \A f, e : EvalFormula(f, e) = T[f][e]
  BY DEF EvalFormula, Holds
<1> HIDE DEF T
<1>1. \A f \in Formulas : \A e \in Envs : \A V \in [Formulas -> [Envs -> Truths]] :
        F[<<f, e, V>>] = HoldsWith(f, e, V)
  OBVIOUS
<1>2. \A f \in Formulas : \A e \in Envs : \A V \in [Formulas -> [Envs -> Truths]] : HoldsWith(f, e, V) \in Truths
  <2> SUFFICES ASSUME NEW f \in Formulas, NEW e \in Envs, NEW V \in [Formulas -> [Envs -> Truths]]
               PROVE  HoldsWith(f, e, V) \in Truths
    OBVIOUS
  <2>1. \A g \in FormulasIn(f) : \A d \in Envs : V[g][d] \in Truths
    BY FormulaParts
  <2> QED BY <2>1, HoldsTyped
<1>3. F \in [D -> Truths]
  <2>1. \A p \in D : HoldsWith(p[1], p[2], p[3]) \in Truths
    BY <1>2
  <2> HIDE DEF D
  <2> QED BY <2>1
<1>4. \A f \in Formulas : \A e \in Envs : \A U, V \in [Formulas -> [Envs -> Truths]] :
        (\A g \in FormulasIn(f) : U[g] = V[g]) => F[<<f, e, U>>] = F[<<f, e, V>>]
  <2> HIDE DEF F
  <2> QED BY <1>1, HoldsLocal
<1> HIDE DEF F
<1>5. Truths # {}
  BY DEF Truths
<1>w. FormulaWise(Truths, F)
  BY <1>3, <1>4 DEF FormulaWise
<1>p. PICK H : FormulaTable(H, Truths, F)
  BY <1>w, <1>5, FormulaRecursion
<1>6. H \in [Formulas -> [Envs -> Truths]] /\ \A f \in Formulas : \A e \in Envs : H[f][e] = F[<<f, e, H>>]
  BY <1>p DEF FormulaTable
<1>7. \A f \in Formulas : \A e \in Envs : H[f][e] = HoldsWith(f, e, H)
  BY <1>1, <1>6, Zenon
<1>8. IsTable(H)
  <2>1. \A f \in Formulas : H[f] = [e \in Envs |-> H[f][e]]
    BY <1>6
  <2>2. \A f \in Formulas : H[f] = [e \in Envs |-> HoldsWith(f, e, H)]
    BY <1>7, <2>1
  <2>3. H = [f \in Formulas |-> H[f]]
    BY <1>6
  <2> QED BY <2>2, <2>3
<1>9. IsTable(T)
  BY <1>8 DEF T
<1>10. \A f \in Formulas : \A e \in Envs : T[f][e] = HoldsWith(f, e, T)
  BY <1>9
<1> DEFINE S == {f \in Formulas : \A e \in Envs : T[f][e] \in Truths}
<1>11. Formulas \subseteq S
  <2>1. \A f \in Formulas : (\A g \in Formulas : FormulaRank[g] < FormulaRank[f] => g \in S) => f \in S
    <3> SUFFICES ASSUME NEW f \in Formulas, \A g \in Formulas : FormulaRank[g] < FormulaRank[f] => g \in S,
                        NEW e \in Envs
                 PROVE  T[f][e] \in Truths
      OBVIOUS
    <3>1. \A g \in FormulasIn(f) : \A d \in Envs : T[g][d] \in Truths
      BY FormulaParts
    <3> QED BY <1>10, <3>1, HoldsTyped
  <2> HIDE DEF S
  <2> QED BY <2>1, FormulaParts, RankInduction
<1>12. MeansHolds(T)
  BY <1>10, <1>11, <1>a DEF MeansHolds
<1> QED BY <1>12

-----------------------------------------------------------------------------
(* The same for the formula Z3 is given.                                   *)
Reading == [v : BOOLEAN, ok : BOOLEAN]
ReadingOf(v, ok) == [v |-> v, ok |-> ok]

(* A reading of two truth values is typed and has them as fields.          *)
LEMMA ReadingFacts ==
  \A v, ok \in BOOLEAN : /\ ReadingOf(v, ok) \in Reading
                         /\ ReadingOf(v, ok).v = v /\ ReadingOf(v, ok).ok = ok
BY DEF Reading, ReadingOf

(* What _formula_to_z3 says of each kind of formula.                       *)
LEMMA QueryCases ==
  ASSUME NEW f, NEW env, NEW Q
  PROVE  /\ f.k \in {"true", "false"} => QueryWith(f, env, Q) = ReadingOf(f.k = "true", TRUE)
         /\ f.k = "cmp" =>
              QueryWith(f, env, Q) =
                ReadingOf(CmpHolds(f.op, TermZ3(f.lhs, env).v, TermZ3(f.rhs, env).v, f.lhs.ty),
                          TermZ3(f.lhs, env).ok /\ TermZ3(f.rhs, env).ok)
         /\ f.k = "not" => QueryWith(f, env, Q) = ReadingOf(~Q[f.arg][env].v, Q[f.arg][env].ok)
         /\ f.k \in Connectives =>
              QueryWith(f, env, Q) = ReadingOf(Joined(f.k, Q[f.lhs][env].v, Q[f.rhs][env].v),
                                               Q[f.lhs][env].ok /\ Q[f.rhs][env].ok)
         /\ f.k = "forall" =>
              QueryWith(f, env, Q) =
                ReadingOf(\A n \in Values(f.ty) : Guarded("forall", Q[f.body][At(f, env, n)]), TRUE)
         /\ f.k = "exists" =>
              QueryWith(f, env, Q) =
                ReadingOf(\E n \in Values(f.ty) : Guarded("exists", Q[f.body][At(f, env, n)]), TRUE)
         /\ f.k = "let" =>
              QueryWith(f, env, Q) =
                ReadingOf(Q[f.body][At(f, env, mask(TermZ3(f.value, env).v, f.ty))].v,
                          TermZ3(f.value, env).ok /\ Q[f.body][At(f, env, mask(TermZ3(f.value, env).v, f.ty))].ok)
<1>1. CASE f.k \in {"true", "false"} BY <1>1 DEF QueryWith, ReadingOf, Connectives
<1>2. CASE f.k = "cmp" BY <1>2 DEF QueryWith, ReadingOf, Connectives
<1>3. CASE f.k = "not" BY <1>3 DEF QueryWith, ReadingOf, Connectives
<1>4. CASE f.k \in Connectives BY <1>4 DEF QueryWith, ReadingOf, Connectives
<1>5. CASE f.k = "forall" BY <1>5 DEF QueryWith, ReadingOf, Connectives, At
<1>6. CASE f.k = "exists" BY <1>6 DEF QueryWith, ReadingOf, Connectives, At
<1>7. CASE f.k = "let" BY <1>7 DEF QueryWith, ReadingOf, Connectives, At
<1> QED BY <1>1, <1>2, <1>3, <1>4, <1>5, <1>6, <1>7

(* The terms of a formula, as TermsAgree has them.                         *)
LEMMA CmpTerms ==
  ASSUME NEW f \in Formulas, f.k = "cmp", NEW env \in Envs
  PROVE  /\ TermZ3(f.lhs, env).v \in Values(f.lhs.ty) /\ TermZ3(f.rhs, env).v \in Values(f.lhs.ty)
         /\ TermZ3(f.lhs, env).ok \in BOOLEAN /\ TermZ3(f.rhs, env).ok \in BOOLEAN
         /\ CmpHolds(f.op, TermZ3(f.lhs, env).v, TermZ3(f.rhs, env).v, f.lhs.ty) \in BOOLEAN
<1>1. f.lhs \in Terms /\ f.rhs \in Terms /\ f.op \in CmpOps /\ f.lhs.ty = f.rhs.ty /\ f.lhs.ty \in Nat
  BY PartsOfCmp
<1>2. /\ TermZ3(f.lhs, env).v \in Values(f.lhs.ty) /\ TermZ3(f.rhs, env).v \in Values(f.lhs.ty)
      /\ TermZ3(f.lhs, env).ok \in BOOLEAN /\ TermZ3(f.rhs, env).ok \in BOOLEAN
  BY <1>1, TermsAgree
<1> QED BY <1>1, <1>2, CmpFacts

(* The value a let binds makes an environment.                             *)
LEMMA LetTerm ==
  ASSUME NEW f \in Formulas, f.k = "let", NEW env \in Envs
  PROVE  /\ TermZ3(f.value, env).ok \in BOOLEAN
         /\ At(f, env, mask(TermZ3(f.value, env).v, f.ty)) \in Envs
<1>1. f.value \in Terms /\ f.value.ty = f.ty /\ f.ty \in Nat /\ \A n \in Values(f.ty) : At(f, env, n) \in Envs
  BY PartsOfBinder
<1>2. TermZ3(f.value, env).v \in Values(f.ty) /\ TermZ3(f.value, env).ok \in BOOLEAN
  BY <1>1, TermsAgree
<1>3. mask(TermZ3(f.value, env).v, f.ty) \in Values(f.ty)
  BY <1>1, <1>2, MaskFacts
<1> QED BY <1>1, <1>2, <1>3

(* _formula_to_z3 of one node, given readings of its parts.                *)
LEMMA QueryTyped ==
  ASSUME NEW f \in Formulas, NEW env \in Envs, NEW Q,
         \A g \in FormulasIn(f) : \A e \in Envs : Q[g][e] \in Reading
  PROVE  QueryWith(f, env, Q) \in Reading
<1>0. f.k \in FormulaKinds /\ \A q \in Reading : q.v \in BOOLEAN /\ q.ok \in BOOLEAN
  BY FormulaParts DEF Reading
<1>r. \A v, ok : v \in BOOLEAN /\ ok \in BOOLEAN => ReadingOf(v, ok) \in Reading
  BY ReadingFacts
<1>1. CASE f.k \in {"true", "false"}
  <2>1. QueryWith(f, env, Q) = [v |-> f.k = "true", ok |-> TRUE]
    BY <1>1 DEF QueryWith, Connectives
  <2>2. [v |-> f.k = "true", ok |-> TRUE] \in Reading
    BY DEF Reading
  <2> QED BY <2>1, <2>2
<1>2. CASE f.k = "cmp"
  <2>1. QueryWith(f, env, Q) =
          ReadingOf(CmpHolds(f.op, TermZ3(f.lhs, env).v, TermZ3(f.rhs, env).v, f.lhs.ty),
                    TermZ3(f.lhs, env).ok /\ TermZ3(f.rhs, env).ok)
    BY <1>2, QueryCases, Zenon
  <2>2. (TermZ3(f.lhs, env).ok /\ TermZ3(f.rhs, env).ok) \in BOOLEAN
    OBVIOUS
  <2> QED BY <1>2, <2>1, <2>2, <1>r, CmpTerms, Zenon
<1>3. CASE f.k = "not"
  <2>1. Q[f.arg][env].ok \in BOOLEAN
    BY <1>0, <1>3, PartsOfJoin
  <2>2. (~Q[f.arg][env].v) \in BOOLEAN
    OBVIOUS
  <2>3. QueryWith(f, env, Q) = ReadingOf(~Q[f.arg][env].v, Q[f.arg][env].ok)
    BY <1>3, QueryCases, Zenon
  <2> QED BY <2>1, <2>2, <2>3, <1>r, Zenon
<1>4. CASE f.k \in Connectives
  <2>1. Joined(f.k, Q[f.lhs][env].v, Q[f.rhs][env].v) \in BOOLEAN
    BY <1>4 DEF Joined, Connectives
  <2>2. (Q[f.lhs][env].ok /\ Q[f.rhs][env].ok) \in BOOLEAN
    OBVIOUS
  <2>3. QueryWith(f, env, Q) = ReadingOf(Joined(f.k, Q[f.lhs][env].v, Q[f.rhs][env].v),
                                         Q[f.lhs][env].ok /\ Q[f.rhs][env].ok)
    BY <1>4, QueryCases, Zenon
  <2> QED BY <2>1, <2>2, <2>3, <1>r, Zenon
<1>5. CASE f.k \in Quantifiers
  <2> DEFINE all  == \A n \in Values(f.ty) : Guarded("forall", Q[f.body][At(f, env, n)])
             some == \E n \in Values(f.ty) : Guarded("exists", Q[f.body][At(f, env, n)])
  <2>1. all \in BOOLEAN /\ some \in BOOLEAN /\ TRUE \in BOOLEAN
    OBVIOUS
  <2>2. QueryWith(f, env, Q) = ReadingOf(all, TRUE) \/ QueryWith(f, env, Q) = ReadingOf(some, TRUE)
    <3>1. f.k = "forall" \/ f.k = "exists" BY <1>5 DEF Quantifiers
    <3> QED BY <3>1, QueryCases, Zenon
  <2> HIDE DEF all, some
  <2> QED BY <2>1, <2>2, <1>r, Zenon
<1>6. CASE f.k = "let"
  <2> DEFINE b == Q[f.body][At(f, env, mask(TermZ3(f.value, env).v, f.ty))]
  <2>1. b.v \in BOOLEAN /\ b.ok \in BOOLEAN
    BY <1>0, <1>6, PartsOfBinder, LetTerm
  <2>2. QueryWith(f, env, Q) = ReadingOf(b.v, TermZ3(f.value, env).ok /\ b.ok)
    BY <1>6, QueryCases, Zenon
  <2>3. (TermZ3(f.value, env).ok /\ b.ok) \in BOOLEAN
    OBVIOUS
  <2> HIDE DEF b
  <2> QED BY <2>1, <2>2, <2>3, <1>r, Zenon
<1> QED BY <1>0, <1>1, <1>2, <1>3, <1>4, <1>5, <1>6 DEF FormulaKinds

(* The reading of a formula depends on those of its parts only.            *)
LEMMA QueryLocal ==
  ASSUME NEW f \in Formulas, NEW env, NEW U, NEW V, \A g \in FormulasIn(f) : U[g] = V[g]
  PROVE  QueryWith(f, env, U) = QueryWith(f, env, V)
<1>0. f.k \in FormulaKinds
  BY FormulaParts
<1>1. CASE f.k \in {"true", "false", "cmp"}
  BY <1>1 DEF QueryWith, Connectives
<1>2. CASE f.k \in Connectives
  <2>1. U[f.lhs] = V[f.lhs] /\ U[f.rhs] = V[f.rhs]
    BY <1>2, PartsOfJoin
  <2> QED BY <1>2, <2>1 DEF QueryWith, Connectives
<1>3. CASE f.k = "not"
  <2>1. U[f.arg] = V[f.arg]
    BY <1>3, PartsOfJoin
  <2> QED BY <1>3, <2>1 DEF QueryWith, Connectives
<1>4. CASE f.k \in Quantifiers \cup {"let"}
  <2>1. U[f.body] = V[f.body]
    BY <1>4, PartsOfBinder
  <2> QED BY <1>4, <2>1 DEF QueryWith, Connectives, Quantifiers
<1> QED BY <1>0, <1>1, <1>2, <1>3, <1>4 DEF FormulaKinds

MeansQuery(Q) ==
  \A f \in Formulas : \A e \in Envs :
    Q[f][e] = FormulaZ3(f, e) /\ Q[f][e] = QueryWith(f, e, Q) /\ Q[f][e] \in Reading

(* There is a table of the readings of all formulas.                       *)
LEMMA QueryMeans == \E Q : MeansQuery(Q)
<1> DEFINE D == Formulas \X Envs \X [Formulas -> [Envs -> Reading]]
           F == [p \in D |-> QueryWith(p[1], p[2], p[3])]
           IsTable(V) == V = [g \in Formulas |-> [e \in Envs |-> QueryWith(g, e, V)]]
           T == CHOOSE V : IsTable(V)
<1>a. \A f, e : FormulaZ3(f, e) = T[f][e]
  BY DEF FormulaZ3, Queries
<1> HIDE DEF T
<1>1. \A f \in Formulas : \A e \in Envs : \A V \in [Formulas -> [Envs -> Reading]] :
        F[<<f, e, V>>] = QueryWith(f, e, V)
  OBVIOUS
<1>2. \A f \in Formulas : \A e \in Envs : \A V \in [Formulas -> [Envs -> Reading]] : QueryWith(f, e, V) \in Reading
  <2> SUFFICES ASSUME NEW f \in Formulas, NEW e \in Envs, NEW V \in [Formulas -> [Envs -> Reading]]
               PROVE  QueryWith(f, e, V) \in Reading
    OBVIOUS
  <2>1. \A g \in FormulasIn(f) : \A d \in Envs : V[g][d] \in Reading
    BY FormulaParts
  <2> QED BY <2>1, QueryTyped
<1>3. F \in [D -> Reading]
  <2>1. \A p \in D : QueryWith(p[1], p[2], p[3]) \in Reading
    BY <1>2
  <2> HIDE DEF D
  <2> QED BY <2>1
<1>4. \A f \in Formulas : \A e \in Envs : \A U, V \in [Formulas -> [Envs -> Reading]] :
        (\A g \in FormulasIn(f) : U[g] = V[g]) => F[<<f, e, U>>] = F[<<f, e, V>>]
  <2> HIDE DEF F
  <2> QED BY <1>1, QueryLocal
<1> HIDE DEF F
<1>5. Reading # {}
  BY ReadingFacts
<1>w. FormulaWise(Reading, F)
  BY <1>3, <1>4 DEF FormulaWise
<1>p. PICK H : FormulaTable(H, Reading, F)
  BY <1>w, <1>5, FormulaRecursion
<1>6. H \in [Formulas -> [Envs -> Reading]] /\ \A f \in Formulas : \A e \in Envs : H[f][e] = F[<<f, e, H>>]
  BY <1>p DEF FormulaTable
<1>7. \A f \in Formulas : \A e \in Envs : H[f][e] = QueryWith(f, e, H)
  BY <1>1, <1>6, Zenon
<1>8. IsTable(H)
  <2>1. \A f \in Formulas : H[f] = [e \in Envs |-> H[f][e]]
    BY <1>6
  <2>2. \A f \in Formulas : H[f] = [e \in Envs |-> QueryWith(f, e, H)]
    BY <1>7, <2>1
  <2>3. H = [f \in Formulas |-> H[f]]
    BY <1>6
  <2> QED BY <2>2, <2>3
<1>9. IsTable(T)
  BY <1>8 DEF T
<1>10. \A f \in Formulas : \A e \in Envs : T[f][e] = QueryWith(f, e, T)
  BY <1>9
<1> DEFINE S == {f \in Formulas : \A e \in Envs : T[f][e] \in Reading}
<1>11. Formulas \subseteq S
  <2>1. \A f \in Formulas : (\A g \in Formulas : FormulaRank[g] < FormulaRank[f] => g \in S) => f \in S
    <3> SUFFICES ASSUME NEW f \in Formulas, \A g \in Formulas : FormulaRank[g] < FormulaRank[f] => g \in S,
                        NEW e \in Envs
                 PROVE  T[f][e] \in Reading
      OBVIOUS
    <3>1. \A g \in FormulasIn(f) : \A d \in Envs : T[g][d] \in Reading
      BY FormulaParts
    <3> QED BY <1>10, <3>1, QueryTyped
  <2> HIDE DEF S
  <2> QED BY <2>1, FormulaParts, RankInduction
<1>12. MeansQuery(T)
  BY <1>10, <1>11, <1>a DEF MeansQuery
<1> QED BY <1>12

-----------------------------------------------------------------------------
(* Where quantifiers are settled by defined operations.                    *)
SettledAt(f, env, h, n) ==
  /\ h[At(f, env, n)]
  /\ EvalFormula(f.body, At(f, env, n)) = Settling(f.k) => FormulaZ3(f.body, At(f, env, n)).ok

(* What it takes for each kind of formula.                                 *)
LEMMA SettledCases ==
  ASSUME NEW f, NEW env, NEW S
  PROVE  /\ f.k \in {"true", "false", "cmp"} => SettledWith(f, env, S) = TRUE
         /\ f.k = "not" => SettledWith(f, env, S) = S[f.arg][env]
         /\ f.k \in Connectives => SettledWith(f, env, S) = (S[f.lhs][env] /\ S[f.rhs][env])
         /\ f.k \in Quantifiers => SettledWith(f, env, S) = \A n \in Values(f.ty) : SettledAt(f, env, S[f.body], n)
         /\ f.k = "let" => SettledWith(f, env, S) = S[f.body][At(f, env, mask(TermZ3(f.value, env).v, f.ty))]
<1>1. CASE f.k \in {"true", "false", "cmp"} BY <1>1 DEF SettledWith, Connectives, Quantifiers
<1>2. CASE f.k = "not" BY <1>2 DEF SettledWith, Connectives, Quantifiers
<1>3. CASE f.k \in Connectives BY <1>3 DEF SettledWith, Connectives, Quantifiers
<1>4. CASE f.k \in Quantifiers BY <1>4 DEF SettledWith, Connectives, Quantifiers, SettledAt, At
<1>5. CASE f.k = "let" BY <1>5 DEF SettledWith, Connectives, Quantifiers, At
<1> QED BY <1>1, <1>2, <1>3, <1>4, <1>5

(* That is true or false.                                                  *)
LEMMA SettledTyped ==
  ASSUME NEW f \in Formulas, NEW env \in Envs, NEW S,
         \A g \in FormulasIn(f) : \A e \in Envs : S[g][e] \in BOOLEAN
  PROVE  SettledWith(f, env, S) \in BOOLEAN
<1>0. f.k \in FormulaKinds
  BY FormulaParts
<1>1. CASE f.k \in {"true", "false", "cmp"}
  BY <1>1, SettledCases
<1>2. CASE f.k = "not"
  BY <1>2, PartsOfJoin, SettledCases
<1>3. CASE f.k \in Connectives
  <2>1. (S[f.lhs][env] /\ S[f.rhs][env]) \in BOOLEAN
    OBVIOUS
  <2> QED BY <1>3, <2>1, SettledCases, Zenon
<1>4. CASE f.k \in Quantifiers
  <2> DEFINE all == \A n \in Values(f.ty) : SettledAt(f, env, S[f.body], n)
  <2>1. all \in BOOLEAN
    OBVIOUS
  <2>2. SettledWith(f, env, S) = all
    BY <1>4, SettledCases, Zenon
  <2> QED BY <2>1, <2>2, Zenon
<1>5. CASE f.k = "let"
  <2>1. S[f.body][At(f, env, mask(TermZ3(f.value, env).v, f.ty))] \in BOOLEAN
    BY <1>5, PartsOfBinder, LetTerm
  <2>2. SettledWith(f, env, S) = S[f.body][At(f, env, mask(TermZ3(f.value, env).v, f.ty))]
    BY <1>5, SettledCases, Zenon
  <2> QED BY <2>1, <2>2, Zenon
<1> QED BY <1>0, <1>1, <1>2, <1>3, <1>4, <1>5 DEF FormulaKinds

(* It depends on the parts only.                                           *)
LEMMA SettledLocal ==
  ASSUME NEW f \in Formulas, NEW env, NEW U, NEW V, \A g \in FormulasIn(f) : U[g] = V[g]
  PROVE  SettledWith(f, env, U) = SettledWith(f, env, V)
<1>0. f.k \in FormulaKinds
  BY FormulaParts
<1>1. CASE f.k \in {"true", "false", "cmp"}
  BY <1>1 DEF SettledWith, Connectives, Quantifiers
<1>2. CASE f.k \in Connectives
  <2>1. U[f.lhs] = V[f.lhs] /\ U[f.rhs] = V[f.rhs]
    BY <1>2, PartsOfJoin
  <2> QED BY <1>2, <2>1 DEF SettledWith, Connectives, Quantifiers
<1>3. CASE f.k = "not"
  <2>1. U[f.arg] = V[f.arg]
    BY <1>3, PartsOfJoin
  <2> QED BY <1>3, <2>1 DEF SettledWith, Connectives, Quantifiers
<1>4. CASE f.k \in Quantifiers \cup {"let"}
  <2>1. U[f.body] = V[f.body]
    BY <1>4, PartsOfBinder
  <2> QED BY <1>4, <2>1 DEF SettledWith, Connectives, Quantifiers
<1> QED BY <1>0, <1>1, <1>2, <1>3, <1>4 DEF FormulaKinds

MeansSettled(S) ==
  \A f \in Formulas : \A e \in Envs :
    S[f][e] = SettledWhereDefined(f, e) /\ S[f][e] = SettledWith(f, e, S) /\ S[f][e] \in BOOLEAN

(* There is a table of it for all formulas.                                *)
LEMMA SettledMeans == \E S : MeansSettled(S)
<1> DEFINE D == Formulas \X Envs \X [Formulas -> [Envs -> BOOLEAN]]
           F == [p \in D |-> SettledWith(p[1], p[2], p[3])]
           IsTable(V) == V = [g \in Formulas |-> [e \in Envs |-> SettledWith(g, e, V)]]
           T == CHOOSE V : IsTable(V)
<1>a. \A f, e : SettledWhereDefined(f, e) = T[f][e]
  BY DEF SettledWhereDefined, Settled
<1> HIDE DEF T
<1>1. \A f \in Formulas : \A e \in Envs : \A V \in [Formulas -> [Envs -> BOOLEAN]] :
        F[<<f, e, V>>] = SettledWith(f, e, V)
  OBVIOUS
<1>2. \A f \in Formulas : \A e \in Envs : \A V \in [Formulas -> [Envs -> BOOLEAN]] : SettledWith(f, e, V) \in BOOLEAN
  <2> SUFFICES ASSUME NEW f \in Formulas, NEW e \in Envs, NEW V \in [Formulas -> [Envs -> BOOLEAN]]
               PROVE  SettledWith(f, e, V) \in BOOLEAN
    OBVIOUS
  <2>1. \A g \in FormulasIn(f) : \A d \in Envs : V[g][d] \in BOOLEAN
    BY FormulaParts
  <2> QED BY <2>1, SettledTyped
<1>3. F \in [D -> BOOLEAN]
  <2>1. \A p \in D : SettledWith(p[1], p[2], p[3]) \in BOOLEAN
    BY <1>2
  <2> HIDE DEF D
  <2> QED BY <2>1
<1>4. \A f \in Formulas : \A e \in Envs : \A U, V \in [Formulas -> [Envs -> BOOLEAN]] :
        (\A g \in FormulasIn(f) : U[g] = V[g]) => F[<<f, e, U>>] = F[<<f, e, V>>]
  <2> HIDE DEF F
  <2> QED BY <1>1, SettledLocal
<1> HIDE DEF F
<1>5. BOOLEAN # {}
  OBVIOUS
<1>w. FormulaWise(BOOLEAN, F)
  BY <1>3, <1>4 DEF FormulaWise
<1>p. PICK H : FormulaTable(H, BOOLEAN, F)
  BY <1>w, <1>5, FormulaRecursion
<1>6. H \in [Formulas -> [Envs -> BOOLEAN]] /\ \A f \in Formulas : \A e \in Envs : H[f][e] = F[<<f, e, H>>]
  BY <1>p DEF FormulaTable
<1>7. \A f \in Formulas : \A e \in Envs : H[f][e] = SettledWith(f, e, H)
  BY <1>1, <1>6, Zenon
<1>8. IsTable(H)
  <2>1. \A f \in Formulas : H[f] = [e \in Envs |-> H[f][e]]
    BY <1>6
  <2>2. \A f \in Formulas : H[f] = [e \in Envs |-> SettledWith(f, e, H)]
    BY <1>7, <2>1
  <2>3. H = [f \in Formulas |-> H[f]]
    BY <1>6
  <2> QED BY <2>2, <2>3
<1>9. IsTable(T)
  BY <1>8 DEF T
<1>10. \A f \in Formulas : \A e \in Envs : T[f][e] = SettledWith(f, e, T)
  BY <1>9
<1> DEFINE S == {f \in Formulas : \A e \in Envs : T[f][e] \in BOOLEAN}
<1>11. Formulas \subseteq S
  <2>1. \A f \in Formulas : (\A g \in Formulas : FormulaRank[g] < FormulaRank[f] => g \in S) => f \in S
    <3> SUFFICES ASSUME NEW f \in Formulas, \A g \in Formulas : FormulaRank[g] < FormulaRank[f] => g \in S,
                        NEW e \in Envs
                 PROVE  T[f][e] \in BOOLEAN
      OBVIOUS
    <3>1. \A g \in FormulasIn(f) : \A d \in Envs : T[g][d] \in BOOLEAN
      BY FormulaParts
    <3> QED BY <1>10, <3>1, SettledTyped
  <2> HIDE DEF S
  <2> QED BY <2>1, FormulaParts, RankInduction
<1>12. MeansSettled(T)
  BY <1>10, <1>11, <1>a DEF MeansSettled
<1> QED BY <1>12

-----------------------------------------------------------------------------
(* The fields of a reading.                                                *)
Both(r, v, p, q) == r = [v |-> v, ok |-> p.ok /\ q.ok]
Opposite(r, p)   == r = [v |-> ~p.v, ok |-> p.ok]

(* The reading of a node with two parts,                                   *)
LEMMA BothFields ==
  ASSUME NEW r, NEW v, NEW p, NEW q, Both(r, v, p, q)
  PROVE  r.v = v /\ (r.ok => p.ok /\ q.ok)
BY DEF Both

(* of a negation,                                                          *)
LEMMA OppositeFields ==
  ASSUME NEW r, NEW p, Opposite(r, p)
  PROVE  (r.v <=> ~p.v) /\ r.ok = p.ok
BY DEF Opposite

(* and of a constant.                                                      *)
LEMMA LiteralFields ==
  ASSUME NEW r, NEW k, r = [v |-> k = "true", ok |-> TRUE]
  PROVE  r.v <=> k = "true"
OBVIOUS

(* A formula that the interpreter settles to a truth value has that value  *)
(* in the query, where the conditions collected for the query hold, if no  *)
(* quantifier in it is settled by a body that the conditions exclude       *)
(* (src/spec/interpreter.py:178-215 and src/eval/verify_smt.py:114-161).   *)
THEOREM FormulasAgree ==
  ASSUME NEW env \in Envs, NEW f \in Formulas
  PROVE  /\ EvalFormula(f, env) \in Truths /\ FormulaZ3(f, env) \in Reading
         /\ FormulaZ3(f, env).ok /\ SettledWhereDefined(f, env) /\ EvalFormula(f, env) \notin Raised
              => EvalFormula(f, env) = Truth(FormulaZ3(f, env).v)
<1>1. PICK H : MeansHolds(H) BY HoldsMeans
<1>2. PICK Q : MeansQuery(Q) BY QueryMeans
<1>3. PICK S : MeansSettled(S) BY SettledMeans
<1>h. \A g \in Formulas : \A e \in Envs :
        H[g][e] = EvalFormula(g, e) /\ H[g][e] = HoldsWith(g, e, H) /\ H[g][e] \in Truths
  BY <1>1 DEF MeansHolds
<1>q. \A g \in Formulas : \A e \in Envs :
        /\ Q[g][e] = FormulaZ3(g, e) /\ Q[g][e] = QueryWith(g, e, Q)
        /\ Q[g][e] \in Reading /\ Q[g][e].v \in BOOLEAN /\ Q[g][e].ok \in BOOLEAN
  BY <1>2 DEF MeansQuery, Reading
<1>s. \A g \in Formulas : \A e \in Envs :
        S[g][e] = SettledWhereDefined(g, e) /\ S[g][e] = SettledWith(g, e, S) /\ S[g][e] \in BOOLEAN
  BY <1>3 DEF MeansSettled
<1>b. \A b \in BOOLEAN : (b => Truth(b) = "true") /\ (~b => Truth(b) = "false")
  BY DEF Truth
<1>t. Truth(TRUE) = "true" /\ Truth(FALSE) = "false" /\ \A t \in Truths : t \notin Raised => t \in {"true", "false"}
  BY DEF Truth, Truths, Raised
<1>u. "true" # "false" /\ "true" \notin Raised /\ "false" \notin Raised
  BY DEF Raised
<1> DEFINE BothSay(g, e) == Q[g][e].ok /\ S[g][e] /\ H[g][e] \notin Raised
           Agrees(g, e) == BothSay(g, e) => H[g][e] = Truth(Q[g][e].v)
           C == {g \in Formulas : \A e \in Envs : Agrees(g, e)}
<1>4. ASSUME NEW g \in Formulas, \A p \in FormulasIn(g) : \A d \in Envs : Agrees(p, d), NEW e \in Envs, BothSay(g, e)
      PROVE  H[g][e] = Truth(Q[g][e].v)
  <2>0. /\ g.k \in FormulaKinds
        /\ H[g][e] = HoldsWith(g, e, H) /\ Q[g][e] = QueryWith(g, e, Q) /\ S[g][e] = SettledWith(g, e, S)
        /\ \A p \in FormulasIn(g) : p \in Formulas
    BY <1>h, <1>q, <1>s, FormulaParts
  <2>1. CASE g.k \in {"true", "false"}
    <3>1. H[g][e] = g.k BY <2>0, <2>1, HoldsCases
    <3>a. Q[g][e] = [v |-> g.k = "true", ok |-> TRUE]
      BY <2>0, <2>1 DEF QueryWith, Connectives
    <3>2. Q[g][e].v <=> g.k = "true"
      BY <3>a, LiteralFields
    <3> QED BY <2>1, <3>1, <3>2, <1>b, <1>q, <1>u
  <2>2. CASE g.k = "cmp"
    <3> DEFINE l == TermZ3(g.lhs, e)
               r == TermZ3(g.rhs, e)
    <3>0. Both(Q[g][e], CmpHolds(g.op, l.v, r.v, g.lhs.ty), l, r)
      BY <2>0, <2>2 DEF Both, QueryWith, Connectives
    <3> HIDE DEF l, r
    <3>1. Q[g][e].v = CmpHolds(g.op, l.v, r.v, g.lhs.ty) /\ (Q[g][e].ok => l.ok /\ r.ok)
      BY <3>0, BothFields
    <3> USE DEF l, r
    <3>2. g.lhs \in Terms /\ g.rhs \in Terms
      BY <2>2, PartsOfCmp
    <3>3. EvalExpr(g.lhs, e) = l.v /\ EvalExpr(g.rhs, e) = r.v /\ EvalExpr(g.lhs, e) # UB /\ EvalExpr(g.rhs, e) # UB
      BY <1>4, <3>1, <3>2, TermsAgree
    <3>4. H[g][e] = Truth(CmpHolds(g.op, l.v, r.v, g.lhs.ty))
      BY <2>0, <2>2, <3>3, HoldsCases
    <3> QED BY <3>1, <3>4
  <2>3. CASE g.k = "not"
    <3>1. g.arg \in FormulasIn(g) BY <2>3, PartsOfJoin
    <3>2. H[g][e] = IF H[g.arg][e] \in Raised THEN H[g.arg][e] ELSE Truth(H[g.arg][e] = "false")
      BY <2>0, <2>3, HoldsCases
    <3>a. Opposite(Q[g][e], Q[g.arg][e])
      BY <2>0, <2>3 DEF Opposite, QueryWith, Connectives
    <3>b. S[g][e] = S[g.arg][e]
      BY <2>0, <2>3 DEF SettledWith, Connectives, Quantifiers
    <3>3. (Q[g][e].v <=> ~Q[g.arg][e].v) /\ Q[g][e].ok = Q[g.arg][e].ok /\ S[g][e] = S[g.arg][e]
      BY <3>a, <3>b, OppositeFields
    <3>4. H[g.arg][e] = Truth(Q[g.arg][e].v)
      BY <1>4, <3>1, <3>2, <3>3
    <3>5. Q[g][e].v \in BOOLEAN /\ Q[g.arg][e].v \in BOOLEAN
      BY <1>q, <2>0, <3>1
    <3>6. H[g][e] = Truth(H[g.arg][e] = "false")
      BY <1>4, <3>2
    <3>7. H[g][e] = IF H[g.arg][e] = "false" THEN "true" ELSE "false"
      BY <3>6 DEF Truth
    <3> QED BY <3>3, <3>4, <3>5, <3>7, <1>b, <1>u
  <2>4. CASE g.k \in Connectives
    <3>1. {g.lhs, g.rhs} \subseteq FormulasIn(g) BY <2>4, PartsOfJoin
    <3> DEFINE a == Q[g.lhs][e].v
               b == Q[g.rhs][e].v
    <3>a. Both(Q[g][e], Joined(g.k, a, b), Q[g.lhs][e], Q[g.rhs][e])
      BY <2>0, <2>4 DEF Both, QueryWith, Connectives
    <3>2. Q[g][e].v = Joined(g.k, a, b) /\ (Q[g][e].ok => Q[g.lhs][e].ok /\ Q[g.rhs][e].ok)
      BY <3>a, BothFields
    <3>3. S[g][e] = (S[g.lhs][e] /\ S[g.rhs][e])
      BY <2>0, <2>4 DEF SettledWith, Connectives, Quantifiers
    <3>4. /\ H[g.lhs][e] \notin Raised => H[g.lhs][e] = Truth(a)
          /\ H[g.rhs][e] \notin Raised => H[g.rhs][e] = Truth(b)
      BY <1>4, <3>1, <3>2, <3>3
    <3>5. a \in BOOLEAN /\ b \in BOOLEAN /\ H[g.lhs][e] \in Truths /\ H[g.rhs][e] \in Truths
      BY <1>h, <1>q, <2>0, <3>1
    <3> HIDE DEF a, b
    <3>6. CASE g.k = "and"
      <4>1. H[g][e] = IF H[g.lhs][e] = "true" THEN H[g.rhs][e] ELSE H[g.lhs][e]
        BY <2>0, <3>6, HoldsCases
      <4> QED BY <1>4, <3>2, <3>4, <3>5, <3>6, <4>1, <1>t, <1>u DEF Joined
    <3>7. CASE g.k = "or"
      <4>1. H[g][e] = IF H[g.lhs][e] = "false" THEN H[g.rhs][e] ELSE H[g.lhs][e]
        BY <2>0, <3>7, HoldsCases
      <4> QED BY <1>4, <3>2, <3>4, <3>5, <3>7, <4>1, <1>t, <1>u DEF Joined
    <3>8. CASE g.k = "implies"
      <4>1. H[g][e] = IF H[g.lhs][e] = "true" THEN H[g.rhs][e]
                      ELSE IF H[g.lhs][e] = "false" THEN "true" ELSE H[g.lhs][e]
        BY <2>0, <3>8, HoldsCases
      <4> QED BY <1>4, <3>2, <3>4, <3>5, <3>8, <4>1, <1>t, <1>u DEF Joined
    <3>9. CASE g.k = "iff"
      <4>1. H[g][e] = IF H[g.lhs][e] \in Raised THEN H[g.lhs][e]
                      ELSE IF H[g.rhs][e] \in Raised THEN H[g.rhs][e]
                      ELSE Truth(H[g.lhs][e] = H[g.rhs][e])
        BY <2>0, <3>9, HoldsCases
      <4> QED BY <1>4, <3>2, <3>4, <3>5, <3>9, <4>1, <1>t, <1>u DEF Joined
    <3> QED BY <2>4, <3>6, <3>7, <3>8, <3>9 DEF Connectives
  <2>5. CASE g.k \in Quantifiers
    <3> DEFINE at(n) == At(g, e, n)
               F == Stops(g, e, H[g.body], GoesOn(g.k))
    <3>1. g.body \in FormulasIn(g) /\ g.body \in Formulas /\ \A n \in Values(g.ty) : at(n) \in Envs
      BY <2>5, PartsOfBinder
    <3>2. F \in SUBSET Values(g.ty) /\ Values(g.ty) \subseteq Nat
      BY <2>5, PartsOfBinder, MaskFacts DEF Stops
    <3>3. \A n \in Values(g.ty) : n \in F <=> H[g.body][at(n)] # GoesOn(g.k)
      BY DEF Stops
    <3>4. \/ F = {} /\ H[g][e] = GoesOn(g.k)
          \/ F # {} /\ H[g][e] = H[g.body][at(First(F))]
      <4>1. H[g][e] # "smt" BY <1>4 DEF Raised
      <4> QED BY <2>0, <2>5, <4>1, HoldsCases
    <3>5. \A n \in Values(g.ty) : SettledAt(g, e, S[g.body], n)
      BY <1>4, <2>0, <2>5 DEF SettledWith, Connectives, Quantifiers, SettledAt, At
    <3>6. \A n \in Values(g.ty) : /\ S[g.body][at(n)]
                                  /\ H[g.body][at(n)] = Settling(g.k) => Q[g.body][at(n)].ok
      BY <1>h, <1>q, <3>1, <3>5 DEF SettledAt
    <3>7. \A n \in Values(g.ty) : Agrees(g.body, at(n))
      BY <1>4, <3>1
    <3>8. \A n \in Values(g.ty) : Q[g.body][at(n)].v \in BOOLEAN /\ Q[g.body][at(n)].ok \in BOOLEAN
                                  /\ H[g.body][at(n)] \in Truths
      BY <1>h, <1>q, <3>1
    <3>9. F # {} => First(F) \in F
      BY <3>2, FirstIsIn
    <3> HIDE DEF F, at
    <3>10. CASE g.k = "forall"
      <4>0. Q[g][e] = [v |-> \A n \in Values(g.ty) : Guarded("forall", Q[g.body][at(n)]), ok |-> TRUE]
        BY <2>0, <3>10 DEF QueryWith, Connectives, at, At
      <4>1. Q[g][e].v <=> \A n \in Values(g.ty) : (Q[g.body][at(n)].ok => Q[g.body][at(n)].v)
        BY <4>0 DEF Guarded
      <4>2. GoesOn(g.k) = "true" /\ Settling(g.k) = "false"
        BY <3>10 DEF GoesOn, Settling
      <4>3. CASE F = {}
        <5>1. \A n \in Values(g.ty) : H[g.body][at(n)] = "true"
          BY <3>3, <4>2, <4>3
        <5>2. \A n \in Values(g.ty) : Q[g.body][at(n)].ok => Q[g.body][at(n)].v
          BY <3>6, <3>7, <3>8, <5>1, <1>b, <1>t, <1>u
        <5>3. Q[g][e].v BY <4>1, <5>2
        <5> QED BY <3>4, <4>2, <4>3, <5>3, <1>b, <1>q
      <4>4. CASE F # {}
        <5> DEFINE m == First(F)
        <5>1. m \in Values(g.ty) /\ H[g][e] = H[g.body][at(m)] /\ H[g.body][at(m)] # "true"
          BY <3>2, <3>3, <3>4, <3>9, <4>2, <4>4
        <5> HIDE DEF m
        <5>2. H[g.body][at(m)] = "false"
          BY <1>4, <3>8, <5>1, <1>t
        <5>3. Q[g.body][at(m)].ok /\ ~Q[g.body][at(m)].v
          BY <3>6, <3>7, <3>8, <4>2, <5>1, <5>2, <1>b, <1>t, <1>u
        <5>4. ~Q[g][e].v BY <4>1, <5>1, <5>3
        <5> QED BY <5>1, <5>2, <5>4, <1>b, <1>q
      <4> QED BY <4>3, <4>4
    <3>11. CASE g.k = "exists"
      <4>0. Q[g][e] = [v |-> \E n \in Values(g.ty) : Guarded("exists", Q[g.body][at(n)]), ok |-> TRUE]
        BY <2>0, <3>11 DEF QueryWith, Connectives, at, At
      <4>1. Q[g][e].v <=> \E n \in Values(g.ty) : (Q[g.body][at(n)].ok /\ Q[g.body][at(n)].v)
        BY <4>0 DEF Guarded
      <4>2. GoesOn(g.k) = "false" /\ Settling(g.k) = "true"
        BY <3>11 DEF GoesOn, Settling
      <4>3. CASE F = {}
        <5>1. \A n \in Values(g.ty) : H[g.body][at(n)] = "false"
          BY <3>3, <4>2, <4>3
        <5>2. \A n \in Values(g.ty) : Q[g.body][at(n)].ok => ~Q[g.body][at(n)].v
          BY <3>6, <3>7, <3>8, <5>1, <1>b, <1>t, <1>u
        <5>3. ~Q[g][e].v BY <4>1, <5>2
        <5> QED BY <3>4, <4>2, <4>3, <5>3, <1>b, <1>q
      <4>4. CASE F # {}
        <5> DEFINE m == First(F)
        <5>1. m \in Values(g.ty) /\ H[g][e] = H[g.body][at(m)] /\ H[g.body][at(m)] # "false"
          BY <3>2, <3>3, <3>4, <3>9, <4>2, <4>4
        <5> HIDE DEF m
        <5>2. H[g.body][at(m)] = "true"
          BY <1>4, <3>8, <5>1, <1>t
        <5>3. Q[g.body][at(m)].ok /\ Q[g.body][at(m)].v
          BY <3>6, <3>7, <3>8, <4>2, <5>1, <5>2, <1>b, <1>t, <1>u
        <5>4. Q[g][e].v BY <4>1, <5>1, <5>3
        <5> QED BY <5>1, <5>2, <5>4, <1>b, <1>q
      <4> QED BY <4>3, <4>4
    <3> QED BY <2>5, <3>10, <3>11 DEF Quantifiers
  <2>6. CASE g.k = "let"
    <3> DEFINE v == TermZ3(g.value, e).v
               d == At(g, e, mask(v, g.ty))
    <3>1. g.body \in FormulasIn(g) /\ g.value \in Terms
      BY <2>6, PartsOfBinder
    <3>a. Both(Q[g][e], Q[g.body][d].v, TermZ3(g.value, e), Q[g.body][d])
      BY <2>0, <2>6 DEF Both, QueryWith, Connectives, At
    <3>b. S[g][e] = S[g.body][d]
      BY <2>0, <2>6 DEF SettledWith, Connectives, Quantifiers, At
    <3>2. /\ Q[g][e].v = Q[g.body][d].v /\ (Q[g][e].ok => TermZ3(g.value, e).ok /\ Q[g.body][d].ok)
          /\ S[g][e] = S[g.body][d]
      BY <3>a, <3>b, BothFields
    <3>3. EvalExpr(g.value, e) = v /\ EvalExpr(g.value, e) # UB
      BY <1>4, <3>1, <3>2, TermsAgree
    <3>4. H[g][e] = H[g.body][d]
      BY <2>0, <2>6, <3>3, HoldsCases
    <3>5. d \in Envs
      BY <2>6, LetTerm
    <3> HIDE DEF d
    <3> QED BY <1>4, <3>1, <3>2, <3>4, <3>5
  <2> QED BY <2>0, <2>1, <2>2, <2>3, <2>4, <2>5, <2>6 DEF FormulaKinds
<1>5. Formulas \subseteq C
  <2>1. \A g \in Formulas : (\A p \in Formulas : FormulaRank[p] < FormulaRank[g] => p \in C) => g \in C
    <3> SUFFICES ASSUME NEW g \in Formulas, \A p \in Formulas : FormulaRank[p] < FormulaRank[g] => p \in C
                 PROVE  g \in C
      OBVIOUS
    <3>1. \A p \in FormulasIn(g) : \A d \in Envs : Agrees(p, d)
      BY FormulaParts
    <3> QED BY <1>4, <3>1
  <2> HIDE DEF C
  <2> QED BY <2>1, FormulaParts, RankInduction
<1>6. Agrees(f, env)
  BY <1>5
<1> QED BY <1>6, <1>h, <1>q, <1>s

-----------------------------------------------------------------------------
(* Specs: the environments in which the judges evaluate them.              *)
LEMMA SpecParts ==
  ASSUME NEW s \in Specs
  PROVE  /\ SpecOf(s).pre \in Formulas /\ SpecOf(s).post \in Formulas
         /\ \A i \in DOMAIN Params(s) : Params(s)[i].name \in Names /\ Params(s)[i].ty = Width(Params(s)[i].name)
         /\ SpecOf(s).output.name \in Names /\ SpecOf(s).output.ty = Width(SpecOf(s).output.name)
<1> DEFINE P == Range(Params(s)) \cup {SpecOf(s).output}
<1>1. \A p \in P : p.name \in Names /\ p.ty = Width(p.name)
  BY VerdictsAssumption
<1>2. \A i \in DOMAIN Params(s) : Params(s)[i] \in P
  BY DEF Range
<1>3. SpecOf(s).output \in P
  OBVIOUS
<1>4. SpecOf(s).pre \in Formulas /\ SpecOf(s).post \in Formulas
  BY VerdictsAssumption
<1> HIDE DEF P
<1> QED BY <1>1, <1>2, <1>3, <1>4

(* The inputs give every parameter a value of its type.                    *)
LEMMA EnvTyped ==
  ASSUME NEW s \in Specs, NEW t \in Inputs(s)
  PROVE  /\ Env(s, t) \in Envs
         /\ \A o \in OutputsOf(s) : OutEnv(s, t, o) \in Envs
<1>w. \A n \in Names : Width(n) \in Nat \ {0}
  BY SemanticsAssumption
<1>v. \A n \in Names : Values(Width(n)) \subseteq Nat /\ 0 \in Values(Width(n))
  BY <1>w, MaskFacts
<1>1. ASSUME NEW n \in Names PROVE Env(s, t)[n] \in Values(Width(n))
  <2>1. Env(s, t)[n] = IF IsParam(s, n) THEN t[ParamOf(s, n)] ELSE 0
    BY DEF Env
  <2>2. CASE IsParam(s, n)
    <3> DEFINE i == ParamOf(s, n)
    <3>1. i \in DOMAIN Params(s) /\ Params(s)[i].name = n
      BY <2>2 DEF IsParam, ParamOf
    <3>2. t[i] \in Values(Params(s)[i].ty)
      BY <3>1 DEF Inputs
    <3> HIDE DEF i
    <3>3. t[i] \in Values(Width(n))
      BY <3>1, <3>2, SpecParts
    <3> QED BY <2>1, <2>2, <3>3 DEF i
  <2>3. CASE ~IsParam(s, n)
    BY <1>v, <2>1, <2>3
  <2> QED BY <2>2, <2>3
<1>2. DOMAIN Env(s, t) = Names /\ Env(s, t) = [n \in Names |-> Env(s, t)[n]]
  BY DEF Env
<1>3. Env(s, t) \in [Names -> Nat]
  BY <1>1, <1>2, <1>v
<1>4. Env(s, t) \in Envs
  BY <1>1, <1>3 DEF Envs
<1>5. ASSUME NEW o \in OutputsOf(s) PROVE OutEnv(s, t, o) \in Envs
  <2> DEFINE r == SpecOf(s).output.name
  <2>1. r \in Names /\ o \in Values(Width(r)) /\ o \in Nat
    BY <1>v, SpecParts DEF OutputsOf
  <2>2. OutEnv(s, t, o) = [Env(s, t) EXCEPT ![r] = o]
    BY DEF OutEnv
  <2> HIDE DEF r
  <2>3. OutEnv(s, t, o) \in [Names -> Nat]
    BY <1>3, <2>1, <2>2
  <2>4. \A n \in Names : OutEnv(s, t, o)[n] = IF n = r THEN o ELSE Env(s, t)[n]
    BY <1>3, <2>2
  <2>5. \A n \in Names : OutEnv(s, t, o)[n] \in Values(Width(n))
    BY <1>1, <2>1, <2>4
  <2> QED BY <2>3, <2>5 DEF Envs
<1> QED BY <1>4, <1>5

(* satisfies returns a truth value or raises.                              *)
LEMMA PostTyped ==
  ASSUME NEW s \in Specs, NEW t \in Inputs(s), NEW o \in OutputsOf(s)
  PROVE  Post(s, t, o) \in Truths
BY SpecParts, EnvTyped, FormulasAgree DEF Post

(* Specs with the same types have the same inputs.                         *)
LEMMA InputsByType ==
  ASSUME NEW a \in Specs, NEW b \in Specs, Types(a) = Types(b), NEW t \in Inputs(a)
  PROVE  t \in Inputs(b)
<1>1. DOMAIN Params(a) = DOMAIN Params(b) /\ \A i \in DOMAIN Params(a) : Params(a)[i].ty = Params(b)[i].ty
  <2>1. DOMAIN Types(a) = DOMAIN Params(a) /\ DOMAIN Types(b) = DOMAIN Params(b)
    BY DEF Types
  <2>2. \A i \in DOMAIN Params(a) : Types(a)[i] = Params(a)[i].ty
    BY DEF Types
  <2>3. \A i \in DOMAIN Params(b) : Types(b)[i] = Params(b)[i].ty
    BY DEF Types
  <2> QED BY <2>1, <2>2, <2>3
<1> DEFINE D(s) == DOMAIN Params(s)
           V(s) == UNION {Values(Params(s)[i].ty) : i \in D(s)}
<1>2. t \in [D(a) -> V(a)] /\ \A i \in D(a) : t[i] \in Values(Params(a)[i].ty)
  BY DEF Inputs
<1>3. \A i \in D(b) : t[i] \in Values(Params(b)[i].ty)
  BY <1>1, <1>2
<1>4. \A i \in D(b) : t[i] \in V(b)
  BY <1>3
<1>5. t \in [D(b) -> V(b)]
  <2>1. t = [i \in D(b) |-> t[i]] BY <1>1, <1>2
  <2> HIDE DEF V
  <2> QED BY <1>4, <2>1
<1> QED BY <1>3, <1>5 DEF Inputs

(* The body of a functional spec is a term.                                *)
LEMMA BodyIsTerm ==
  ASSUME NEW s \in Specs, Functional(s)
  PROVE  SpecOf(s).post.rhs \in Terms
BY SpecParts, PartsOfCmp DEF Functional

-----------------------------------------------------------------------------
(* The judges.                                                             *)
Jobs    == {"io", "smt", "diff", "prove"}
Tests   == {"io", "diff"}
Phases  == {"sampling", "linking", "candidate", "reference", "comparing", "done"}
Tuples  == UNION {Inputs(s) : s \in Specs}
Outputs == {Hw(x[1], x[2], x[3], x[4]) : x \in Cands \X Specs \X Tuples \X Others}
Lines   == Outputs \cup Texts
LinesOf(s) == OutputsOf(s) \cup Texts

VType ==
  /\ job \in Jobs /\ spec \in Specs /\ cand \in Cands /\ (job = "diff" => ref \in Cands)
  /\ (job = "prove" => ref \in Specs)
  /\ phase \in Phases /\ samples \in Seq(Inputs(spec)) /\ tried \in Nat /\ attempts \in 0..MaxAttempts
  /\ out \in [cand : Seq(Lines), ref : Seq(Lines)] /\ idx \in Nat /\ tested \in Nat

(* Sampling, with the bound of each of its two loops.                      *)
SampleInv ==
  /\ IsInjective(samples) /\ Len(samples) <= NInputs
  /\ \A i \in 1..Len(samples) : job = "diff" \/ Pre(spec, samples[i]) \in {"true", "smt"}
  /\ phase # "sampling" /\ job \in Tests /\ Len(samples) < NInputs => attempts = MaxAttempts

(* What is known before the comparison of lines, and kept through it.      *)
RunInv ==
  /\ phase # "done" => verdict = Pending
  /\ phase = "sampling" => job \in Tests /\ out = [cand |-> <<>>, ref |-> <<>>]
  /\ phase \in {"linking", "candidate", "reference", "comparing"} /\ job \in Tests => Len(samples) > 0
  /\ phase \in {"candidate", "reference", "comparing"} => job \in Tests
  /\ phase = "reference" => job = "diff"
  /\ phase \notin {"comparing", "done"} => idx = 0 /\ tested = 0
  /\ idx <= Len(samples)
  /\ Len(out.cand) <= Len(samples) /\ Len(out.ref) <= Len(samples)
  /\ \A i \in 1..Len(out.cand) : job = "io" => out.cand[i] \in LinesOf(spec)

(* verify_io has passed the inputs before idx, or skipped them.            *)
IoInv ==
  job = "io" /\ phase = "comparing" =>
    /\ tested = TestedIn(idx)
    /\ \A i \in 1..idx : Decided(i) =>
         i <= Len(out.cand) /\ IsNumber(out.cand[i]) /\ Post(spec, samples[i], out.cand[i]) = "true"

(* differential_test has found the lines before idx equal.                 *)
DiffInv ==
  job = "diff" /\ phase = "comparing" => \A i \in 1..idx : ~LineMissing(i) /\ SameLine(i)

VerdictInv == AcceptCovers /\ IoCexGenuine /\ DiffVerdictRight

(* What is known of an input named in a verdict: of the one verify_io       *)
(* rejects by, its line, and of one that Z3 found, that it solves the query.*)
PostFailedInv ==
  job = "io" /\ verdict.why = "post_failed" =>
    /\ verdict.cex \in Inputs(spec) /\ out.cand[idx + 1] \in OutputsOf(spec)
    /\ Post(spec, verdict.cex, out.cand[idx + 1]) = "false"
SatInv ==
  verdict.why = "sat" =>
    /\ job \in {"smt", "prove"} /\ verdict.cex \in Inputs(spec)
    /\ job = "smt" => Executable(cand, spec) /\ Refutes(verdict.cex)
    /\ job = "prove" => Comparable(spec, ref) /\ Differs(verdict.cex)
CexInv == PostFailedInv /\ SatInv

VInv == VType /\ SampleInv /\ RunInv /\ IoInv /\ DiffInv /\ VerdictInv /\ CexInv

-----------------------------------------------------------------------------
(* The cap on boundary tuples never exceeds the number asked for.          *)
LEMMA CapFacts == BoundaryCap \in Nat /\ BoundaryCap <= NInputs
<1> DEFINE q == NInputs \div 4
<1> DEFINE m == Min({q, 64})
<1>1. NInputs \in Nat /\ NInputs > 0
  BY VerdictsAssumption
<1>2. q \in Nat /\ q <= NInputs
  BY <1>1
<1>3. \A a, b \in Nat : Min({a, b}) \in Nat /\ Min({a, b}) <= a
  <2> SUFFICES ASSUME NEW a \in Nat, NEW b \in Nat
               PROVE  Min({a, b}) \in Nat /\ Min({a, b}) <= a
    OBVIOUS
  <2>1. \E x \in {a, b} : \A y \in {a, b} : x =< y
    <3>1. CASE a <= b BY <3>1
    <3>2. CASE b <= a BY <3>2
    <3> QED BY <3>1, <3>2
  <2>2. Min({a, b}) \in {a, b} /\ \A y \in {a, b} : Min({a, b}) =< y
    BY <2>1 DEF Min
  <2> QED BY <2>2
<1>4. \A a, b \in Nat : Max({a, b}) \in {a, b}
  <2> SUFFICES ASSUME NEW a \in Nat, NEW b \in Nat PROVE Max({a, b}) \in {a, b}
    OBVIOUS
  <2>1. \E x \in {a, b} : \A y \in {a, b} : x >= y
    <3>1. CASE a >= b BY <3>1
    <3>2. CASE b >= a BY <3>2
    <3> QED BY <3>1, <3>2
  <2> QED BY <2>1 DEF Max
<1>5. BoundaryCap = IF job = "io" THEN Max({1, m}) ELSE IF NInputs >= 4 THEN m ELSE NInputs
  BY DEF BoundaryCap
<1> HIDE DEF q
<1>6. m \in Nat /\ m <= NInputs
  BY <1>1, <1>2, <1>3
<1> HIDE DEF m
<1>7. Max({1, m}) \in {1, m}
  BY <1>4, <1>6
<1> QED BY <1>1, <1>5, <1>6, <1>7

(* What appending one element to a sequence leaves and adds.               *)
LEMMA AppendedFacts ==
  ASSUME NEW S, NEW q \in Seq(S), NEW e \in S
  PROVE  /\ Len(Append(q, e)) = Len(q) + 1 /\ Append(q, e)[Len(q) + 1] = e
         /\ \A i \in 1..Len(q) : Append(q, e)[i] = q[i]
         /\ Append(q, e) \in Seq(S) /\ Len(q) \in Nat
OBVIOUS

(* Adding a tuple that is not there yet keeps the samples distinct and     *)
(* admitted.                                                               *)
LEMMA TryAddFacts ==
  ASSUME VType, SampleInv, NEW t \in Inputs(spec), TryAdd(t), UNCHANGED subject, Len(samples) < NInputs
  PROVE  /\ samples' \in Seq(Inputs(spec)) /\ IsInjective(samples') /\ Len(samples') <= NInputs
         /\ \A i \in 1..Len(samples') : job = "diff" \/ Pre(spec, samples'[i]) \in {"true", "smt"}
         /\ Len(samples') >= Len(samples)
<1>0. samples \in Seq(Inputs(spec)) /\ Len(samples) \in Nat /\ NInputs \in Nat
  BY VerdictsAssumption DEF VType
<1>1. CASE samples' = samples
  BY <1>0, <1>1 DEF SampleInv
<1>2. CASE samples' # samples
  <2>1. samples' = Append(samples, t) /\ Admitted(t) /\ t \notin ToSet(samples)
    BY <1>2 DEF TryAdd
  <2>2. /\ Len(samples') = Len(samples) + 1 /\ samples'[Len(samples) + 1] = t
        /\ \A i \in 1..Len(samples) : samples'[i] = samples[i]
        /\ samples' \in Seq(Inputs(spec))
    BY <1>0, <2>1, AppendedFacts
  <2>3. DOMAIN samples = 1..Len(samples) /\ DOMAIN samples' = 1..Len(samples) + 1
    BY <1>0, <2>2, LenProperties
  <2>4. \A i \in 1..Len(samples) : samples[i] # t
    BY <2>1, <2>3 DEF ToSet
  <2>5. ASSUME NEW i \in 1..Len(samples) + 1, NEW j \in 1..Len(samples) + 1, samples'[i] = samples'[j]
        PROVE  i = j
    <3>1. i \in 1..Len(samples) \/ i = Len(samples) + 1 BY <1>0
    <3>2. j \in 1..Len(samples) \/ j = Len(samples) + 1 BY <1>0
    <3>3. CASE i \in 1..Len(samples) /\ j \in 1..Len(samples)
      <4>1. samples[i] = samples[j] BY <2>2, <2>5, <3>3
      <4> QED BY <2>3, <3>3, <4>1 DEF SampleInv, IsInjective
    <3>4. CASE i \in 1..Len(samples) /\ j = Len(samples) + 1
      BY <2>2, <2>4, <2>5, <3>4
    <3>5. CASE i = Len(samples) + 1 /\ j \in 1..Len(samples)
      BY <2>2, <2>4, <2>5, <3>5
    <3> QED BY <3>1, <3>2, <3>3, <3>4, <3>5
  <2>6. IsInjective(samples')
    BY <2>3, <2>5 DEF IsInjective
  <2>7. \A i \in 1..Len(samples) + 1 : job = "diff" \/ Pre(spec, samples'[i]) \in {"true", "smt"}
    <3> SUFFICES ASSUME NEW i \in 1..Len(samples) + 1
                 PROVE  job = "diff" \/ Pre(spec, samples'[i]) \in {"true", "smt"}
      OBVIOUS
    <3>1. CASE i \in 1..Len(samples) BY <2>2, <3>1 DEF SampleInv
    <3>2. CASE i = Len(samples) + 1 BY <2>1, <2>2, <3>2 DEF Admitted
    <3> QED BY <1>0, <3>1, <3>2
  <2> QED BY <1>0, <2>2, <2>6, <2>7
<1> QED BY <1>1, <1>2

(* How many inputs verify_io could decide on, one by one.                  *)
LEMMA TestedFacts ==
  /\ TestedIn(0) = 0
  /\ \A n \in Nat : TestedIn(n) \in Nat /\ TestedIn(n + 1) = IF Decided(n + 1) THEN TestedIn(n) + 1 ELSE TestedIn(n)
<1> DEFINE D(n) == {i \in 1..n : Decided(i)}
<1>1. D(0) = {}
  OBVIOUS
<1>2. ASSUME NEW n \in Nat
      PROVE  TestedIn(n) \in Nat /\ TestedIn(n + 1) = IF Decided(n + 1) THEN TestedIn(n) + 1 ELSE TestedIn(n)
  <2>1. IsFiniteSet(1..n) BY FS_Interval
  <2>2. D(n) \in SUBSET (1..n) BY DEF D
  <2>3. IsFiniteSet(D(n)) BY <2>1, <2>2, FS_Subset
  <2>4. Cardinality(D(n)) \in Nat BY <2>3, FS_CardinalityType
  <2>5. n + 1 \notin D(n) OBVIOUS
  <2>6. CASE Decided(n + 1)
    <3>1. D(n + 1) = D(n) \cup {n + 1} BY <2>6
    <3>2. Cardinality(D(n) \cup {n + 1}) = Cardinality(D(n)) + 1
      <4> HIDE DEF D
      <4> QED BY <2>3, <2>5, FS_AddElement
    <3> QED BY <2>4, <2>6, <3>1, <3>2 DEF TestedIn
  <2>7. CASE ~Decided(n + 1)
    <3>1. D(n + 1) = D(n) BY <2>7
    <3> QED BY <2>4, <2>7, <3>1 DEF TestedIn
  <2> QED BY <2>6, <2>7
<1> QED BY <1>1, <1>2, FS_EmptySet DEF TestedIn
-----------------------------------------------------------------------------
(* What a run prints: at most a line per sample, each the output for it.   *)
IsLines(p) ==
  /\ p \in Seq(Lines) /\ Len(p) <= Len(samples)
  /\ \A i \in 1..Len(p) : p[i] \in LinesOf(spec)

(* A function on an initial segment of the numbers is a sequence.          *)
LEMMA SegmentIsSeq ==
  ASSUME NEW S, NEW n \in Nat, NEW f \in [1..n -> S]
  PROVE  f \in Seq(S) /\ Len(f) = n
OBVIOUS

(* Putting another element into a sequence.                                *)
LEMMA PutFacts ==
  ASSUME NEW S, NEW q \in Seq(S), NEW e \in S, NEW i \in 1..Len(q)
  PROVE  /\ [q EXCEPT ![i] = e] \in Seq(S) /\ Len([q EXCEPT ![i] = e]) = Len(q)
         /\ \A j \in 1..Len(q) : [q EXCEPT ![i] = e][j] = IF j = i THEN e ELSE q[j]
OBVIOUS

(* A line printed for a sample is an output that a postcondition takes.    *)
LEMMA PrintedFacts ==
  ASSUME VType, NEW c \in Cands, NEW others \in Others, {"prints", "exits", "writes"} \cap Outcomes(c) # {}
  PROVE  /\ IsLines(Printed(c, others))
         /\ \A n \in 0..Len(samples)-1 : IsLines(SubSeq(Printed(c, others), 1, n))
         /\ \A i \in DOMAIN samples, text \in Texts : IsLines([Printed(c, others) EXCEPT ![i] = text])
<1> DEFINE p == Printed(c, others)
<1>0. samples \in Seq(Inputs(spec)) /\ Len(samples) \in Nat /\ spec \in Specs /\ DOMAIN samples = 1..Len(samples)
  BY LenProperties DEF VType
<1>1. \A i \in 1..Len(samples) : samples[i] \in Inputs(spec)
  BY <1>0
<1>2. p = [i \in 1..Len(samples) |-> Hw(c, spec, samples[i], others)]
  BY <1>0 DEF Printed
<1>3. \A i \in 1..Len(samples) : Hw(c, spec, samples[i], others) \in Outputs
  <2> SUFFICES ASSUME NEW i \in 1..Len(samples) PROVE Hw(c, spec, samples[i], others) \in Outputs
    OBVIOUS
  <2>1. samples[i] \in Tuples
    BY <1>0, <1>1 DEF Tuples
  <2>2. <<c, spec, samples[i], others>> \in Cands \X Specs \X Tuples \X Others
    BY <1>0, <2>1
  <2> QED BY <2>2 DEF Outputs
<1>4. p \in Seq(Lines) /\ Len(p) = Len(samples)
  <2>1. \A i \in 1..Len(samples) : Hw(c, spec, samples[i], others) \in Lines
    BY <1>3 DEF Lines
  <2> HIDE DEF p
  <2> QED BY <1>0, <1>2, <2>1, SegmentIsSeq
<1>5. \A i \in 1..Len(samples) : p[i] \in LinesOf(spec)
  <2>1. \A i \in 1..Len(samples) : p[i] \in OutputsOf(spec)
    BY <1>0, <1>1, <1>2, VerdictsAssumption
  <2> HIDE DEF p
  <2> QED BY <2>1 DEF LinesOf
<1> HIDE DEF p
<1>6. IsLines(p)
  BY <1>0, <1>4, <1>5 DEF IsLines
<1>7. ASSUME NEW n \in 0..Len(samples)-1
      PROVE  IsLines(SubSeq(p, 1, n))
  <2>1. /\ SubSeq(p, 1, n) \in Seq(Lines) /\ Len(SubSeq(p, 1, n)) = n
        /\ \A i \in 1..n : SubSeq(p, 1, n)[i] = p[i]
    BY <1>0, <1>4
  <2> QED BY <1>0, <1>5, <2>1 DEF IsLines
<1>8. ASSUME NEW i \in DOMAIN samples, NEW text \in Texts
      PROVE  IsLines([p EXCEPT ![i] = text])
  <2> DEFINE q == [p EXCEPT ![i] = text]
  <2>1. text \in Lines /\ text \in LinesOf(spec) /\ i \in 1..Len(p)
    BY <1>0, <1>4 DEF Lines, LinesOf
  <2>2. /\ q \in Seq(Lines) /\ Len(q) = Len(p)
        /\ \A j \in 1..Len(p) : q[j] = IF j = i THEN text ELSE p[j]
    BY <1>4, <2>1, PutFacts
  <2> HIDE DEF q
  <2>3. \A j \in 1..Len(q) : q[j] \in LinesOf(spec)
    BY <1>4, <1>5, <2>1, <2>2
  <2> QED BY <1>0, <1>4, <2>2, <2>3 DEF IsLines, q
<1> QED BY <1>6, <1>7, <1>8 DEF p
(* A run leaves lines to compare, or a verdict that says how it failed.    *)
LEMMA RunOfFacts ==
  ASSUME VType, NEW c \in Cands, NEW whose, NEW next, RunOf(c, whose, next)
  PROVE  \/ /\ \E p : IsLines(p) /\ out' = [out EXCEPT ![whose] = p]
            /\ phase' = next /\ UNCHANGED <<subject, sampling, idx, tested, verdict>>
         \/ \E why \in {"crash", "timeout"} : Decide(Verdict(FALSE, 0, NoInput, why))
<1>1. CASE \E why \in Outcomes(c) \cap {"crash", "timeout"} : Decide(Verdict(FALSE, 0, NoInput, why))
  BY <1>1
<1>2. CASE /\ \E others \in Others :
                \/ "prints" \in Outcomes(c) /\ out' = [out EXCEPT ![whose] = Printed(c, others)]
                \/ "exits" \in Outcomes(c) /\ \E n \in 0..Len(samples)-1 :
                     out' = [out EXCEPT ![whose] = SubSeq(Printed(c, others), 1, n)]
                \/ "writes" \in Outcomes(c) /\ \E i \in DOMAIN samples, text \in Texts :
                     out' = [out EXCEPT ![whose] = [Printed(c, others) EXCEPT ![i] = text]]
           /\ phase' = next
           /\ UNCHANGED <<subject, sampling, idx, tested, verdict>>
  <2>1. PICK others \in Others :
          \/ "prints" \in Outcomes(c) /\ out' = [out EXCEPT ![whose] = Printed(c, others)]
          \/ "exits" \in Outcomes(c) /\ \E n \in 0..Len(samples)-1 :
               out' = [out EXCEPT ![whose] = SubSeq(Printed(c, others), 1, n)]
          \/ "writes" \in Outcomes(c) /\ \E i \in DOMAIN samples, text \in Texts :
               out' = [out EXCEPT ![whose] = [Printed(c, others) EXCEPT ![i] = text]]
    BY <1>2
  <2>2. {"prints", "exits", "writes"} \cap Outcomes(c) # {}
    BY <2>1
  <2>3. \E p : IsLines(p) /\ out' = [out EXCEPT ![whose] = p]
    BY <2>1, <2>2, PrintedFacts
  <2> QED BY <1>2, <2>3
<1> QED BY <1>1, <1>2 DEF RunOf
(* The same for the two runs of a job.                                     *)
LEMMA RunFacts ==
  ASSUME VInv, RunCandidate \/ RunReference
  PROVE  /\ job \in Tests
         /\ \/ /\ out' \in [cand : Seq(Lines), ref : Seq(Lines)] /\ phase' \in {"reference", "comparing"}
               /\ phase' = "reference" => job = "diff"
               /\ Len(out'.cand) <= Len(samples) /\ Len(out'.ref) <= Len(samples)
               /\ \A i \in 1..Len(out'.cand) : job = "io" => out'.cand[i] \in LinesOf(spec)
               /\ UNCHANGED <<subject, sampling, idx, tested, verdict>>
            \/ \E why \in {"crash", "timeout"} : Decide(Verdict(FALSE, 0, NoInput, why))
<1>0. VType /\ RunInv BY DEF VInv
<1>1. job \in Tests
  BY <1>0 DEF RunInv, RunCandidate, RunReference
<1>o. out \in [cand : Seq(Lines), ref : Seq(Lines)]
  BY <1>0 DEF VType
<1>2. CASE RunCandidate
  <2>1. RunOf(cand, "cand", IF job = "io" THEN "comparing" ELSE "reference")
    BY <1>2 DEF RunCandidate
  <2>2. \/ /\ \E p : IsLines(p) /\ out' = [out EXCEPT !["cand"] = p]
           /\ phase' = (IF job = "io" THEN "comparing" ELSE "reference")
           /\ UNCHANGED <<subject, sampling, idx, tested, verdict>>
        \/ \E why \in {"crash", "timeout"} : Decide(Verdict(FALSE, 0, NoInput, why))
    <3>1. cand \in Cands BY <1>0 DEF VType
    <3> QED BY <1>0, <2>1, <3>1, RunOfFacts
  <2>3. ASSUME NEW p, IsLines(p), out' = [out EXCEPT !["cand"] = p]
        PROVE  /\ out' \in [cand : Seq(Lines), ref : Seq(Lines)]
               /\ Len(out'.cand) <= Len(samples) /\ Len(out'.ref) <= Len(samples)
               /\ \A i \in 1..Len(out'.cand) : out'.cand[i] \in LinesOf(spec)
    <3>1. out'.cand = p /\ out'.ref = out.ref /\ out' \in [cand : Seq(Lines), ref : Seq(Lines)]
      BY <1>o, <2>3 DEF IsLines
    <3> QED BY <1>0, <2>3, <3>1 DEF IsLines, RunInv
  <2> QED BY <1>1, <2>2, <2>3 DEF Tests
<1>3. CASE RunReference
  <2>1. RunOf(ref, "ref", "comparing") /\ phase = "reference"
    BY <1>3 DEF RunReference
  <2>2. CASE job = "diff"
    <3>1. \/ /\ \E p : IsLines(p) /\ out' = [out EXCEPT !["ref"] = p]
             /\ phase' = "comparing"
             /\ UNCHANGED <<subject, sampling, idx, tested, verdict>>
          \/ \E why \in {"crash", "timeout"} : Decide(Verdict(FALSE, 0, NoInput, why))
      <4>1. ref \in Cands BY <1>0, <2>2 DEF VType
      <4> QED BY <1>0, <2>1, <4>1, RunOfFacts
    <3>2. ASSUME NEW p, IsLines(p), out' = [out EXCEPT !["ref"] = p]
          PROVE  /\ out' \in [cand : Seq(Lines), ref : Seq(Lines)]
                 /\ Len(out'.cand) <= Len(samples) /\ Len(out'.ref) <= Len(samples)
      <4>1. out'.ref = p /\ out'.cand = out.cand /\ out' \in [cand : Seq(Lines), ref : Seq(Lines)]
        BY <1>o, <3>2 DEF IsLines
      <4> QED BY <1>0, <3>2, <4>1 DEF IsLines, RunInv
    <3> QED BY <1>1, <2>2, <3>1, <3>2
  <2>3. CASE job = "io"
    BY <1>0, <2>1, <2>3 DEF RunInv
  <2> QED BY <1>1, <2>2, <2>3 DEF Tests
<1> QED BY <1>2, <1>3
(* An input is judged by its own line, and idx stays within the samples.   *)
LEMMA CheckFacts ==
  ASSUME VInv, CheckIo \/ CheckDiff
  PROVE  /\ phase = "comparing" /\ idx < Len(samples) /\ UNCHANGED <<subject, sampling, out>>
         /\ \/ phase' = phase /\ idx' = idx + 1 /\ tested' \in {tested, tested + 1} /\ verdict' = verdict
            \/ phase' = "done" /\ UNCHANGED <<idx, tested>>
<1>1. CASE CheckIo
  <2>1. Undecided \/ (~Undecided /\ LineNo > Len(out.cand)) \/ (~Undecided /\ LineNo <= Len(out.cand))
    <3>1. LineNo \in Int /\ Len(out.cand) \in Int BY DEF VInv, VType, LineNo
    <3> QED BY <3>1
  <2>2. CASE Undecided
    BY <1>1, <2>2 DEF CheckIo
  <2>3. CASE ~Undecided /\ LineNo > Len(out.cand)
    <3>1. Decide(Verdict(FALSE, tested, Input, "missing_output"))
      <4>1. ~(LineNo <= Len(out.cand)) BY <2>3 DEF VInv, VType, LineNo
      <4> QED BY <1>1, <2>3, <4>1 DEF CheckIo
    <3> QED BY <1>1, <3>1 DEF CheckIo, Decide
  <2>4. CASE ~Undecided /\ LineNo <= Len(out.cand)
    <3>1. ~(LineNo > Len(out.cand)) BY <2>4 DEF VInv, VType, LineNo
    <3>2. \/ idx' = idx + 1 /\ tested' = tested + 1 /\ UNCHANGED <<subject, sampling, phase, out, verdict>>
          \/ \E n, why : Decide(Verdict(FALSE, n, Input, why))
      BY <1>1, <2>4, <3>1 DEF CheckIo
    <3> QED BY <1>1, <3>2 DEF CheckIo, Decide
  <2> QED BY <2>1, <2>2, <2>3, <2>4
<1>2. CASE CheckDiff
  <2>1. \/ idx' = idx + 1 /\ UNCHANGED <<subject, sampling, phase, out, tested, verdict>>
        \/ \E v : Decide(v)
    <3>1. CASE LineMissing(idx + 1) BY <1>2, <3>1 DEF CheckDiff
    <3>2. CASE ~LineMissing(idx + 1) /\ SameLine(idx + 1) BY <1>2, <3>2 DEF CheckDiff
    <3>3. CASE ~LineMissing(idx + 1) /\ ~SameLine(idx + 1) BY <1>2, <3>3 DEF CheckDiff
    <3> QED BY <3>1, <3>2, <3>3
  <2> QED BY <1>2, <2>1 DEF CheckDiff, Decide
<1> QED BY <1>1, <1>2

(* The actions that decide without comparing lines.                        *)
Deciders == AllPassed \/ NothingSampled \/ Smt \/ Prove

LEMMA DeciderFacts ==
  ASSUME Deciders
  PROVE  phase' = "done" /\ UNCHANGED <<subject, sampling, out, idx, tested>>
<1>1. ASSUME NEW v, Decide(v)
      PROVE  phase' = "done" /\ UNCHANGED <<subject, sampling, out, idx, tested>>
  BY <1>1 DEF Decide
<1>2. \E v : Decide(v)
  <2>1. ASSUME NEW S, NEW names, Solved(S, names) PROVE \E v : Decide(v)
    BY <2>1 DEF Solved, Raise
  <2>2. CASE Smt BY <2>1, <2>2 DEF Smt, Raise
  <2>3. CASE Prove BY <2>1, <2>3 DEF Prove, Raise
  <2>4. CASE AllPassed \/ NothingSampled BY <2>4 DEF AllPassed, NothingSampled
  <2> QED BY <2>2, <2>3, <2>4 DEF Deciders
<1> QED BY <1>1, <1>2

(* Every step keeps the types.                                             *)
LEMMA StepVType == VInv /\ [VerdictsNext]_dvars => VType'
<1> SUFFICES ASSUME VInv, [VerdictsNext]_dvars PROVE VType' OBVIOUS
<1>0. VType /\ SampleInv BY DEF VInv
<1>1. CASE SampleBoundary
  <2>1. tried + 1 \in 1..Len(Boundary(spec)) /\ Boundary(spec) \in Seq(Inputs(spec))
    BY <1>0, <1>1, VerdictsAssumption DEF VType, SampleBoundary, BoundaryLeft
  <2>2. Boundary(spec)[tried + 1] \in Inputs(spec)
    BY <2>1
  <2>3. Len(samples) < NInputs
    BY <1>0, <1>1, CapFacts, VerdictsAssumption DEF SampleBoundary, BoundaryLeft, VType
  <2>4. samples' \in Seq(Inputs(spec))
    BY <1>0, <1>1, <2>2, <2>3, TryAddFacts DEF SampleBoundary
  <2> QED BY <1>0, <1>1, <2>4 DEF VType, SampleBoundary, subject
<1>2. CASE SampleRandom
  <2>1. samples' \in Seq(Inputs(spec))
    BY <1>0, <1>2, TryAddFacts DEF SampleRandom, RandomLeft
  <2>2. attempts' \in 0..MaxAttempts
    BY <1>0, <1>2, VerdictsAssumption DEF SampleRandom, RandomLeft, Attempt, VType
  <2> QED BY <1>0, <1>2, <2>1, <2>2 DEF VType, SampleRandom, subject
<1>3. CASE Sampled
  BY <1>0, <1>3 DEF VType, Sampled, subject, sampling, Phases
<1>4. CASE Link
  BY <1>0, <1>4 DEF VType, Link, Decide, subject, sampling, Phases
<1>5. CASE RunCandidate \/ RunReference
  <2>1. \/ /\ out' \in [cand : Seq(Lines), ref : Seq(Lines)] /\ phase' \in {"reference", "comparing"}
           /\ UNCHANGED <<subject, sampling, idx, tested, verdict>>
        \/ \E why \in {"crash", "timeout"} : Decide(Verdict(FALSE, 0, NoInput, why))
    BY <1>5, RunFacts
  <2> QED BY <1>0, <2>1 DEF VType, Decide, subject, sampling, Phases
<1>6. CASE CheckIo \/ CheckDiff
  BY <1>0, <1>6, CheckFacts DEF VType, subject, sampling, Phases
<1>7. CASE Deciders
  BY <1>0, <1>7, DeciderFacts DEF VType, subject, sampling, Phases
<1>8. CASE UNCHANGED dvars
  BY <1>0, <1>8 DEF VType, dvars
<1> QED BY <1>1, <1>2, <1>3, <1>4, <1>5, <1>6, <1>7, <1>8 DEF VerdictsNext, Deciders

(* Every step keeps the samples distinct, admitted, and as many as asked   *)
(* for unless every attempt was spent.                                     *)
LEMMA StepSample == VInv /\ [VerdictsNext]_dvars => SampleInv'
<1> SUFFICES ASSUME VInv, [VerdictsNext]_dvars PROVE SampleInv' OBVIOUS
<1>0. VType /\ SampleInv /\ RunInv BY DEF VInv
<1>s. ASSUME UNCHANGED <<subject, samples, attempts>>, phase # "sampling" \/ phase' = "sampling"
      PROVE  SampleInv'
  BY <1>0, <1>s DEF SampleInv, subject
<1>1. CASE SampleBoundary
  <2>1. tried + 1 \in 1..Len(Boundary(spec)) /\ Boundary(spec) \in Seq(Inputs(spec))
    BY <1>0, <1>1, VerdictsAssumption DEF VType, SampleBoundary, BoundaryLeft
  <2>2. Boundary(spec)[tried + 1] \in Inputs(spec)
    BY <2>1
  <2>3. Len(samples) < NInputs
    BY <1>0, <1>1, CapFacts, VerdictsAssumption DEF SampleBoundary, BoundaryLeft, VType
  <2>4. /\ IsInjective(samples') /\ Len(samples') <= NInputs
        /\ \A i \in 1..Len(samples') : job = "diff" \/ Pre(spec, samples'[i]) \in {"true", "smt"}
    BY <1>0, <1>1, <2>2, <2>3, TryAddFacts DEF SampleBoundary
  <2>5. phase' = "sampling" /\ job' = job /\ spec' = spec
    BY <1>1 DEF SampleBoundary, subject
  <2> QED BY <2>4, <2>5 DEF SampleInv
<1>2. CASE SampleRandom
  <2>1. /\ IsInjective(samples') /\ Len(samples') <= NInputs
        /\ \A i \in 1..Len(samples') : job = "diff" \/ Pre(spec, samples'[i]) \in {"true", "smt"}
    BY <1>0, <1>2, TryAddFacts DEF SampleRandom, RandomLeft
  <2>2. phase' = "sampling" /\ job' = job /\ spec' = spec
    BY <1>2 DEF SampleRandom, subject
  <2> QED BY <2>1, <2>2 DEF SampleInv
<1>3. CASE Sampled \/ NothingSampled
  <2>1. ~RandomLeft /\ UNCHANGED <<subject, samples, attempts>>
    BY <1>3 DEF Sampled, NothingSampled, Decide, sampling
  <2>2. Len(samples) < NInputs => attempts = MaxAttempts
    BY <1>0, <2>1, VerdictsAssumption DEF RandomLeft, VType
  <2> QED BY <1>0, <2>1, <2>2 DEF SampleInv, subject
<1>4. CASE Link
  BY <1>s, <1>4 DEF Link, Decide, sampling
<1>5. CASE RunCandidate \/ RunReference
  <2>1. UNCHANGED <<subject, sampling>>
    BY <1>5, RunFacts DEF Decide
  <2>2. phase # "sampling"
    BY <1>5 DEF RunCandidate, RunReference
  <2> QED BY <1>s, <2>1, <2>2 DEF sampling
<1>6. CASE CheckIo \/ CheckDiff
  BY <1>s, <1>6, CheckFacts DEF sampling
<1>7. CASE AllPassed \/ Smt \/ Prove
  <2>1. UNCHANGED <<subject, sampling>> BY <1>7, DeciderFacts DEF Deciders
  <2>2. phase # "sampling" BY <1>7 DEF AllPassed, Smt, Prove
  <2> QED BY <1>s, <2>1, <2>2 DEF sampling
<1>8. CASE UNCHANGED dvars
  BY <1>s, <1>8 DEF dvars, subject
<1> QED BY <1>1, <1>2, <1>3, <1>4, <1>5, <1>6, <1>7, <1>8 DEF VerdictsNext
(* Every step keeps what the comparison of lines starts from.              *)
LEMMA StepRun == VInv /\ [VerdictsNext]_dvars => RunInv'
<1> SUFFICES ASSUME VInv, [VerdictsNext]_dvars PROVE RunInv' OBVIOUS
<1>0. VType /\ RunInv BY DEF VInv
<1>n. Len(samples) \in Nat /\ idx \in Nat /\ tested \in Nat
  BY <1>0 DEF VType
<1>1. CASE SampleBoundary \/ SampleRandom
  <2>1. UNCHANGED <<subject, phase, out, idx, tested, verdict>> /\ phase = "sampling"
    BY <1>1 DEF SampleBoundary, SampleRandom
  <2>2. Len(samples') \in Nat
    BY StepVType DEF VType
  <2>3. out.cand = <<>> /\ out.ref = <<>> /\ idx = 0 /\ tested = 0 /\ job \in Tests /\ verdict = Pending
    BY <1>0, <2>1 DEF RunInv
  <2> QED BY <1>0, <2>1, <2>2, <2>3 DEF RunInv, subject
<1>2. CASE Sampled
  <2>1. UNCHANGED <<subject, samples, out, idx, tested, verdict>> /\ phase = "sampling" /\ phase' = "linking"
        /\ samples # <<>>
    BY <1>2 DEF Sampled, sampling
  <2>2. Len(samples) > 0
    BY <1>0, <2>1 DEF VType
  <2> QED BY <1>0, <2>1, <2>2 DEF RunInv, subject
<1>3. ASSUME phase' = "done", UNCHANGED <<subject, sampling, out, idx, tested>>
      PROVE  RunInv'
  BY <1>0, <1>3 DEF RunInv, subject, sampling
<1>4. CASE Link
  <2>1. CASE phase' = "candidate" /\ UNCHANGED <<subject, sampling, out, idx, tested, verdict>>
    BY <1>0, <1>4, <2>1 DEF RunInv, Link, subject, sampling, Tests
  <2>2. CASE phase' = "done" /\ UNCHANGED <<subject, sampling, out, idx, tested>>
    BY <1>3, <2>2
  <2> QED BY <1>4, <2>1, <2>2 DEF Link, Decide
<1>5. CASE RunCandidate \/ RunReference
  <2>1. job \in Tests /\ phase \in {"candidate", "reference"}
    BY <1>5, RunFacts DEF RunCandidate, RunReference
  <2>2. CASE /\ phase' \in {"reference", "comparing"} /\ (phase' = "reference" => job = "diff")
             /\ Len(out'.cand) <= Len(samples) /\ Len(out'.ref) <= Len(samples)
             /\ \A i \in 1..Len(out'.cand) : job = "io" => out'.cand[i] \in LinesOf(spec)
             /\ UNCHANGED <<subject, sampling, idx, tested, verdict>>
    BY <1>0, <2>1, <2>2 DEF RunInv, subject, sampling
  <2>3. CASE \E why \in {"crash", "timeout"} : Decide(Verdict(FALSE, 0, NoInput, why))
    BY <1>3, <2>3 DEF Decide
  <2> QED BY <1>5, <2>2, <2>3, RunFacts
<1>6. CASE CheckIo \/ CheckDiff
  <2>1. phase = "comparing" /\ idx < Len(samples) /\ UNCHANGED <<subject, sampling, out>>
    BY <1>6, CheckFacts
  <2>2. CASE phase' = phase /\ idx' = idx + 1 /\ verdict' = verdict
    BY <1>0, <1>n, <2>1, <2>2 DEF RunInv, subject, sampling
  <2>3. CASE phase' = "done" /\ UNCHANGED <<idx, tested>>
    BY <1>3, <2>1, <2>3
  <2> QED BY <1>6, <2>2, <2>3, CheckFacts
<1>7. CASE Deciders
  BY <1>3, <1>7, DeciderFacts
<1>8. CASE UNCHANGED dvars
  BY <1>0, <1>8 DEF RunInv, dvars
<1> QED BY <1>1, <1>2, <1>4, <1>5, <1>6, <1>7, <1>8 DEF VerdictsNext, Deciders

(* What is decided depends on the samples and the lines only.              *)
LEMMA DecidedSame ==
  ASSUME UNCHANGED <<spec, samples, out>>
  PROVE  /\ \A n : (Decided(n)' <=> Decided(n)) /\ TestedIn(n)' = TestedIn(n)
         /\ \A n : (LineMissing(n)' <=> LineMissing(n)) /\ (SameLine(n)' <=> SameLine(n))
<1>1. \A n : Decided(n)' <=> Decided(n)
  BY DEF Decided
<1>2. \A n : TestedIn(n)' = TestedIn(n)
  BY <1>1 DEF TestedIn
<1> QED BY <1>1, <1>2 DEF LineMissing, SameLine, Line

(* The step of verify_io on one input, by what the interpreter says.       *)
LEMMA CheckIoFacts ==
  ASSUME VInv, CheckIo
  PROVE  /\ job = "io" /\ phase = "comparing" /\ idx < Len(samples) /\ UNCHANGED <<spec, job, samples, out>>
         /\ \/ ~Decided(idx + 1) /\ idx' = idx + 1 /\ tested' = tested /\ phase' = phase
            \/ /\ Decided(idx + 1) /\ idx + 1 <= Len(out.cand) /\ IsNumber(out.cand[idx + 1])
               /\ Post(spec, samples[idx + 1], out.cand[idx + 1]) = "true"
               /\ idx' = idx + 1 /\ tested' = tested + 1 /\ phase' = phase
            \/ /\ phase' = "done"
               /\ \E why \in {"missing_output", "parse_error"} :
                    verdict' = Verdict(FALSE, tested, samples[idx + 1], why)
            \/ /\ Decided(idx + 1) /\ idx + 1 <= Len(out.cand) /\ IsNumber(out.cand[idx + 1])
               /\ Pre(spec, samples[idx + 1]) = "true"
               /\ Post(spec, samples[idx + 1], out.cand[idx + 1]) = "false"
               /\ phase' = "done" /\ verdict' = Verdict(FALSE, tested + 1, samples[idx + 1], "post_failed")
<1>1. job = "io" /\ phase = "comparing" /\ idx < Len(samples) /\ UNCHANGED <<spec, job, samples, out>>
  BY CheckFacts DEF CheckIo, subject, sampling
<1>2. idx \in Nat /\ Len(out.cand) \in Nat /\ LineNo = idx + 1 /\ Input = samples[idx + 1]
  BY DEF VInv, VType, LineNo, Input
<1>3. CASE Undecided
  <2>1. ~Decided(idx + 1)
    BY <1>2, <1>3 DEF Undecided, Decided
  <2>2. idx' = idx + 1 /\ tested' = tested /\ phase' = phase
    BY <1>3 DEF CheckIo
  <2> QED BY <1>1, <2>1, <2>2
<1>4. CASE ~Undecided /\ LineNo > Len(out.cand)
  <2>1. ~(LineNo <= Len(out.cand))
    BY <1>2, <1>4
  <2>2. Decide(Verdict(FALSE, tested, Input, "missing_output"))
    BY <1>4, <2>1 DEF CheckIo
  <2> QED BY <1>1, <1>2, <2>2 DEF Decide
<1>n. CASE ~Undecided /\ LineNo <= Len(out.cand) /\ ~IsNumber(out.cand[LineNo])
  <2>1. ~(LineNo > Len(out.cand))
    BY <1>2, <1>n
  <2>2. Decide(Verdict(FALSE, tested, Input, "parse_error"))
    BY <1>n, <2>1 DEF CheckIo
  <2> QED BY <1>1, <1>2, <2>2 DEF Decide
<1>5. CASE ~Undecided /\ LineNo <= Len(out.cand) /\ IsNumber(out.cand[LineNo])
  <2>1. ~(LineNo > Len(out.cand)) /\ idx + 1 \in 1..Len(out.cand)
    BY <1>2, <1>5
  <2>2. Post(spec, samples[idx + 1], out.cand[idx + 1]) \in {"true", "false"}
    <3>1. Post(spec, samples[idx + 1], out.cand[idx + 1]) \in Truths
      <4>1. out.cand[idx + 1] \in OutputsOf(spec)
        BY <1>1, <1>2, <1>5, <2>1 DEF VInv, RunInv, LinesOf, IsNumber
      <4>2. spec \in Specs /\ samples[idx + 1] \in Inputs(spec)
        BY <1>1, <1>2 DEF VInv, VType
      <4> QED BY <4>1, <4>2, PostTyped
    <3> QED BY <1>2, <1>5, <3>1 DEF Undecided, Truths
  <2>3. Pre(spec, samples[idx + 1]) = "true"
    BY <1>2, <1>5 DEF Undecided
  <2>4. Decided(idx + 1)
    BY <2>2, <2>3 DEF Decided
  <2>5. CASE Post(spec, samples[idx + 1], out.cand[idx + 1]) = "true"
    <3>1. idx' = idx + 1 /\ tested' = tested + 1 /\ phase' = phase
      BY <1>2, <1>5, <2>1, <2>5 DEF CheckIo
    <3> QED BY <1>1, <1>2, <1>5, <2>4, <2>5, <3>1
  <2>6. CASE Post(spec, samples[idx + 1], out.cand[idx + 1]) # "true"
    <3>1. Decide(Verdict(FALSE, tested + 1, Input, "post_failed"))
      BY <1>2, <1>5, <2>1, <2>6 DEF CheckIo
    <3> QED BY <1>1, <1>2, <1>5, <2>2, <2>3, <2>4, <2>6, <3>1 DEF Decide
  <2> QED BY <2>5, <2>6
<1>6. LineNo > Len(out.cand) \/ LineNo <= Len(out.cand)
  BY <1>2
<1> QED BY <1>3, <1>4, <1>n, <1>5, <1>6, Zenon

(* A comparison starts with no line looked at.                             *)
LEMMA ComparingStarts ==
  ASSUME VInv, [VerdictsNext]_dvars, phase' = "comparing"
  PROVE  \/ idx' = 0 /\ tested' = 0
         \/ UNCHANGED dvars
         \/ CheckIo \/ CheckDiff
<1>1. CASE RunCandidate \/ RunReference
  BY <1>1, RunFacts DEF VInv, RunInv, RunCandidate, RunReference, Decide
<1>2. CASE SampleBoundary \/ SampleRandom \/ Sampled \/ Link
  BY <1>2 DEF SampleBoundary, SampleRandom, Sampled, Link, Decide
<1>3. CASE Deciders
  BY <1>3, DeciderFacts
<1> QED BY <1>1, <1>2, <1>3 DEF VerdictsNext, Deciders
(* Every step of verify_io keeps the count of the inputs decided so far.   *)
LEMMA StepIo == VInv /\ [VerdictsNext]_dvars => IoInv'
<1> SUFFICES ASSUME VInv, [VerdictsNext]_dvars, job' = "io", phase' = "comparing"
             PROVE  /\ tested' = TestedIn(idx)'
                    /\ \A i \in 1..idx' : Decided(i)' =>
                         /\ i <= Len(out'.cand) /\ IsNumber(out'.cand[i])
                         /\ Post(spec', samples'[i], out'.cand[i]) = "true"
  BY DEF IoInv
<1>0. VType /\ IoInv BY DEF VInv
<1>1. CASE idx' = 0 /\ tested' = 0
  <2>1. TestedIn(idx)' = 0
    BY <1>1, FS_EmptySet DEF TestedIn
  <2> QED BY <1>1, <2>1
<1>2. CASE UNCHANGED dvars
  <2>1. job = "io" /\ phase = "comparing" /\ UNCHANGED <<spec, samples, out, idx, tested>>
    BY <1>2 DEF dvars
  <2> QED BY <1>0, <2>1, DecidedSame DEF IoInv
<1>3. CASE CheckIo
  <2>1. job = "io" /\ phase = "comparing" /\ UNCHANGED <<spec, samples, out>>
    BY <1>3, CheckIoFacts
  <2>2. /\ tested = TestedIn(idx)
        /\ \A i \in 1..idx : Decided(i) =>
             i <= Len(out.cand) /\ IsNumber(out.cand[i]) /\ Post(spec, samples[i], out.cand[i]) = "true"
    BY <1>0, <2>1 DEF IoInv
  <2>3. idx \in Nat /\ TestedIn(idx + 1) = IF Decided(idx + 1) THEN TestedIn(idx) + 1 ELSE TestedIn(idx)
    BY <1>0, TestedFacts DEF VType
  <2>4. idx' = idx + 1 /\ tested' = TestedIn(idx + 1)
    BY <1>3, <2>2, <2>3, CheckIoFacts
  <2>5. Decided(idx + 1) =>
          /\ idx + 1 <= Len(out.cand) /\ IsNumber(out.cand[idx + 1])
          /\ Post(spec, samples[idx + 1], out.cand[idx + 1]) = "true"
    BY <1>3, CheckIoFacts
  <2>6. \A i \in 1..idx + 1 : Decided(i) =>
          i <= Len(out.cand) /\ IsNumber(out.cand[i]) /\ Post(spec, samples[i], out.cand[i]) = "true"
    <3> SUFFICES ASSUME NEW i \in 1..idx + 1, Decided(i)
                 PROVE  i <= Len(out.cand) /\ IsNumber(out.cand[i]) /\ Post(spec, samples[i], out.cand[i]) = "true"
      OBVIOUS
    <3>1. CASE i \in 1..idx BY <2>2, <3>1
    <3>2. CASE i = idx + 1 BY <2>5, <3>2
    <3> QED BY <2>3, <3>1, <3>2
  <2> QED BY <2>1, <2>4, <2>6, DecidedSame
<1>4. CASE CheckDiff
  BY <1>4, CheckFacts DEF CheckDiff, subject
<1> QED BY <1>1, <1>2, <1>3, <1>4, ComparingStarts

(* Every step of differential_test keeps the lines before idx equal.       *)
LEMMA StepDiff == VInv /\ [VerdictsNext]_dvars => DiffInv'
<1> SUFFICES ASSUME VInv, [VerdictsNext]_dvars, job' = "diff", phase' = "comparing"
             PROVE  \A i \in 1..idx' : ~LineMissing(i)' /\ SameLine(i)'
  BY DEF DiffInv
<1>0. VType /\ DiffInv BY DEF VInv
<1>1. CASE idx' = 0 /\ tested' = 0
  BY <1>1
<1>2. CASE UNCHANGED dvars
  <2>1. job = "diff" /\ phase = "comparing" /\ UNCHANGED <<spec, samples, out, idx>>
    BY <1>2 DEF dvars
  <2> QED BY <1>0, <2>1, DecidedSame DEF DiffInv
<1>3. CASE CheckIo
  BY <1>3, CheckIoFacts
<1>4. CASE CheckDiff
  <2>1. job = "diff" /\ phase = "comparing" /\ UNCHANGED <<spec, samples, out>>
    BY <1>4, CheckFacts DEF CheckDiff, subject, sampling
  <2>2. idx' = idx + 1 /\ ~LineMissing(idx + 1) /\ SameLine(idx + 1)
    <3>1. CASE LineMissing(idx + 1) BY <1>4, <3>1 DEF CheckDiff, Decide
    <3>2. CASE ~LineMissing(idx + 1) /\ ~SameLine(idx + 1) BY <1>4, <3>2 DEF CheckDiff, Decide
    <3>3. CASE ~LineMissing(idx + 1) /\ SameLine(idx + 1) BY <1>4, <3>3 DEF CheckDiff
    <3> QED BY <3>1, <3>2, <3>3
  <2>3. \A i \in 1..idx + 1 : ~LineMissing(i) /\ SameLine(i)
    <3> SUFFICES ASSUME NEW i \in 1..idx + 1 PROVE ~LineMissing(i) /\ SameLine(i)
      OBVIOUS
    <3>1. i \in 1..idx \/ i = idx + 1 BY <1>0 DEF VType
    <3> QED BY <1>0, <2>1, <2>2, <3>1 DEF DiffInv
  <2> QED BY <2>1, <2>2, <2>3, DecidedSame
<1> QED BY <1>1, <1>2, <1>3, <1>4, ComparingStarts

(* Outputs compared to the end, line by line, are the same.                *)
LEMMA ComparedToTheEnd ==
  ASSUME VInv, job = "diff", phase = "comparing", idx = Len(samples)
  PROVE  /\ Len(out.cand) = Len(out.ref) /\ Len(out.cand) \in {Len(samples), Len(samples) - 1}
         /\ \A i \in DOMAIN out.cand : out.cand[i] = out.ref[i]
<1> DEFINE n == Len(samples)
<1>1. /\ n \in Nat /\ n > 0 /\ Len(out.cand) \in Nat /\ Len(out.ref) \in Nat
      /\ Len(out.cand) <= n /\ Len(out.ref) <= n
      /\ DOMAIN out.cand = 1..Len(out.cand) /\ DOMAIN out.ref = 1..Len(out.ref)
  <2>1. out.cand \in Seq(Lines) /\ out.ref \in Seq(Lines)
    BY DEF VInv, VType
  <2>2. n \in Nat BY DEF VInv, VType
  <2>3. n > 0 /\ Len(out.cand) <= n /\ Len(out.ref) <= n
    BY DEF VInv, RunInv, Tests
  <2> QED BY <2>1, <2>2, <2>3, LenProperties
<1>2. \A i \in 1..n : ~LineMissing(i) /\ SameLine(i)
  BY DEF VInv, DiffInv
<1>3. ASSUME NEW i \in 1..n
      PROVE  /\ i \in 1..Len(out.cand) <=> i \in 1..Len(out.ref)
             /\ i \in 1..Len(out.cand) => out.cand[i] = out.ref[i]
  <2>1. Line(out.cand, i) = Line(out.ref, i) BY <1>2 DEF SameLine
  <2>2. \A v : <<v>> # <<>> OBVIOUS
  <2>3. \A v, w : <<v>> = <<w>> => v = w OBVIOUS
  <2> QED BY <1>1, <2>1, <2>2, <2>3 DEF Line, Blank
<1>4. n \in 1..n
  BY <1>1
<1>5. n <= Len(out.cand) + 1 /\ n <= Len(out.ref) + 1
  BY <1>1, <1>2, <1>4 DEF LineMissing
<1>6. Len(out.cand) = Len(out.ref) /\ Len(out.cand) \in {n, n - 1}
  <2>1. n \in 1..Len(out.cand) <=> n \in 1..Len(out.ref) BY <1>3, <1>4
  <2> HIDE DEF n
  <2> QED BY <1>1, <1>5, <2>1
<1>7. \A i \in 1..Len(out.cand) : i \in 1..n
  BY <1>1
<1> QED BY <1>1, <1>3, <1>6, <1>7
(* A verdict is final, and what it says of the samples and lines is true.  *)
LEMMA StepVerdict == VInv /\ [VerdictsNext]_dvars => VerdictInv'
<1> SUFFICES ASSUME VInv, [VerdictsNext]_dvars PROVE VerdictInv' OBVIOUS
<1>0. VType /\ RunInv /\ IoInv /\ VerdictInv BY DEF VInv
<1>n. ASSUME ~verdict'.equal, verdict'.why \notin {"post_failed", "output_mismatch"}
      PROVE  VerdictInv'
  BY <1>n DEF VerdictInv, AcceptCovers, IoCexGenuine, DiffVerdictRight
<1>p. ASSUME phase' # "done" PROVE VerdictInv'
  <2>1. verdict' = Pending BY <1>p, StepRun DEF RunInv
  <2> QED BY <1>n, <2>1 DEF Pending, Verdict
<1>1. CASE SampleBoundary \/ SampleRandom \/ Sampled
  BY <1>p, <1>1, <1>0 DEF SampleBoundary, SampleRandom, Sampled
<1>2. CASE NothingSampled
  <2>1. /\ samples = <<>> /\ phase = "sampling" /\ UNCHANGED <<subject, sampling, out>>
        /\ verdict' = Verdict(TRUE, 0, NoInput, "none")
    BY <1>2 DEF NothingSampled, Decide
  <2>2. /\ samples' = <<>> /\ Len(samples') = 0
        /\ verdict'.equal = TRUE /\ verdict'.tested = 0 /\ verdict'.why = "none"
    BY <2>1 DEF sampling, Verdict
  <2>3. DOMAIN samples' = {}
    BY <2>2, EmptySeq
  <2>4. out'.cand = <<>> /\ out'.ref = <<>> /\ DOMAIN out'.cand = {}
    BY <1>0, <2>1, EmptySeq DEF RunInv
  <2>5. TestedIn(Len(samples))' = 0
    BY <2>2, FS_EmptySet DEF TestedIn
  <2>6. AcceptCovers'
    BY <2>2, <2>3, <2>5 DEF AcceptCovers
  <2>7. IoCexGenuine' /\ DiffVerdictRight'
    BY <2>2, <2>4 DEF IoCexGenuine, DiffVerdictRight
  <2> QED BY <2>6, <2>7 DEF VerdictInv
<1>3. CASE Link
  <2>1. CASE phase' = "candidate" BY <1>p, <2>1
  <2>2. CASE Decide(Verdict(FALSE, 0, NoInput,
                    IF "error" \in Outcomes(cand) THEN "candidate_error" ELSE "reference_error"))
    BY <1>n, <2>2 DEF Decide, Verdict
  <2> QED BY <1>3, <2>1, <2>2 DEF Link
<1>4. CASE RunCandidate \/ RunReference
  <2>1. CASE phase' \in {"reference", "comparing"} BY <1>p, <2>1
  <2>2. CASE \E why \in {"crash", "timeout"} : Decide(Verdict(FALSE, 0, NoInput, why))
    BY <1>n, <2>2 DEF Decide, Verdict
  <2> QED BY <1>4, <2>1, <2>2, RunFacts
<1>5. CASE CheckIo
  <2>1. job = "io" /\ job' = "io" /\ phase = "comparing" /\ UNCHANGED <<spec, samples, out>> /\ idx < Len(samples)
    BY <1>5, CheckIoFacts
  <2>2. CASE phase' = phase
    BY <1>p, <2>1, <2>2
  <2>3. CASE \E why \in {"missing_output", "parse_error"} : verdict' = Verdict(FALSE, tested, samples[idx + 1], why)
    BY <1>n, <2>3 DEF Verdict
  <2>4. CASE /\ Decided(idx + 1) /\ idx + 1 <= Len(out.cand) /\ IsNumber(out.cand[idx + 1])
             /\ Pre(spec, samples[idx + 1]) = "true"
             /\ Post(spec, samples[idx + 1], out.cand[idx + 1]) = "false"
             /\ verdict' = Verdict(FALSE, tested + 1, samples[idx + 1], "post_failed")
    <3> DEFINE n == idx + 1
    <3>1. idx \in Nat /\ n \in DOMAIN out.cand
      <4>1. out.cand \in Seq(Lines) /\ idx \in Nat BY <1>0 DEF VType
      <4> QED BY <2>4, <4>1, LenProperties
    <3>2. verdict'.tested = TestedIn(n) /\ verdict'.cex = samples[n] /\ ~verdict'.equal
      BY <1>0, <2>1, <2>4, <3>1, TestedFacts DEF IoInv, Verdict
    <3>3. \A i \in 1..n-1 : Decided(i) => IsNumber(out.cand[i]) /\ Post(spec, samples[i], out.cand[i]) = "true"
      BY <1>0, <2>1, <3>1 DEF IoInv
    <3>4. \E k \in DOMAIN out.cand :
            /\ samples[k] = verdict'.cex /\ verdict'.tested = TestedIn(k) /\ IsNumber(out.cand[k])
            /\ Pre(spec, samples[k]) = "true" /\ Post(spec, samples[k], out.cand[k]) = "false"
            /\ \A i \in 1..k-1 : Decided(i) => IsNumber(out.cand[i]) /\ Post(spec, samples[i], out.cand[i]) = "true"
      <4> HIDE DEF n
      <4> QED BY <2>4, <3>1, <3>2, <3>3 DEF n
    <3>5. IoCexGenuine'
      BY <2>1, <3>4, DecidedSame DEF IoCexGenuine
    <3> QED BY <2>1, <3>2, <3>5 DEF VerdictInv, AcceptCovers, DiffVerdictRight
  <2> QED BY <1>5, <2>2, <2>3, <2>4, CheckIoFacts
<1>6. CASE CheckDiff
  <2>1. job = "diff" /\ job' = "diff" /\ UNCHANGED <<samples, out>> /\ phase = "comparing"
    BY <1>6, CheckFacts DEF CheckDiff, subject, sampling
  <2>2. CASE LineMissing(idx + 1)
    <3>1. verdict' = Verdict(FALSE, idx, Input, "missing_output")
      BY <1>6, <2>2 DEF CheckDiff, Decide
    <3> QED BY <1>n, <3>1 DEF Verdict
  <2>3. CASE ~LineMissing(idx + 1) /\ SameLine(idx + 1)
    BY <1>6, <1>p, <2>1, <2>3 DEF CheckDiff
  <2>4. CASE ~LineMissing(idx + 1) /\ ~SameLine(idx + 1)
    <3>1. verdict' = Verdict(FALSE, idx, Input, "output_mismatch") /\ idx' = idx
      BY <1>6, <2>4 DEF CheckDiff, Decide
    <3>2. out.cand # out.ref
      BY <2>4 DEF SameLine
    <3>3. ~verdict'.equal /\ verdict'.cex = samples[idx + 1]
      BY <3>1 DEF Verdict, Input
    <3> QED BY <2>1, <3>1, <3>2, <3>3 DEF VerdictInv, AcceptCovers, IoCexGenuine, DiffVerdictRight
  <2> QED BY <2>2, <2>3, <2>4
<1>7. CASE AllPassed
  <2>1. phase = "comparing" /\ idx = Len(samples) /\ UNCHANGED <<subject, samples, out>>
        /\ verdict' = Verdict(TRUE, IF job = "io" THEN tested ELSE Len(samples), NoInput, "none")
    BY <1>7 DEF AllPassed, Decide, sampling
  <2>2. verdict'.equal /\ verdict'.why = "none" /\ (job = "io" => verdict'.tested = tested)
    BY <2>1 DEF Verdict
  <2>3. job' = job /\ spec' = spec
    BY <2>1 DEF subject
  <2>4. DOMAIN samples = 1..Len(samples)
    BY <1>0, LenProperties DEF VType
  <2>5. CASE job = "io"
    <3>1. /\ tested = TestedIn(Len(samples))
          /\ \A i \in 1..Len(samples) : Decided(i) =>
               i <= Len(out.cand) /\ IsNumber(out.cand[i]) /\ Post(spec, samples[i], out.cand[i]) = "true"
      BY <1>0, <2>1, <2>5 DEF IoInv
    <3>2. AcceptCovers'
      BY <2>1, <2>2, <2>3, <2>4, <3>1, DecidedSame DEF AcceptCovers
    <3> QED BY <2>2, <2>3, <2>5, <3>2 DEF VerdictInv, IoCexGenuine, DiffVerdictRight
  <2>6. CASE job = "diff"
    <3>1. DiffVerdictRight'
      BY <2>1, <2>2, <2>6, ComparedToTheEnd DEF DiffVerdictRight
    <3> QED BY <2>3, <2>6, <3>1 DEF VerdictInv, AcceptCovers, IoCexGenuine
  <2> QED BY <1>0, <2>1, <2>5, <2>6 DEF RunInv, Tests
<1>8. CASE Smt \/ Prove
  <2>1. job' \in {"smt", "prove"}
    <3>1. UNCHANGED subject BY <1>8, DeciderFacts DEF Deciders
    <3> QED BY <1>8, <3>1 DEF Smt, Prove, subject
  <2> QED BY <2>1 DEF VerdictInv, AcceptCovers, IoCexGenuine, DiffVerdictRight
<1>9. CASE UNCHANGED dvars
  <2>1. UNCHANGED <<job, spec, samples, out, idx, verdict>>
    BY <1>9 DEF dvars
  <2> QED BY <1>0, <2>1, DecidedSame DEF VerdictInv, AcceptCovers, IoCexGenuine, DiffVerdictRight
<1> QED BY <1>1, <1>2, <1>3, <1>4, <1>5, <1>6, <1>7, <1>8, <1>9 DEF VerdictsNext

(* Z3 finds a solution of the query, or the call names no input.           *)
Silent == Exceptions \cup {"unsat", "unknown"}

LEMMA SolvedFacts ==
  ASSUME NEW S, NEW names, Solved(S, names)
  PROVE  \/ \E t \in S : Decide(Verdict(FALSE, 0, t, "sat"))
         \/ \E e \in BOOLEAN : \E why \in Silent : Decide(Verdict(e, 0, NoInput, why))
BY DEF Solved, Raise, Silent, Exceptions

(* The same of an input named in a verdict.                                *)
LEMMA StepCex == VInv /\ [VerdictsNext]_dvars => CexInv'
<1> SUFFICES ASSUME VInv, [VerdictsNext]_dvars PROVE CexInv' OBVIOUS
<1>0. VType /\ RunInv /\ CexInv BY DEF VInv
<1>n. ASSUME verdict'.why \notin {"post_failed", "sat"} PROVE CexInv'
  BY <1>n DEF CexInv, PostFailedInv, SatInv
<1>p. ASSUME phase' # "done" PROVE CexInv'
  <2>1. verdict' = Pending BY <1>p, StepRun DEF RunInv
  <2> QED BY <1>n, <2>1 DEF Pending, Verdict
<1>d. ASSUME NEW e, NEW n, NEW t, NEW why, why \notin {"post_failed", "sat"}, Decide(Verdict(e, n, t, why))
      PROVE  CexInv'
  BY <1>d, <1>n DEF Decide, Verdict
<1>1. CASE SampleBoundary \/ SampleRandom \/ Sampled
  BY <1>p, <1>0, <1>1 DEF SampleBoundary, SampleRandom, Sampled
<1>2. CASE NothingSampled \/ AllPassed
  BY <1>d, <1>2 DEF NothingSampled, AllPassed
<1>3. CASE Link
  <2>1. CASE phase' = "candidate" BY <1>p, <2>1
  <2>2. CASE \E why \in {"candidate_error", "reference_error"} : Decide(Verdict(FALSE, 0, NoInput, why))
    BY <1>d, <2>2
  <2> QED BY <1>3, <2>1, <2>2 DEF Link
<1>4. CASE RunCandidate \/ RunReference
  <2>1. CASE phase' \in {"reference", "comparing"} BY <1>p, <2>1
  <2>2. CASE \E why \in {"crash", "timeout"} : Decide(Verdict(FALSE, 0, NoInput, why))
    BY <1>d, <2>2
  <2> QED BY <1>4, <2>1, <2>2, RunFacts
<1>5. CASE CheckIo
  <2>1. phase = "comparing" /\ job = "io" /\ UNCHANGED <<job, spec, samples, out>> /\ idx < Len(samples)
    BY <1>5, CheckIoFacts
  <2>2. CASE phase' = phase
    BY <1>p, <2>1, <2>2
  <2>3. CASE \E why \in {"missing_output", "parse_error"} : verdict' = Verdict(FALSE, tested, samples[idx + 1], why)
    BY <1>n, <2>3 DEF Verdict
  <2>4. CASE /\ idx + 1 <= Len(out.cand) /\ phase' = "done" /\ IsNumber(out.cand[idx + 1])
             /\ Post(spec, samples[idx + 1], out.cand[idx + 1]) = "false"
             /\ verdict' = Verdict(FALSE, tested + 1, samples[idx + 1], "post_failed")
    <3>1. idx \in Nat /\ idx' = idx
      BY <1>0, <1>5, <2>1, <2>4, CheckFacts DEF VType
    <3>2. samples[idx + 1] \in Inputs(spec)
      BY <1>0, <2>1, <3>1 DEF VType
    <3>3. out.cand[idx + 1] \in OutputsOf(spec)
      <4>1. idx + 1 \in 1..Len(out.cand) BY <1>0, <2>4, <3>1 DEF VType
      <4>2. out.cand[idx + 1] \in LinesOf(spec) BY <1>0, <2>1, <4>1 DEF RunInv
      <4> QED BY <2>4, <4>2 DEF LinesOf, IsNumber
    <3>4. verdict'.cex = samples[idx + 1] /\ verdict'.why = "post_failed"
      BY <2>4 DEF Verdict
    <3> QED BY <2>1, <2>4, <3>1, <3>2, <3>3, <3>4 DEF CexInv, PostFailedInv, SatInv
  <2> QED BY <1>5, <2>2, <2>3, <2>4, CheckIoFacts
<1>6. CASE CheckDiff
  <2>1. \/ phase' = phase
        \/ \E why \in {"missing_output", "output_mismatch"} : Decide(Verdict(FALSE, idx, Input, why))
    <3>1. CASE LineMissing(idx + 1) BY <1>6, <3>1 DEF CheckDiff
    <3>2. CASE ~LineMissing(idx + 1) /\ SameLine(idx + 1) BY <1>6, <3>2 DEF CheckDiff
    <3>3. CASE ~LineMissing(idx + 1) /\ ~SameLine(idx + 1) BY <1>6, <3>3 DEF CheckDiff
    <3> QED BY <3>1, <3>2, <3>3
  <2>2. phase # "done" BY <1>6 DEF CheckDiff
  <2> QED BY <1>d, <1>p, <2>1, <2>2
<1>7. CASE Smt
  <2>1. CASE \E t \in Inputs(spec) : Refutes(t) /\ Decide(Verdict(FALSE, 0, t, "sat")) /\ Executable(cand, spec)
    <3>1. PICK t \in Inputs(spec) : Refutes(t) /\ Decide(Verdict(FALSE, 0, t, "sat")) /\ Executable(cand, spec)
      BY <2>1
    <3>2. verdict'.cex = t /\ verdict'.why = "sat" /\ UNCHANGED <<job, spec, cand>>
      BY <3>1 DEF Decide, Verdict, subject
    <3>3. Refutes(t)'
      BY <3>1, <3>2 DEF Refutes
    <3> QED BY <1>7, <3>1, <3>2, <3>3 DEF Smt, CexInv, PostFailedInv, SatInv
  <2>2. CASE \E e \in BOOLEAN : \E why \in Silent : Decide(Verdict(e, 0, NoInput, why))
    BY <1>d, <2>2 DEF Silent, Exceptions
  <2>3. CASE ~Executable(cand, spec) BY <1>7, <2>2, <2>3 DEF Smt, Raise, Silent, Exceptions
  <2>4. CASE Executable(cand, spec)
    <3> DEFINE S == {t \in Inputs(spec) : Refutes(t)}
    <3>1. Solved(S, OccurringSmt)
      BY <1>7, <2>4 DEF Smt
    <3>2. \/ \E t \in S : Decide(Verdict(FALSE, 0, t, "sat"))
          \/ \E e \in BOOLEAN : \E why \in Silent : Decide(Verdict(e, 0, NoInput, why))
      <4> HIDE DEF S
      <4> QED BY <3>1, SolvedFacts
    <3> QED BY <2>1, <2>2, <2>4, <3>2
  <2> QED BY <2>3, <2>4
<1>8. CASE Prove
  <2>1. CASE \E t \in Inputs(spec) : Differs(t) /\ Decide(Verdict(FALSE, 0, t, "sat")) /\ Comparable(spec, ref)
    <3>1. PICK t \in Inputs(spec) : Differs(t) /\ Decide(Verdict(FALSE, 0, t, "sat")) /\ Comparable(spec, ref)
      BY <2>1
    <3>2. verdict'.cex = t /\ verdict'.why = "sat" /\ UNCHANGED <<job, spec, ref>>
      BY <3>1 DEF Decide, Verdict, subject
    <3>3. Differs(t)'
      BY <3>1, <3>2 DEF Differs
    <3> QED BY <1>8, <3>1, <3>2, <3>3 DEF Prove, CexInv, PostFailedInv, SatInv
  <2>2. CASE \E e \in BOOLEAN : \E why \in Silent : Decide(Verdict(e, 0, NoInput, why))
    BY <1>d, <2>2 DEF Silent, Exceptions
  <2>3. CASE ~Comparable(spec, ref) BY <1>8, <2>2, <2>3 DEF Prove, Raise, Silent, Exceptions
  <2>4. CASE Comparable(spec, ref)
    <3> DEFINE S == {t \in Inputs(spec) : Differs(t)}
    <3>1. Solved(S, OccurringProve)
      BY <1>8, <2>4 DEF Prove
    <3>2. \/ \E t \in S : Decide(Verdict(FALSE, 0, t, "sat"))
          \/ \E e \in BOOLEAN : \E why \in Silent : Decide(Verdict(e, 0, NoInput, why))
      <4> HIDE DEF S
      <4> QED BY <3>1, SolvedFacts
    <3> QED BY <2>1, <2>2, <2>4, <3>2
  <2> QED BY <2>3, <2>4
<1>9. CASE UNCHANGED dvars
  <2>1. UNCHANGED <<job, spec, cand, ref, out, idx, verdict>>
    BY <1>9 DEF dvars
  <2> QED BY <1>0, <2>1 DEF CexInv, PostFailedInv, SatInv, Refutes, Differs
<1> QED BY <1>1, <1>2, <1>3, <1>4, <1>5, <1>6, <1>7, <1>8, <1>9 DEF VerdictsNext

(* A judge starts without samples, lines or verdict.                       *)
LEMMA InitVInv == VerdictsInit => VInv
<1> SUFFICES ASSUME VerdictsInit PROVE VInv OBVIOUS
<1>1. /\ samples = <<>> /\ tried = 0 /\ attempts = 0 /\ idx = 0 /\ tested = 0 /\ verdict = Pending
      /\ out = [cand |-> <<>>, ref |-> <<>>] /\ spec \in Specs /\ cand \in Cands
      /\ phase = IF job \in {"io", "diff"} THEN "sampling" ELSE "linking"
  BY DEF VerdictsInit
<1>2. job \in Jobs /\ (job = "diff" => ref \in Cands) /\ (job = "prove" => ref \in Specs)
  BY VerdictsAssumption DEF VerdictsInit, Jobs
<1>3. phase \in {"sampling", "linking"} /\ (phase = "linking" => job \notin Tests) /\ (phase = "sampling" => job \in Tests)
  BY <1>1, <1>2 DEF Tests
<1>4. VType
  BY <1>1, <1>2, <1>3, VerdictsAssumption DEF VType, Phases
<1>5. SampleInv
  BY <1>1, <1>3, EmptySeq, VerdictsAssumption DEF SampleInv, IsInjective
<1>6. RunInv /\ IoInv /\ DiffInv
  BY <1>1, <1>3 DEF RunInv, IoInv, DiffInv
<1>7. VerdictInv
  BY <1>1 DEF VerdictInv, AcceptCovers, IoCexGenuine, DiffVerdictRight, Pending, Verdict
<1>8. CexInv
  BY <1>1 DEF CexInv, PostFailedInv, SatInv, Pending, Verdict
<1> QED BY <1>4, <1>5, <1>6, <1>7, <1>8 DEF VInv

-----------------------------------------------------------------------------
(* The invariant holds in every state of every judge.                      *)
LEMMA VInvariant == VerdictsSpec => []VInv
<1>1. VInv /\ [VerdictsNext]_dvars => VInv'
  BY StepVType, StepSample, StepRun, StepIo, StepDiff, StepVerdict, StepCex DEF VInv
<1> QED BY InitVInv, <1>1, PTL DEF VerdictsSpec

(* Samples are distinct, admitted by the precondition, and as many as      *)
(* asked for unless every attempt was spent.                               *)
THEOREM SamplesAreRight == VerdictsSpec => []SamplesRight
<1>1. VInv => SamplesRight
  <2> SUFFICES ASSUME VInv PROVE SamplesRight OBVIOUS
  <2>1. SampleInv /\ DOMAIN samples = 1..Len(samples)
    BY LenProperties DEF VInv, VType
  <2> QED BY <2>1 DEF SampleInv, SamplesRight, Tests
<1> QED BY <1>1, VInvariant, PTL

(* verify_io accepts what the interpreter refutes on none of the samples,  *)
(* and counts those it could decide on.                                    *)
THEOREM AcceptedIsCovered == VerdictsSpec => []AcceptCovers
<1>1. VInv => AcceptCovers BY DEF VInv, VerdictInv
<1> QED BY <1>1, VInvariant, PTL

(* The input verify_io rejects by is refuted by the line printed for it,   *)
(* and is the first that is.                                               *)
THEOREM RejectedIsRefuted == VerdictsSpec => []IoCexGenuine
<1>1. VInv => IoCexGenuine BY DEF VInv, VerdictInv
<1> QED BY <1>1, VInvariant, PTL

(* differential_test passes a candidate that printed what the reference    *)
(* did, and names an input where it did not.                               *)
THEOREM DifferenceIsReal == VerdictsSpec => []DiffVerdictRight
<1>1. VInv => DiffVerdictRight BY DEF VInv, VerdictInv
<1> QED BY <1>1, VInvariant, PTL

(* A query whose conditions hold and whose formula does not.               *)
LEMMA ReadingMissed == ASSUME NEW p \in Reading, p.ok, ~p.v PROVE p = Missed
  BY DEF Reading, Missed

(* What a formula means to Z3 is two truth values.                         *)
LEMMA ReadingTyped == ASSUME NEW f \in Formulas, NEW e \in Envs PROVE FormulaZ3(f, e) \in Reading
  BY QueryMeans DEF MeansQuery

(* An input by which testing refutes a candidate is one that refutes the   *)
(* query of Z3, where no condition of the query excludes it: no candidate  *)
(* is then proved that testing has refuted (src/eval/verify_io.py:115-146, *)
(* src/eval/verify_smt.py:350-397).                                        *)
THEOREM RefutedIsRefutedByBoth == VerdictsSpec => []RefutedByBoth
<1>1. VInv => RefutedByBoth
  <2> DEFINE t == verdict.cex
             o == out.cand[idx + 1]
             e == OutEnv(spec, t, o)
             post == FormulaZ3(SpecOf(spec).post, e)
  <2> SUFFICES ASSUME VInv, job = "io", verdict.why = "post_failed",
                      Sym(cand, spec, t) = o, PreZ3(spec, t, o) = Met, PostZ3(spec, t, o).ok,
                      SettledWhereDefined(SpecOf(spec).post, e)
               PROVE  Refutes(t)
    BY DEF RefutedByBoth
  <2>1. spec \in Specs /\ t \in Inputs(spec) /\ o \in OutputsOf(spec) /\ Post(spec, t, o) = "false"
    BY DEF VInv, VType, CexInv, PostFailedInv
  <2>2. e \in Envs /\ SpecOf(spec).post \in Formulas
    BY <2>1, SpecParts, EnvTyped
  <2>3. EvalFormula(SpecOf(spec).post, e) = "false"
    BY <2>1 DEF Post
  <2>4. PostZ3(spec, t, o) = post
    BY DEF PostZ3
  <2> HIDE DEF e, t, o
  <2>5. post.ok /\ ~post.v
    BY <2>2, <2>3, <2>4, FormulasAgree DEF Raised, Truth
  <2>6. post \in Reading
    BY <2>2, ReadingTyped
  <2> HIDE DEF post
  <2>7. post = Missed
    BY <2>5, <2>6, ReadingMissed
  <2> QED BY <2>4, <2>7 DEF Refutes
<1> QED BY <1>1, VInvariant, PTL

(* A counterexample Z3 finds is one for the interpreter, where no          *)
(* quantifier is settled by a value at which an operation is undefined: it *)
(* meets the precondition and its output fails; two specs told apart have  *)
(* values that differ (src/eval/verify_smt.py:350-459).                    *)
THEOREM SmtCexIsGenuine == VerdictsSpec => []SmtCexGenuine
<1>1. ASSUME NEW e \in Envs, NEW f \in Formulas,
             FormulaZ3(f, e).ok, SettledWhereDefined(f, e)
      PROVE  /\ FormulaZ3(f, e).v => EvalFormula(f, e) # "false"
             /\ ~FormulaZ3(f, e).v => EvalFormula(f, e) # "true"
  BY <1>1, FormulasAgree DEF Raised, Truth
<1>2. VInv => SmtCexGenuine
  <2> SUFFICES ASSUME VInv, verdict.why = "sat" PROVE SmtCexGenuine
    BY DEF SmtCexGenuine
  <2> DEFINE t == verdict.cex
  <2>1. spec \in Specs /\ t \in Inputs(spec) /\ job \in {"smt", "prove"} /\ cand \in Cands
    BY DEF VInv, VType, CexInv, SatInv
  <2>2. CASE job = "smt"
    <3> DEFINE o == Sym(cand, spec, t)
               e == OutEnv(spec, t, o)
               pre == FormulaZ3(SpecOf(spec).pre, e)
               post == FormulaZ3(SpecOf(spec).post, e)
    <3>1. Executable(cand, spec) /\ Refutes(t)
      BY <2>2 DEF VInv, CexInv, SatInv
    <3>2. o \in OutputsOf(spec)
      BY <2>1, <3>1, VerdictsAssumption
    <3>3. e \in Envs /\ SpecOf(spec).pre \in Formulas /\ SpecOf(spec).post \in Formulas
      BY <2>1, <3>2, SpecParts, EnvTyped
    <3>4. pre.v /\ pre.ok /\ post.ok /\ ~post.v
      BY <3>1 DEF Refutes, PreZ3, PostZ3, Met, Missed
    <3>5. EvalFormula(SpecOf(spec).pre, e) = Pre(spec, t)
      BY <2>1, <3>2, VerdictsAssumption
    <3>6. EvalFormula(SpecOf(spec).post, e) = Post(spec, t, o)
      BY DEF Post
    <3> HIDE DEF e, o, t
    <3>7. SettledWhereDefined(SpecOf(spec).pre, e) => Pre(spec, t) # "false"
      BY <1>1, <2>1, <3>3, <3>4, <3>5
    <3>8. SettledWhereDefined(SpecOf(spec).post, e) => Post(spec, t, o) # "true"
      BY <1>1, <2>1, <3>3, <3>4, <3>6
    <3> QED BY <2>2, <3>7, <3>8 DEF SmtCexGenuine, e, o, t
  <2>3. CASE job = "prove"
    <3> DEFINE a == FormulaZ3(SpecOf(spec).pre, Env(spec, t))
               b == FormulaZ3(SpecOf(ref).pre, Env(ref, t))
               x == TermZ3(SpecOf(spec).post.rhs, Env(spec, t))
               y == TermZ3(SpecOf(ref).post.rhs, Env(ref, t))
    <3>1. Comparable(spec, ref) /\ Differs(t) /\ ref \in Specs
      BY <2>3 DEF VInv, VType, CexInv, SatInv
    <3>2. t \in Inputs(ref) /\ Functional(spec) /\ Functional(ref)
      BY <2>1, <3>1, InputsByType DEF Comparable
    <3>3. Env(spec, t) \in Envs /\ Env(ref, t) \in Envs
      BY <2>1, <3>1, <3>2, EnvTyped
    <3>4. SpecOf(spec).pre \in Formulas /\ SpecOf(ref).pre \in Formulas
      BY <2>1, <3>1, SpecParts
    <3>5. SpecOf(spec).post.rhs \in Terms /\ SpecOf(ref).post.rhs \in Terms
      BY <2>1, <3>1, <3>2, BodyIsTerm
    <3>6. a.v /\ a.ok /\ x.ok /\ b.v /\ b.ok /\ y.ok /\ x.v # y.v
      BY <3>1 DEF Differs, BodyZ3, Met
    <3>7. Body(spec, t) = x.v /\ Body(spec, t) # UB /\ Body(ref, t) = y.v /\ Body(ref, t) # UB
      BY <3>3, <3>5, <3>6, TermsAgree DEF Body
    <3>8. SettledWhereDefined(SpecOf(spec).pre, Env(spec, t)) => Pre(spec, t) # "false"
      BY <1>1, <2>1, <3>3, <3>4, <3>6 DEF Pre
    <3>9. SettledWhereDefined(SpecOf(ref).pre, Env(ref, t)) => Pre(ref, t) # "false"
      BY <1>1, <3>1, <3>2, <3>3, <3>4, <3>6 DEF Pre
    <3>10. Body(spec, t) # Body(ref, t) /\ UB \notin {Body(spec, t), Body(ref, t)}
      BY <3>6, <3>7
    <3> HIDE DEF t
    <3> QED BY <2>3, <3>8, <3>9, <3>10 DEF SmtCexGenuine, t
  <2> QED BY <2>1, <2>2, <2>3
<1> QED BY <1>2, VInvariant, PTL
=============================================================================
