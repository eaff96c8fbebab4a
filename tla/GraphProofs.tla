----------------------------- MODULE GraphProofs -----------------------------
(***************************************************************************)
(* Theorems about the two sources of a compute graph.  First ast_to_graph  *)
(* and evaluate_graph, for every set of expressions, however deep, every   *)
(* list of inputs and every table of arithmetic; the recursive definitions *)
(* are over expressions, so the proofs go by induction on the depth.  Then *)
(* generate(), for every vocabulary, every number of steps and every       *)
(* choice of the heads.                                                    *)
(***************************************************************************)
EXTENDS AstToGraph, GraphGen, OrderProofs

WordOrUB == Word \cup {UB}

(* The arguments an expression or a node is entitled to.                   *)
LEMMA Arities ==
  /\ \A op \in ArithOps \cup BitOps : ARITY[op] = 2
  /\ \A op \in UnOps \cup {"return"} : ARITY[op] = 1
  /\ ARITY["select"] = 3 /\ ARITY["const"] = 0
  BY DEF ARITY, NodeOps, ArithOps, BitOps, UnOps

LEMMA Kinds ==
  /\ \A op \in ArithOps \cup BitOps : op \notin UnOps /\ op # "select" /\ op # "const"
  /\ \A op \in UnOps : op # "select" /\ op # "const"
  /\ \A op \in ExprOps : op \in NodeOps \ {"return", "const"}
  /\ NodeOps \cap Conversions = {} /\ "select" \in ExprOps /\ "const" \in NodeOps
  BY DEF ExprOps, NodeOps, Conversions, ArithOps, BitOps, UnOps

(* Operations yield words, or nothing.                                     *)
LEMMA ValueTypes ==
  /\ ZeroWord \in Word
  /\ \A op \in ArithOps \cup BitOps : \A a, b \in WordOrUB : BinValue(op, a, b) \in WordOrUB
  /\ \A op \in UnOps : \A a \in WordOrUB : UnValue(op, a) \in WordOrUB
  /\ \A c, t, f \in WordOrUB : SelectValue(c, t, f) \in WordOrUB
<1>1. ZeroWord \in Word
  BY DEF ZeroWord, Word, Bit
<1>2. \A a, b \in Word : AndBits(a, b) \in Word /\ OrBits(a, b) \in Word /\ XorBits(a, b) \in Word
  BY DEF Word, Bit, AndBits, OrBits, XorBits
<1>3. \A a \in Word : NotBits(a) \in Word
  BY DEF Word, Bit, NotBits
<1>4. \A op \in ArithOps : \A a, b \in Word : Arith(op, a, b) \in Word
  BY ExprAssumption
<1>5. ASSUME NEW op \in ArithOps \cup BitOps, NEW a \in WordOrUB, NEW b \in WordOrUB
      PROVE  BinValue(op, a, b) \in WordOrUB
  <2>1. CASE a = UB \/ b = UB
    BY <2>1 DEF BinValue, WordOrUB
  <2>2. CASE a # UB /\ b # UB
    <3>1. a \in Word /\ b \in Word
      BY <2>2 DEF WordOrUB
    <3>2. CASE op \in ArithOps
      BY <1>4, <2>2, <3>1, <3>2 DEF BinValue, WordOrUB, ArithOps
    <3>3. CASE op \in BitOps
      BY <1>2, <2>2, <3>1, <3>3 DEF BinValue, WordOrUB, BitOps, ArithOps
    <3> QED BY <3>2, <3>3
  <2> QED BY <2>1, <2>2
<1>6. ASSUME NEW op \in UnOps, NEW a \in WordOrUB PROVE UnValue(op, a) \in WordOrUB
  <2>1. "sub" \in ArithOps
    BY DEF ArithOps
  <2> QED BY <1>1, <1>3, <1>4, <2>1 DEF UnValue, WordOrUB, UnOps
<1>7. \A c, t, f \in WordOrUB : SelectValue(c, t, f) \in WordOrUB
  BY DEF SelectValue, WordOrUB
<1> QED BY <1>1, <1>5, <1>6, <1>7

-----------------------------------------------------------------------------
(* Depth, as a function; the recursive definitions descend along it.       *)
Depth == [e \in Exprs |-> Height(e)]

LEMMA DepthFacts ==
  /\ Depth \in [Exprs -> Nat]
  /\ \A e \in Exprs : \A i \in 1..Len(e.args) : e.args[i] \in Exprs /\ Depth[e.args[i]] < Depth[e]
  BY ExprAssumption DEF Depth

(* An expression is supported if its operation is and its subexpressions   *)
(* are (ast_to_graph's emit).                                              *)
LEMMA SupportedMeans ==
  \A e \in Exprs :
    /\ Supported(e) \in BOOLEAN
    /\ e.kind = "var" => (Supported(e) <=> IsParam(e.name))
    /\ e.kind = "op"  => (Supported(e) <=> e.op \in NodeOps /\ \A i \in 1..Len(e.args) : Supported(e.args[i]))
<1> DEFINE G == [p \in Exprs \X [Exprs -> BOOLEAN] |-> SupportedIf(p[1], p[2])]
           IsTable(S) == S = [x \in Exprs |-> SupportedIf(x, S)]
           T == CHOOSE S : IsTable(S)
<1>1. \A x \in Exprs : \A S \in [Exprs -> BOOLEAN] : SupportedIf(x, S) \in BOOLEAN
  BY ExprAssumption DEF SupportedIf, IsParam
<1>2. G \in [Exprs \X [Exprs -> BOOLEAN] -> BOOLEAN]
  BY <1>1
<1>3. \A x \in Exprs : \A U, V \in [Exprs -> BOOLEAN] :
        (\A y \in Exprs : Depth[y] < Depth[x] => U[y] = V[y]) => G[<<x, U>>] = G[<<x, V>>]
  <2> SUFFICES ASSUME NEW x \in Exprs, NEW U \in [Exprs -> BOOLEAN], NEW V \in [Exprs -> BOOLEAN],
                      \A y \in Exprs : Depth[y] < Depth[x] => U[y] = V[y]
               PROVE  G[<<x, U>>] = G[<<x, V>>]
    OBVIOUS
  <2>1. \A i \in 1..Len(x.args) : U[x.args[i]] = V[x.args[i]]
    BY DepthFacts
  <2>2. SupportedIf(x, U) = SupportedIf(x, V)
    BY <2>1, ExprAssumption DEF SupportedIf
  <2> QED BY <2>2
<1>4. \A x \in Exprs : \A S \in [Exprs -> BOOLEAN] : G[<<x, S>>] = SupportedIf(x, S)
  OBVIOUS
<1> HIDE DEF G
<1>5. Descends(Exprs, BOOLEAN, Depth, G)
  BY <1>2, <1>3, DepthFacts DEF Descends
<1>6. PICK S : Solves(S, Exprs, BOOLEAN, G)
  BY <1>5, Recursion
<1>7. IsTable(S)
  BY <1>4, <1>6 DEF Solves
<1>8. IsTable(T)
  BY <1>7
<1>9. \A e : Supported(e) = T[e]
  BY DEF Supported
<1> HIDE DEF T
<1>10. \A x \in Exprs : T[x] = SupportedIf(x, T)
  BY <1>8
<1>11. \A x \in Exprs : T[x] \in BOOLEAN
  BY <1>10, ExprAssumption DEF SupportedIf, IsParam
<1> QED BY <1>9, <1>10, <1>11, DepthFacts DEF SupportedIf

LEMMA SupportableParts ==
  ASSUME NEW e \in Supportable
  PROVE  /\ e \in Exprs /\ e.val \in Word
         /\ e.kind \in {"var", "const", "op"}
         /\ e.kind = "var" => ParamOf(e.name) \in 1..Len(Params)
         /\ e.kind = "op" =>
              /\ e.op \in ExprOps /\ Len(e.args) = ARITY[e.op]
              /\ \A i \in 1..ARITY[e.op] : e.args[i] \in Supportable /\ Depth[e.args[i]] < Depth[e]
<1>1. e \in Exprs /\ Supported(e)
  BY DEF Supportable
<1>2. e.kind = "op" => e.op \in ExprOps
  BY <1>1, SupportedMeans, ExprAssumption, Kinds
<1>3. ASSUME e.kind = "var" PROVE ParamOf(e.name) \in 1..Len(Params)
  <2>1. IsParam(e.name)
    BY <1>1, <1>3, SupportedMeans
  <2> DEFINE At == {i \in 1..Len(Params) : Params[i] = e.name}
             From == {Len(Params) - i : i \in At}
  <2>2. Len(Params) \in Nat
    BY ExprAssumption, LenProperties
  <2>3. From \in SUBSET Nat /\ From # {}
    BY <2>1, <2>2 DEF IsParam
  <2>4. PICK r \in From : \A q \in From : r <= q
    BY <2>3, LeastElement
  <2>5. PICK i \in At : r = Len(Params) - i
    BY <2>4
  <2>6. \A j \in i+1..Len(Params) : Params[j] # e.name
    <3>1. ASSUME NEW j \in i+1..Len(Params), Params[j] = e.name PROVE FALSE
      <4>1. j \in At
        BY <2>2, <2>5, <3>1
      <4>2. Len(Params) - j \in From
        BY <4>1
      <4>3. Len(Params) - i <= Len(Params) - j
        BY <2>4, <2>5, <4>2
      <4>4. i \in Nat /\ j \in Nat /\ i + 1 <= j
        BY <2>2, <2>5
      <4> QED BY <2>2, <4>3, <4>4
    <3> QED BY <3>1
  <2> QED BY <2>5, <2>6 DEF ParamOf
<1> QED BY <1>1, <1>2, <1>3, SupportedMeans, ExprAssumption, DepthFacts DEF Supportable

-----------------------------------------------------------------------------
(* The value of an expression is that of its operation on the values of    *)
(* its parts (interpreter._eval_expr).                                     *)
InputOK == input \in [0..Len(Params)-1 -> Word]

LEMMA ValueCases ==
  ASSUME NEW e \in Supportable, NEW V
  PROVE  /\ e.kind = "var"   => ValueWith(e, V) = input[ParamOf(e.name) - 1]
         /\ e.kind = "const" => ValueWith(e, V) = e.val
         /\ e.kind = "op" /\ e.op \in ArithOps \cup BitOps =>
              ValueWith(e, V) = BinValue(e.op, V[e.args[1]], V[e.args[2]])
         /\ e.kind = "op" /\ e.op \in UnOps => ValueWith(e, V) = UnValue(e.op, V[e.args[1]])
         /\ e.kind = "op" /\ e.op = "select" =>
              ValueWith(e, V) = SelectValue(V[e.args[1]], V[e.args[2]], V[e.args[3]])
<1>1. CASE e.kind = "var"
  BY <1>1 DEF ValueWith
<1>2. CASE e.kind = "const"
  BY <1>2 DEF ValueWith
<1>3. CASE e.kind = "op" /\ e.op \in ArithOps \cup BitOps
  BY <1>3, Kinds DEF ValueWith
<1>4. CASE e.kind = "op" /\ e.op \in UnOps
  BY <1>4, Kinds DEF ValueWith
<1>5. CASE e.kind = "op" /\ e.op = "select"
  BY <1>5, Kinds DEF ValueWith, SelectValue
<1> QED BY <1>1, <1>2, <1>3, <1>4, <1>5, SupportableParts DEF ExprOps

DepthOf == [e \in Supportable |-> Depth[e]]

(* How many subexpressions there are, and that they come lower.            *)
LEMMA Subexpressions ==
  /\ DepthOf \in [Supportable -> Nat]
  /\ \A e \in Supportable : e.kind = "op" =>
            /\ e.args[1] \in Supportable /\ DepthOf[e.args[1]] < DepthOf[e]
            /\ e.op \notin UnOps => e.args[2] \in Supportable /\ DepthOf[e.args[2]] < DepthOf[e]
            /\ e.op = "select" => e.args[3] \in Supportable /\ DepthOf[e.args[3]] < DepthOf[e]
<1>1. DepthOf \in [Supportable -> Nat]
  BY SupportableParts, DepthFacts DEF DepthOf
<1>2. ASSUME NEW e \in Supportable, e.kind = "op"
      PROVE  /\ e.args[1] \in Supportable /\ DepthOf[e.args[1]] < DepthOf[e]
             /\ e.op \notin UnOps => e.args[2] \in Supportable /\ DepthOf[e.args[2]] < DepthOf[e]
             /\ e.op = "select" => e.args[3] \in Supportable /\ DepthOf[e.args[3]] < DepthOf[e]
  <2>1. /\ e.op \in ExprOps
        /\ \A i \in 1..ARITY[e.op] : e.args[i] \in Supportable /\ Depth[e.args[i]] < Depth[e]
    BY <1>2, SupportableParts
  <2>2. /\ 1 \in 1..ARITY[e.op]
        /\ e.op \notin UnOps => 2 \in 1..ARITY[e.op]
        /\ e.op = "select" => 3 \in 1..ARITY[e.op]
    BY <2>1, Arities, Kinds DEF ExprOps
  <2> QED BY <2>1, <2>2 DEF DepthOf
<1> QED BY <1>1, <1>2

LEMMA EvalMeans ==
  ASSUME InputOK, NEW e \in Supportable
  PROVE  /\ EvalExpr(e) \in WordOrUB
         /\ e.kind = "var"   => EvalExpr(e) = input[ParamOf(e.name) - 1]
         /\ e.kind = "const" => EvalExpr(e) = e.val
         /\ e.kind = "op" /\ e.op \in ArithOps \cup BitOps =>
              EvalExpr(e) = BinValue(e.op, EvalExpr(e.args[1]), EvalExpr(e.args[2]))
         /\ e.kind = "op" /\ e.op \in UnOps => EvalExpr(e) = UnValue(e.op, EvalExpr(e.args[1]))
         /\ e.kind = "op" /\ e.op = "select" =>
              EvalExpr(e) = SelectValue(EvalExpr(e.args[1]), EvalExpr(e.args[2]), EvalExpr(e.args[3]))
<1> DEFINE F == [Supportable -> WordOrUB]
           G == [p \in Supportable \X F |-> ValueWith(p[1], p[2])]
           IsTable(V) == V = [x \in Supportable |-> ValueWith(x, V)]
           T == CHOOSE V : IsTable(V)
<1>1. ASSUME NEW x \in Supportable, NEW V, \A y \in Supportable : DepthOf[y] < DepthOf[x] => V[y] \in WordOrUB
      PROVE  ValueWith(x, V) \in WordOrUB
  <2>1. CASE x.kind = "var"
    <3>1. ParamOf(x.name) - 1 \in 0..Len(Params)-1
      BY <2>1, SupportableParts, ExprAssumption, LenProperties
    <3> QED BY <2>1, <3>1, ValueCases DEF InputOK, WordOrUB
  <2>2. CASE x.kind = "const"
    BY <2>2, ValueCases, SupportableParts DEF WordOrUB
  <2>3. CASE x.kind = "op"
    <3>1. x.op \in ExprOps
      BY <2>3, SupportableParts
    <3>2. CASE x.op \in ArithOps \cup BitOps
      BY <1>1, <2>3, <3>2, ValueCases, ValueTypes, Subexpressions, Kinds
    <3>3. CASE x.op \in UnOps
      BY <1>1, <2>3, <3>3, ValueCases, ValueTypes, Subexpressions
    <3>4. CASE x.op = "select"
      BY <1>1, <2>3, <3>4, ValueCases, ValueTypes, Subexpressions, Kinds
    <3> QED BY <3>1, <3>2, <3>3, <3>4 DEF ExprOps
  <2> QED BY <2>1, <2>2, <2>3, SupportableParts
<1>2. G \in [Supportable \X F -> WordOrUB]
  BY <1>1
<1>3. \A x \in Supportable : \A U, V \in F :
        (\A y \in Supportable : DepthOf[y] < DepthOf[x] => U[y] = V[y]) => G[<<x, U>>] = G[<<x, V>>]
  <2> SUFFICES ASSUME NEW x \in Supportable, NEW U \in F, NEW V \in F,
                      \A y \in Supportable : DepthOf[y] < DepthOf[x] => U[y] = V[y]
               PROVE  ValueWith(x, U) = ValueWith(x, V)
    OBVIOUS
  <2>1. CASE x.kind # "op"
    BY <2>1, ValueCases, SupportableParts
  <2>2. CASE x.kind = "op" /\ x.op \in ArithOps \cup BitOps
    BY <2>2, ValueCases, Subexpressions, Kinds
  <2>3. CASE x.kind = "op" /\ x.op \in UnOps
    BY <2>3, ValueCases, Subexpressions
  <2>4. CASE x.kind = "op" /\ x.op = "select"
    BY <2>4, ValueCases, Subexpressions, Kinds
  <2> QED BY <2>1, <2>2, <2>3, <2>4, SupportableParts DEF ExprOps
<1>4. \A x \in Supportable : \A V \in F : G[<<x, V>>] = ValueWith(x, V)
  OBVIOUS
<1> HIDE DEF G
<1>5. Descends(Supportable, WordOrUB, DepthOf, G)
  BY <1>2, <1>3, Subexpressions, ValueTypes DEF Descends, WordOrUB
<1>6. PICK V : Solves(V, Supportable, WordOrUB, G)
  BY <1>5, Recursion
<1>7. IsTable(V)
  BY <1>4, <1>6 DEF Solves
<1>8. IsTable(T)
  BY <1>7
<1>9. \A x : EvalExpr(x) = T[x]
  BY DEF EvalExpr
<1> HIDE DEF T
<1>10. T[e] = ValueWith(e, T)
  BY <1>8
<1>11. T[e] \in WordOrUB
  <2> DEFINE S == {x \in Supportable : T[x] \in WordOrUB}
  <2>1. \A x \in Supportable : (\A y \in Supportable : DepthOf[y] < DepthOf[x] => y \in S) => x \in S
    BY <1>1, <1>8
  <2> HIDE DEF S
  <2>2. Supportable \subseteq S
    BY <2>1, Subexpressions, RankInduction
  <2> QED BY <2>2 DEF S
<1> QED BY <1>9, <1>10, <1>11, ValueCases

-----------------------------------------------------------------------------
(* What ast_to_graph's emit does with each kind of expression.             *)
Emission == [nodes : Seq(GraphNode), ref : Nat]

First(e, ns, E)  == E[e.args[1]][ns]
Second(e, ns, E) == E[e.args[2]][First(e, ns, E).nodes]
Third(e, ns, E)  == E[e.args[3]][Second(e, ns, E).nodes]

Unary(op, a)        == PushNode(a.nodes, op, <<a.ref>>, ZeroWord)
Binary(op, a, b)    == PushNode(b.nodes, op, <<a.ref, b.ref>>, ZeroWord)
Ternary(op, a, b, c) == PushNode(c.nodes, op, <<a.ref, b.ref, c.ref>>, ZeroWord)

LEMMA EmitCases ==
  ASSUME NEW e \in Supportable, NEW ns, NEW E
  PROVE  /\ e.kind = "var"   => EmitWith(e, ns, E) = Emitted(ns, ParamOf(e.name) - 1)
         /\ e.kind = "const" => EmitWith(e, ns, E) = PushNode(ns, "const", <<>>, e.val)
         /\ e.kind = "op" /\ e.op \in UnOps => EmitWith(e, ns, E) = Unary(e.op, First(e, ns, E))
         /\ e.kind = "op" /\ e.op \in ArithOps \cup BitOps =>
              EmitWith(e, ns, E) = Binary(e.op, First(e, ns, E), Second(e, ns, E))
         /\ e.kind = "op" /\ e.op = "select" =>
              EmitWith(e, ns, E) = Ternary(e.op, First(e, ns, E), Second(e, ns, E), Third(e, ns, E))
<1>1. CASE e.kind = "var"
  BY <1>1 DEF EmitWith
<1>2. CASE e.kind = "const"
  BY <1>2 DEF EmitWith
<1>3. CASE e.kind = "op" /\ e.op \in UnOps
  BY <1>3, Kinds DEF EmitWith, First, Unary
<1>4. CASE e.kind = "op" /\ e.op \in ArithOps \cup BitOps
  BY <1>4, Kinds DEF EmitWith, First, Second, Binary
<1>5. CASE e.kind = "op" /\ e.op = "select"
  BY <1>5, Kinds DEF EmitWith, First, Second, Third, Ternary
<1> QED BY <1>1, <1>2, <1>3, <1>4, <1>5, SupportableParts DEF ExprOps

LEMMA PushTypes ==
  ASSUME NEW ns \in Seq(GraphNode), NEW op \in NodeOps, NEW refs \in Seq(Nat), NEW v \in Word
  PROVE  PushNode(ns, op, refs, v) \in Emission
<1>1. MkNode(op, refs, v) \in GraphNode
  BY DEF MkNode, GraphNode
<1>2. Append(ns, MkNode(op, refs, v)) \in Seq(GraphNode) /\ Len(ns) \in Nat /\ Len(Params) \in Nat
  BY <1>1, ExprAssumption, AppendProperties, LenProperties
<1> QED BY <1>2 DEF PushNode, Emitted, Emission

LEMMA EmitTypes ==
  ASSUME NEW e \in Supportable, NEW ns \in Seq(GraphNode), NEW E,
         \A y \in Supportable : DepthOf[y] < DepthOf[e] => E[y] \in [Seq(GraphNode) -> Emission]
  PROVE  EmitWith(e, ns, E) \in Emission
<1> DEFINE a == First(e, ns, E)
           b == Second(e, ns, E)
           c == Third(e, ns, E)
<1>1. CASE e.kind = "var"
  <2>1. ParamOf(e.name) - 1 \in Nat
    BY <1>1, SupportableParts, ExprAssumption, LenProperties
  <2> QED BY <1>1, <2>1, EmitCases DEF Emitted, Emission
<1>2. CASE e.kind = "const"
  <2>1. <<>> \in Seq(Nat) /\ "const" \in NodeOps
    BY Kinds
  <2> QED BY <1>2, <2>1, PushTypes, EmitCases, SupportableParts
<1>3. CASE e.kind = "op"
  <2>1. e.op \in NodeOps /\ ZeroWord \in Word /\ "select" \in NodeOps
    BY <1>3, SupportableParts, Kinds, ValueTypes
  <2>2. a \in Emission
    BY <1>3, Subexpressions DEF First
  <2>3. a.nodes \in Seq(GraphNode) /\ a.ref \in Nat
    BY <2>2 DEF Emission
  <2>4. CASE e.op \in UnOps
    <3>1. EmitWith(e, ns, E) = PushNode(a.nodes, e.op, <<a.ref>>, ZeroWord)
      BY <1>3, <2>4, EmitCases DEF Unary
    <3>2. <<a.ref>> \in Seq(Nat)
      BY <2>3
    <3> QED BY <2>1, <2>3, <3>1, <3>2, PushTypes
  <2>5. CASE e.op \notin UnOps
    <3>1. b \in Emission
      BY <1>3, <2>3, <2>5, Subexpressions DEF Second
    <3>2. b.nodes \in Seq(GraphNode) /\ b.ref \in Nat
      BY <3>1 DEF Emission
    <3>3. CASE e.op \in ArithOps \cup BitOps
      <4>1. EmitWith(e, ns, E) = PushNode(b.nodes, e.op, <<a.ref, b.ref>>, ZeroWord)
        BY <1>3, <3>3, EmitCases DEF Binary
      <4>2. <<a.ref, b.ref>> \in Seq(Nat)
        BY <2>3, <3>2
      <4> QED BY <2>1, <3>2, <4>1, <4>2, PushTypes
    <3>4. CASE e.op = "select"
      <4>1. EmitWith(e, ns, E) = PushNode(c.nodes, e.op, <<a.ref, b.ref, c.ref>>, ZeroWord)
        BY <1>3, <3>4, EmitCases DEF Ternary
      <4>2. c \in Emission
        BY <1>3, <3>2, <3>4, Subexpressions DEF Third
      <4>3. c.nodes \in Seq(GraphNode) /\ c.ref \in Nat
        BY <4>2 DEF Emission
      <4>4. <<a.ref, b.ref, c.ref>> \in Seq(Nat)
        BY <2>3, <3>2, <4>3
      <4> QED BY <2>1, <4>1, <4>3, <4>4, PushTypes
    <3> QED BY <1>3, <2>5, <3>3, <3>4, SupportableParts DEF ExprOps
  <2> QED BY <2>4, <2>5
<1> QED BY <1>1, <1>2, <1>3, SupportableParts

(* emit looks at what it emits for subexpressions only.                    *)
LEMMA EmitDepends ==
  ASSUME NEW e \in Supportable, NEW ns, NEW U, NEW V,
         \A y \in Supportable : DepthOf[y] < DepthOf[e] => U[y] = V[y]
  PROVE  EmitWith(e, ns, U) = EmitWith(e, ns, V)
<1>1. CASE e.kind # "op"
  BY <1>1, EmitCases, SupportableParts
<1>2. CASE e.kind = "op" /\ e.op \in UnOps
  <2>1. U[e.args[1]] = V[e.args[1]]
    BY <1>2, Subexpressions
  <2> QED BY <1>2, <2>1, EmitCases DEF First
<1>3. CASE e.kind = "op" /\ e.op \in ArithOps \cup BitOps
  <2>1. U[e.args[1]] = V[e.args[1]] /\ U[e.args[2]] = V[e.args[2]]
    BY <1>3, Subexpressions, Kinds
  <2>2. First(e, ns, U) = First(e, ns, V)
    BY <2>1, Zenon DEF First
  <2>3. Second(e, ns, U) = Second(e, ns, V)
    BY <2>1, <2>2, Zenon DEF Second
  <2> QED BY <1>3, <2>2, <2>3, EmitCases
<1>4. CASE e.kind = "op" /\ e.op = "select"
  <2>1. U[e.args[1]] = V[e.args[1]] /\ U[e.args[2]] = V[e.args[2]] /\ U[e.args[3]] = V[e.args[3]]
    BY <1>4, Subexpressions, Kinds
  <2>2. First(e, ns, U) = First(e, ns, V)
    BY <2>1, Zenon DEF First
  <2>3. Second(e, ns, U) = Second(e, ns, V)
    BY <2>1, <2>2, Zenon DEF Second
  <2>4. Third(e, ns, U) = Third(e, ns, V)
    BY <2>1, <2>3, Zenon DEF Third
  <2> QED BY <1>4, <2>2, <2>3, <2>4, EmitCases
<1> QED BY <1>1, <1>2, <1>3, <1>4, SupportableParts DEF ExprOps

(* Emit satisfies its recursive definition.                                *)
EmitTable == CHOOSE E : E = [x \in Supportable |-> [ns \in Seq(GraphNode) |-> EmitWith(x, ns, E)]]

LEMMA EmitIsTable == \A e, nodes : Emit(e, nodes) = EmitTable[e][nodes]
  BY DEF Emit, EmitTable

LEMMA EmitMeans ==
  ASSUME NEW e \in Supportable, NEW nodes \in Seq(GraphNode)
  PROVE  Emit(e, nodes) \in Emission /\ Emit(e, nodes) = EmitWith(e, nodes, EmitTable)
<1> DEFINE R == [Seq(GraphNode) -> Emission]
           F == [Supportable -> R]
           Row(x, E) == [ns \in Seq(GraphNode) |-> EmitWith(x, ns, E)]
           G == [p \in Supportable \X F |-> Row(p[1], p[2])]
           IsTable(E) == E = [x \in Supportable |-> Row(x, E)]
<1>1. ASSUME NEW x \in Supportable, NEW E, \A y \in Supportable : DepthOf[y] < DepthOf[x] => E[y] \in R
      PROVE  Row(x, E) \in R
  <2>1. \A ns \in Seq(GraphNode) : EmitWith(x, ns, E) \in Emission
    BY <1>1, EmitTypes
  <2> QED BY <2>1
<1>2. ASSUME NEW x \in Supportable, NEW U, NEW V, \A y \in Supportable : DepthOf[y] < DepthOf[x] => U[y] = V[y]
      PROVE  Row(x, U) = Row(x, V)
  <2>1. \A ns \in Seq(GraphNode) : EmitWith(x, ns, U) = EmitWith(x, ns, V)
    BY <1>2, EmitDepends
  <2> QED BY <2>1
<1>3. R # {}
  <2>1. [nodes |-> <<>>, ref |-> 0] \in Emission
    BY EmptySeq DEF Emission
  <2>2. [ns \in Seq(GraphNode) |-> [nodes |-> <<>>, ref |-> 0]] \in R
    BY <2>1
  <2> QED BY <2>2
<1>4. EmitTable = CHOOSE E : IsTable(E)
  BY DEF EmitTable
<1>5. \A x \in Supportable : \A ns \in Seq(GraphNode) : \A E : Row(x, E)[ns] = EmitWith(x, ns, E)
  OBVIOUS
<1>6. \A x \in Supportable : \A E \in F : G[<<x, E>>] = Row(x, E)
  OBVIOUS
<1>7. G \in [Supportable \X F -> R]
  <2>1. \A x \in Supportable : \A E \in F : Row(x, E) \in R
    BY <1>1
  <2> HIDE DEF Row, R
  <2> QED BY <2>1
<1> HIDE DEF G, Row, R
<1>8. Descends(Supportable, R, DepthOf, G)
  <2>1. ASSUME NEW x \in Supportable, NEW U \in F, NEW V \in F,
               \A y \in Supportable : DepthOf[y] < DepthOf[x] => U[y] = V[y]
        PROVE  G[<<x, U>>] = G[<<x, V>>]
    <3>1. Row(x, U) = Row(x, V)
      BY <1>2, <2>1
    <3> QED BY <1>6, <3>1
  <2>2. DepthOf \in [Supportable -> Nat]
    BY Subexpressions
  <2>3. \A x \in Supportable : \A U, V \in F :
          (\A y \in Supportable : DepthOf[y] < DepthOf[x] => U[y] = V[y]) => G[<<x, U>>] = G[<<x, V>>]
    BY <2>1
  <2> QED BY <1>3, <1>7, <2>2, <2>3, Zenon DEF Descends
<1>9. PICK E : Solves(E, Supportable, R, G)
  BY <1>8, Recursion
<1>10. IsTable(E)
  BY <1>6, <1>9 DEF Solves
<1>11. IsTable(EmitTable)
  BY <1>4, <1>10
<1>12. \A x \in Supportable : EmitTable[x] = Row(x, EmitTable)
  BY <1>11
<1>13. EmitTable[e] \in R
  <2> DEFINE S == {x \in Supportable : EmitTable[x] \in R}
  <2>1. \A x \in Supportable : (\A y \in Supportable : DepthOf[y] < DepthOf[x] => y \in S) => x \in S
    BY <1>1, <1>12
  <2> HIDE DEF S
  <2>2. Supportable \subseteq S
    BY <2>1, Subexpressions, RankInduction
  <2> QED BY <2>2 DEF S
<1>14. EmitTable[e][nodes] \in Emission
  BY <1>13 DEF R
<1> QED BY <1>5, <1>12, <1>14, EmitIsTable

-----------------------------------------------------------------------------
(* The nodes emitted so far: as many operands as each takes, all of them   *)
(* inputs or earlier nodes, no RETURN yet.                                 *)
Emittable(nodes) ==
  /\ nodes \in Seq(GraphNode)
  /\ \A k \in 1..Len(nodes) :
       /\ nodes[k].op # "return" /\ Len(nodes[k].operands) = ARITY[nodes[k].op]
       /\ \A i \in 1..Len(nodes[k].operands) : nodes[k].operands[i] < Len(Params) + k - 1

Refers(ref, nodes) == ref \in 0..Len(Params)+Len(nodes)-1

Grows(a, b) ==
  /\ Emittable(a) /\ Emittable(b)
  /\ Len(a) <= Len(b) /\ \A k \in 1..Len(a) : b[k] = a[k]

(* v holds the inputs, and the value of every node.                        *)
Means(v, nodes) ==
  /\ \A i \in 0..Len(Params)-1 : v[i] = input[i]
  /\ \A k \in 1..Len(nodes) : v[Len(Params) + k - 1] = InterpretNode(nodes[k], v)

LEMMA GrowsFacts ==
  ASSUME NEW a, NEW b, Grows(a, b)
  PROVE  /\ \A c : Grows(b, c) => Grows(a, c)
         /\ \A ref : Refers(ref, a) => Refers(ref, b)
         /\ \A v : Means(v, b) => Means(v, a)
<1>1. /\ Len(a) \in Nat /\ Len(b) \in Nat /\ Len(Params) \in Nat /\ Len(a) <= Len(b)
      /\ \A k \in 1..Len(a) : k \in 1..Len(b) /\ b[k] = a[k]
  BY ExprAssumption, LenProperties DEF Grows, Emittable
<1>2. ASSUME NEW c, Grows(b, c) PROVE Grows(a, c)
  <2>1. Len(c) \in Nat /\ Len(b) <= Len(c) /\ \A k \in 1..Len(b) : c[k] = b[k]
    BY <1>2, LenProperties DEF Grows, Emittable
  <2>2. Emittable(a) /\ Emittable(c)
    BY <1>2 DEF Grows
  <2>3. \A k \in 1..Len(a) : c[k] = a[k]
    BY <1>1, <2>1
  <2>4. Len(a) <= Len(c)
    BY <1>1, <2>1
  <2> QED BY <2>2, <2>3, <2>4 DEF Grows
<1>3. \A ref : Refers(ref, a) => Refers(ref, b)
  BY <1>1 DEF Refers
<1>4. \A v : Means(v, b) => Means(v, a)
  BY <1>1 DEF Means
<1> QED BY <1>2, <1>3, <1>4

(* What may be pushed, and what has been.                                  *)
Pushable(ns, op, refs, w) ==
  /\ Emittable(ns) /\ op \in NodeOps \ {"return"} /\ w \in Word
  /\ refs \in Seq(Nat) /\ Len(refs) = ARITY[op]
  /\ \A i \in 1..Len(refs) : Refers(refs[i], ns)

HasPushed(ns, nd, r) ==
  /\ r \in Emission /\ Grows(ns, r.nodes) /\ Refers(r.ref, r.nodes)
  /\ \A v : Means(v, r.nodes) => v[r.ref] = InterpretNode(nd, v)

LEMMA Pushed ==
  ASSUME NEW ns, NEW op, NEW refs, NEW w, Pushable(ns, op, refs, w)
  PROVE  HasPushed(ns, MkNode(op, refs, w), PushNode(ns, op, refs, w))
<1>0. /\ Emittable(ns) /\ op \in NodeOps \ {"return"} /\ w \in Word
      /\ refs \in Seq(Nat) /\ Len(refs) = ARITY[op]
      /\ \A i \in 1..Len(refs) : Refers(refs[i], ns)
  BY DEF Pushable
<1> DEFINE nd == MkNode(op, refs, w)
           ms == Append(ns, nd)
<1>1. PushNode(ns, op, refs, w).nodes = ms /\ PushNode(ns, op, refs, w).ref = Len(Params) + Len(ns)
  BY DEF PushNode, Emitted
<1>2. ns \in Seq(GraphNode) /\ Len(ns) \in Nat /\ Len(Params) \in Nat
  BY ExprAssumption, <1>0, LenProperties DEF Emittable
<1>3. PushNode(ns, op, refs, w) \in Emission
  BY <1>0, <1>2, PushTypes
<1>4. nd.op = op /\ nd.operands = refs /\ nd \in GraphNode
  BY <1>0 DEF MkNode, GraphNode
<1> HIDE DEF nd
<1>5. /\ ms \in Seq(GraphNode) /\ Len(ms) = Len(ns) + 1
      /\ ms[Len(ns) + 1] = nd /\ \A k \in 1..Len(ns) : ms[k] = ns[k]
  BY <1>2, <1>4, AppendProperties
<1> HIDE DEF ms
<1>6. \A i \in 1..Len(refs) : refs[i] < Len(Params) + Len(ns)
  <2>1. \A i \in 1..Len(refs) : refs[i] \in 0..Len(Params)+Len(ns)-1
    BY <1>0 DEF Refers
  <2> QED BY <2>1, <1>2
<1>7. \A k \in 1..Len(ms) : k \in 1..Len(ns) \/ k = Len(ns) + 1
  BY <1>2, <1>5
<1>8. Emittable(ms)
  <2> SUFFICES ASSUME NEW k \in 1..Len(ms)
               PROVE  /\ ms[k].op # "return" /\ Len(ms[k].operands) = ARITY[ms[k].op]
                      /\ \A i \in 1..Len(ms[k].operands) : ms[k].operands[i] < Len(Params) + k - 1
    BY <1>5 DEF Emittable
  <2>1. CASE k \in 1..Len(ns)
    BY <2>1, <1>0, <1>5 DEF Emittable
  <2>2. CASE k = Len(ns) + 1
    <3>1. Len(Params) + k - 1 = Len(Params) + Len(ns)
      BY <2>2, <1>2
    <3> QED BY <2>2, <3>1, <1>0, <1>4, <1>5, <1>6
  <2> QED BY <2>1, <2>2, <1>7
<1>9. Grows(ns, ms)
  BY <1>0, <1>2, <1>5, <1>8 DEF Grows
<1>10. Refers(Len(Params) + Len(ns), ms)
  BY <1>2, <1>5 DEF Refers
<1>11. ASSUME NEW v, Means(v, ms) PROVE v[Len(Params) + Len(ns)] = InterpretNode(nd, v)
  <2>1. Len(ns) + 1 \in 1..Len(ms) /\ Len(Params) + (Len(ns) + 1) - 1 = Len(Params) + Len(ns)
    BY <1>2, <1>5
  <2> QED BY <1>5, <1>11, <2>1 DEF Means
<1> QED BY <1>1, <1>3, <1>9, <1>10, <1>11 DEF nd, HasPushed

(* r is the outcome of emitting x after ns: nodes that only grow, and a    *)
(* reference that has the value of x wherever they have theirs.            *)
EmitsValue(x, ns, r) ==
  /\ r \in Emission /\ Grows(ns, r.nodes) /\ Refers(r.ref, r.nodes)
  /\ \A v : Means(v, r.nodes) => v[r.ref] = EvalExpr(x)

LEMMA VarEmits ==
  ASSUME InputOK, NEW e \in Supportable, e.kind = "var", NEW ns, Emittable(ns)
  PROVE  EmitsValue(e, ns, Emitted(ns, ParamOf(e.name) - 1))
<1> DEFINE i == ParamOf(e.name) - 1
<1>1. Len(Params) \in Nat /\ ns \in Seq(GraphNode) /\ Len(ns) \in Nat
  BY ExprAssumption, LenProperties DEF Emittable
<1>2. ParamOf(e.name) \in 1..Len(Params)
  BY SupportableParts
<1>3. i \in Nat /\ i \in 0..Len(Params)-1 /\ Refers(i, ns)
  BY <1>1, <1>2 DEF Refers
<1>4. EvalExpr(e) = input[i]
  BY EvalMeans
<1> HIDE DEF i
<1>5. Grows(ns, ns)
  BY <1>1 DEF Grows
<1>6. \A v : Means(v, ns) => v[i] = EvalExpr(e)
  BY <1>3, <1>4 DEF Means
<1>7. /\ Emitted(ns, i) \in Emission
      /\ Emitted(ns, i).nodes = ns /\ Emitted(ns, i).ref = i
  BY <1>1, <1>3 DEF Emitted, Emission
<1>8. EmitsValue(e, ns, Emitted(ns, i))
  BY <1>3, <1>5, <1>6, <1>7 DEF EmitsValue
<1> QED BY <1>8 DEF i

LEMMA ConstEmits ==
  ASSUME InputOK, NEW e \in Supportable, e.kind = "const", NEW ns, Emittable(ns)
  PROVE  EmitsValue(e, ns, PushNode(ns, "const", <<>>, e.val))
<1> DEFINE r == PushNode(ns, "const", <<>>, e.val)
<1>1. "const" \in NodeOps \ {"return"} /\ e.val \in Word /\ <<>> \in Seq(Nat) /\ Len(<<>>) = ARITY["const"]
  BY Kinds, Arities, SupportableParts
<1>2. /\ r \in Emission /\ Grows(ns, r.nodes) /\ Refers(r.ref, r.nodes)
      /\ \A v : Means(v, r.nodes) => v[r.ref] = InterpretNode(MkNode("const", <<>>, e.val), v)
  <2>1. Pushable(ns, "const", <<>>, e.val)
    BY <1>1 DEF Pushable
  <2> QED BY <2>1, Pushed DEF HasPushed
<1>3. \A v : InterpretNode(MkNode("const", <<>>, e.val), v) = e.val
  BY Kinds DEF InterpretNode, MkNode
<1>4. EvalExpr(e) = e.val
  BY EvalMeans
<1> HIDE DEF r
<1>5. EmitsValue(e, ns, r)
  BY <1>2, <1>3, <1>4 DEF EmitsValue
<1> QED BY <1>5 DEF r

LEMMA UnaryEmits ==
  ASSUME InputOK, NEW e \in Supportable, e.kind = "op", e.op \in UnOps,
         NEW ns, NEW a, EmitsValue(e.args[1], ns, a)
  PROVE  EmitsValue(e, ns, Unary(e.op, a))
<1> DEFINE refs == <<a.ref>>
           r == PushNode(a.nodes, e.op, refs, ZeroWord)
<1>1. /\ a.ref \in Nat /\ Grows(ns, a.nodes) /\ Emittable(a.nodes) /\ Refers(a.ref, a.nodes)
      /\ \A v : Means(v, a.nodes) => v[a.ref] = EvalExpr(e.args[1])
  BY DEF EmitsValue, Emission, Grows
<1>2. e.op \in NodeOps \ {"return"} /\ ZeroWord \in Word /\ ARITY[e.op] = 1
  BY SupportableParts, Kinds, ValueTypes, Arities
<1>3. /\ refs \in Seq(Nat) /\ Len(refs) = 1 /\ refs[1] = a.ref
      /\ \A i \in 1..Len(refs) : Refers(refs[i], a.nodes)
  BY <1>1
<1> HIDE DEF refs
<1>4. /\ r \in Emission /\ Grows(a.nodes, r.nodes) /\ Refers(r.ref, r.nodes)
      /\ \A v : Means(v, r.nodes) => v[r.ref] = InterpretNode(MkNode(e.op, refs, ZeroWord), v)
  <2>1. Pushable(a.nodes, e.op, refs, ZeroWord)
    BY <1>1, <1>2, <1>3 DEF Pushable
  <2>2. HasPushed(a.nodes, MkNode(e.op, refs, ZeroWord), r)
    BY <2>1, Pushed
  <2> QED BY <2>2 DEF HasPushed
<1>5. Unary(e.op, a) = r
  BY DEF Unary, refs
<1> HIDE DEF r
<1>6. \A v : InterpretNode(MkNode(e.op, refs, ZeroWord), v) = UnValue(e.op, v[a.ref])
  BY <1>3, Kinds DEF InterpretNode, MkNode
<1>7. EvalExpr(e) = UnValue(e.op, EvalExpr(e.args[1]))
  BY EvalMeans
<1>8. ASSUME NEW v, Means(v, r.nodes) PROVE v[r.ref] = EvalExpr(e)
  <2>1. Means(v, a.nodes)
    BY <1>4, <1>8, GrowsFacts
  <2>2. v[a.ref] = EvalExpr(e.args[1])
    BY <1>1, <2>1
  <2> QED BY <1>4, <1>6, <1>7, <1>8, <2>2
<1>9. Grows(ns, r.nodes)
  BY <1>1, <1>4, GrowsFacts
<1> QED BY <1>4, <1>5, <1>8, <1>9 DEF EmitsValue

LEMMA BinaryEmits ==
  ASSUME InputOK, NEW e \in Supportable, e.kind = "op", e.op \in ArithOps \cup BitOps,
         NEW ns, NEW a, EmitsValue(e.args[1], ns, a), NEW b, EmitsValue(e.args[2], a.nodes, b)
  PROVE  EmitsValue(e, ns, Binary(e.op, a, b))
<1> DEFINE refs == <<a.ref, b.ref>>
           r == PushNode(b.nodes, e.op, refs, ZeroWord)
<1>1. /\ a.ref \in Nat /\ Grows(ns, a.nodes) /\ Refers(a.ref, a.nodes)
      /\ \A v : Means(v, a.nodes) => v[a.ref] = EvalExpr(e.args[1])
  BY DEF EmitsValue, Emission
<1>2. /\ b.ref \in Nat /\ Grows(a.nodes, b.nodes) /\ Emittable(b.nodes) /\ Refers(b.ref, b.nodes)
      /\ \A v : Means(v, b.nodes) => v[b.ref] = EvalExpr(e.args[2])
  BY DEF EmitsValue, Emission, Grows
<1>3. e.op \in NodeOps \ {"return"} /\ ZeroWord \in Word /\ ARITY[e.op] = 2
  BY SupportableParts, Kinds, ValueTypes, Arities
<1>4. Refers(a.ref, b.nodes) /\ Grows(ns, b.nodes)
  BY <1>1, <1>2, GrowsFacts
<1>5. refs \in Seq(Nat) /\ Len(refs) = 2 /\ refs[1] = a.ref /\ refs[2] = b.ref
  BY <1>1, <1>2
<1> HIDE DEF refs
<1>6. \A i \in 1..Len(refs) : Refers(refs[i], b.nodes)
  <2>1. \A i \in 1..2 : i = 1 \/ i = 2
    OBVIOUS
  <2> QED BY <1>2, <1>4, <1>5, <2>1
<1>7. /\ r \in Emission /\ Grows(b.nodes, r.nodes) /\ Refers(r.ref, r.nodes)
      /\ \A v : Means(v, r.nodes) => v[r.ref] = InterpretNode(MkNode(e.op, refs, ZeroWord), v)
  <2>1. Pushable(b.nodes, e.op, refs, ZeroWord)
    BY <1>2, <1>3, <1>5, <1>6 DEF Pushable
  <2>2. HasPushed(b.nodes, MkNode(e.op, refs, ZeroWord), r)
    BY <2>1, Pushed
  <2> QED BY <2>2 DEF HasPushed
<1>8. Binary(e.op, a, b) = r
  BY DEF Binary, refs
<1> HIDE DEF r
<1>9. \A v : InterpretNode(MkNode(e.op, refs, ZeroWord), v) = BinValue(e.op, v[a.ref], v[b.ref])
  BY <1>5, Kinds DEF InterpretNode, MkNode
<1>10. EvalExpr(e) = BinValue(e.op, EvalExpr(e.args[1]), EvalExpr(e.args[2]))
  BY EvalMeans
<1>11. ASSUME NEW v, Means(v, r.nodes) PROVE v[r.ref] = EvalExpr(e)
  <2>1. Means(v, b.nodes)
    BY <1>7, <1>11, GrowsFacts
  <2>2. Means(v, a.nodes)
    BY <1>2, <2>1, GrowsFacts
  <2>3. v[a.ref] = EvalExpr(e.args[1]) /\ v[b.ref] = EvalExpr(e.args[2])
    BY <1>1, <1>2, <2>1, <2>2
  <2> QED BY <1>7, <1>9, <1>10, <1>11, <2>3
<1>12. Grows(ns, r.nodes)
  BY <1>4, <1>7, GrowsFacts
<1> QED BY <1>7, <1>8, <1>11, <1>12 DEF EmitsValue

LEMMA SelectEmits ==
  ASSUME InputOK, NEW e \in Supportable, e.kind = "op", e.op = "select",
         NEW ns, NEW a, EmitsValue(e.args[1], ns, a), NEW b, EmitsValue(e.args[2], a.nodes, b),
         NEW c, EmitsValue(e.args[3], b.nodes, c)
  PROVE  EmitsValue(e, ns, Ternary(e.op, a, b, c))
<1> DEFINE refs == <<a.ref, b.ref, c.ref>>
           r == PushNode(c.nodes, "select", refs, ZeroWord)
<1>1. /\ a.ref \in Nat /\ Grows(ns, a.nodes) /\ Refers(a.ref, a.nodes)
      /\ \A v : Means(v, a.nodes) => v[a.ref] = EvalExpr(e.args[1])
  BY DEF EmitsValue, Emission
<1>2. /\ b.ref \in Nat /\ Grows(a.nodes, b.nodes) /\ Refers(b.ref, b.nodes)
      /\ \A v : Means(v, b.nodes) => v[b.ref] = EvalExpr(e.args[2])
  BY DEF EmitsValue, Emission
<1>3. /\ c.ref \in Nat /\ Grows(b.nodes, c.nodes) /\ Emittable(c.nodes) /\ Refers(c.ref, c.nodes)
      /\ \A v : Means(v, c.nodes) => v[c.ref] = EvalExpr(e.args[3])
  BY DEF EmitsValue, Emission, Grows
<1>4. "select" \in NodeOps \ {"return"} /\ ZeroWord \in Word /\ ARITY["select"] = 3
  BY Kinds, ValueTypes, Arities
<1>5. Grows(a.nodes, c.nodes)
  BY <1>2, <1>3, GrowsFacts
<1>6. Refers(a.ref, c.nodes) /\ Refers(b.ref, c.nodes) /\ Grows(ns, c.nodes)
  BY <1>1, <1>2, <1>3, <1>5, GrowsFacts
<1>7. refs \in Seq(Nat) /\ Len(refs) = 3 /\ refs[1] = a.ref /\ refs[2] = b.ref /\ refs[3] = c.ref
  BY <1>1, <1>2, <1>3
<1> HIDE DEF refs
<1>8. \A i \in 1..Len(refs) : Refers(refs[i], c.nodes)
  <2>1. \A i \in 1..3 : i = 1 \/ i = 2 \/ i = 3
    OBVIOUS
  <2> QED BY <1>3, <1>6, <1>7, <2>1
<1>9. /\ r \in Emission /\ Grows(c.nodes, r.nodes) /\ Refers(r.ref, r.nodes)
      /\ \A v : Means(v, r.nodes) => v[r.ref] = InterpretNode(MkNode("select", refs, ZeroWord), v)
  <2>1. Pushable(c.nodes, "select", refs, ZeroWord)
    BY <1>3, <1>4, <1>7, <1>8 DEF Pushable
  <2>2. HasPushed(c.nodes, MkNode("select", refs, ZeroWord), r)
    BY <2>1, Pushed
  <2> QED BY <2>2 DEF HasPushed
<1>10. Ternary(e.op, a, b, c) = r
  BY DEF Ternary, refs
<1> HIDE DEF r
<1>11. \A v : InterpretNode(MkNode("select", refs, ZeroWord), v) = SelectValue(v[a.ref], v[b.ref], v[c.ref])
  BY <1>7, Kinds DEF InterpretNode, MkNode
<1>12. EvalExpr(e) = SelectValue(EvalExpr(e.args[1]), EvalExpr(e.args[2]), EvalExpr(e.args[3]))
  BY EvalMeans
<1>13. ASSUME NEW v, Means(v, r.nodes) PROVE v[r.ref] = EvalExpr(e)
  <2>1. Means(v, c.nodes)
    BY <1>9, <1>13, GrowsFacts
  <2>2. Means(v, b.nodes) /\ Means(v, a.nodes)
    BY <1>3, <1>5, <2>1, GrowsFacts
  <2>3. /\ v[a.ref] = EvalExpr(e.args[1]) /\ v[b.ref] = EvalExpr(e.args[2])
        /\ v[c.ref] = EvalExpr(e.args[3])
    BY <1>1, <1>2, <1>3, <2>1, <2>2
  <2> QED BY <1>9, <1>11, <1>12, <1>13, <2>3
<1>14. Grows(ns, r.nodes)
  BY <1>6, <1>9, GrowsFacts
<1> QED BY <1>9, <1>10, <1>13, <1>14 DEF EmitsValue

(* Emission is correct at every depth.                                     *)
EmitCorrect(e) == \A ns : Emittable(ns) => EmitsValue(e, ns, Emit(e, ns))

LEMMA EmissionCorrect == InputOK => \A e \in Supportable : EmitCorrect(e)
<1> SUFFICES ASSUME InputOK PROVE \A e \in Supportable : EmitCorrect(e)
  OBVIOUS
<1> DEFINE S == {e \in Supportable : EmitCorrect(e)}
<1>1. ASSUME NEW e \in Supportable, \A y \in Supportable : DepthOf[y] < DepthOf[e] => EmitCorrect(y)
      PROVE  EmitCorrect(e)
  <2> SUFFICES ASSUME NEW ns, Emittable(ns) PROVE EmitsValue(e, ns, Emit(e, ns))
    BY DEF EmitCorrect
  <2> DEFINE a == First(e, ns, EmitTable)
             b == Second(e, ns, EmitTable)
             c == Third(e, ns, EmitTable)
  <2>1. Emit(e, ns) = EmitWith(e, ns, EmitTable)
    BY EmitMeans DEF Emittable
  <2>2. /\ a = Emit(e.args[1], ns) /\ b = Emit(e.args[2], a.nodes) /\ c = Emit(e.args[3], b.nodes)
    BY EmitIsTable DEF First, Second, Third
  <2> HIDE DEF a, b, c
  <2>3. CASE e.kind = "var"
    BY <2>1, <2>3, EmitCases, VarEmits
  <2>4. CASE e.kind = "const"
    BY <2>1, <2>4, EmitCases, ConstEmits
  <2>5. CASE e.kind = "op"
    <3>1. EmitsValue(e.args[1], ns, a)
      BY <1>1, <2>2, <2>5, Subexpressions DEF EmitCorrect
    <3>2. CASE e.op \in UnOps
      <4>1. Emit(e, ns) = Unary(e.op, a)
        BY <2>1, <2>5, <3>2, EmitCases DEF a
      <4> QED BY <2>5, <3>1, <3>2, <4>1, UnaryEmits
    <3>3. CASE e.op \notin UnOps
      <4>1. EmitsValue(e.args[2], a.nodes, b)
        <5>1. Emittable(a.nodes)
          BY <3>1 DEF EmitsValue, Grows
        <5> QED BY <1>1, <2>2, <2>5, <3>3, <5>1, Subexpressions DEF EmitCorrect
      <4>2. CASE e.op \in ArithOps \cup BitOps
        <5>1. Emit(e, ns) = Binary(e.op, a, b)
          BY <2>1, <2>5, <4>2, EmitCases DEF a, b
        <5> QED BY <2>5, <3>1, <4>1, <4>2, <5>1, BinaryEmits
      <4>3. CASE e.op = "select"
        <5>1. Emittable(b.nodes)
          BY <4>1 DEF EmitsValue, Grows
        <5>2. EmitsValue(e.args[3], b.nodes, c)
          BY <1>1, <2>2, <2>5, <4>3, <5>1, Subexpressions DEF EmitCorrect
        <5>3. Emit(e, ns) = Ternary(e.op, a, b, c)
          BY <2>1, <2>5, <4>3, EmitCases DEF a, b, c
        <5> QED BY <2>5, <3>1, <4>1, <4>3, <5>2, <5>3, SelectEmits
      <4> QED BY <2>5, <3>3, <4>2, <4>3, SupportableParts DEF ExprOps
    <3> QED BY <3>2, <3>3
  <2> QED BY <2>3, <2>4, <2>5, SupportableParts
<1>2. \A x \in Supportable : (\A y \in Supportable : DepthOf[y] < DepthOf[x] => y \in S) => x \in S
  BY <1>1
<1> HIDE DEF S
<1>3. Supportable \subseteq S
  BY <1>2, Subexpressions, RankInduction
<1> QED BY <1>3 DEF S

-----------------------------------------------------------------------------
(* The meaning of a graph over the inputs.                                 *)
LEMMA NodeMeaning ==
  ASSUME NEW node \in GraphNode, node.op # "return", Len(node.operands) = ARITY[node.op], NEW u
  PROVE  /\ (\A i \in 1..Len(node.operands) : u[node.operands[i]] \in WordOrUB)
              => InterpretNode(node, u) \in WordOrUB
         /\ \A v : (\A i \in 1..Len(node.operands) : u[node.operands[i]] = v[node.operands[i]])
              => InterpretNode(node, u) = InterpretNode(node, v)
<1>1. node.op \in NodeOps /\ node.val \in Word
  BY DEF GraphNode
<1>2. CASE node.op = "const"
  BY <1>1, <1>2, Kinds DEF InterpretNode, WordOrUB
<1>3. CASE node.op \in ArithOps \cup BitOps
  <2>1. Len(node.operands) = 2 /\ 1 \in 1..2 /\ 2 \in 1..2
    BY <1>3, Arities
  <2>2. \A w : InterpretNode(node, w) = BinValue(node.op, w[node.operands[1]], w[node.operands[2]])
    BY <1>3, Kinds DEF InterpretNode
  <2> QED BY <1>3, <2>1, <2>2, ValueTypes
<1>4. CASE node.op \in UnOps
  <2>1. Len(node.operands) = 1 /\ 1 \in 1..1
    BY <1>4, Arities
  <2>2. \A w : InterpretNode(node, w) = UnValue(node.op, w[node.operands[1]])
    BY <1>4, Kinds DEF InterpretNode
  <2> QED BY <1>4, <2>1, <2>2, ValueTypes
<1>5. CASE node.op = "select"
  <2>1. Len(node.operands) = 3 /\ 1 \in 1..3 /\ 2 \in 1..3 /\ 3 \in 1..3
    BY <1>5, Arities
  <2>2. \A w : InterpretNode(node, w)
          = SelectValue(w[node.operands[1]], w[node.operands[2]], w[node.operands[3]])
    BY <1>5, Kinds DEF InterpretNode
  <2> QED BY <2>1, <2>2, ValueTypes
<1> QED BY <1>1, <1>2, <1>3, <1>4, <1>5 DEF NodeOps

LEMMA NodeFacts ==
  ASSUME NEW g, WellFormed(g), NEW k \in 0..NSteps(g)-1
  PROVE  /\ Node(g, k) \in GraphNode
         /\ Len(Node(g, k).operands) = ARITY[Node(g, k).op]
         /\ \A i \in 1..Len(Node(g, k).operands) : Node(g, k).operands[i] \in 0..g.n_in+k-1
         /\ Node(g, k).op = "return" <=> k = NSteps(g) - 1
<1>1. g.n_in \in Nat /\ g.nodes \in Seq(GraphNode) /\ NSteps(g) \in Nat
  BY LenProperties DEF WellFormed, Graph, NSteps
<1>2. k + 1 \in 1..Len(g.nodes)
  BY <1>1 DEF NSteps
<1>3. Node(g, k) \in GraphNode
  BY <1>1, <1>2, ElementOfSeq DEF Node
<1>4. Node(g, k).operands \in Seq(Nat)
  BY <1>3 DEF GraphNode
<1>5. \A i \in 1..Len(Node(g, k).operands) : Node(g, k).operands[i] \in Nat
  BY <1>4, ElementOfSeq
<1>6. /\ Len(Node(g, k).operands) = ARITY[Node(g, k).op]
      /\ \A i \in 1..Len(Node(g, k).operands) : Node(g, k).operands[i] < g.n_in + k
      /\ Node(g, k).op = "return" <=> k = NSteps(g) - 1
  BY DEF WellFormed
<1>7. \A i \in 1..Len(Node(g, k).operands) : Node(g, k).operands[i] \in 0..g.n_in+k-1
  BY <1>1, <1>5, <1>6
<1> QED BY <1>3, <1>6, <1>7

References(g) == 0..g.n_in+NSteps(g)-2
DenoteWith(ref, g, D) ==
  IF ref < g.n_in THEN input[ref] ELSE InterpretNode(Node(g, ref - g.n_in), D)

LEMMA Denoted ==
  ASSUME InputOK, NEW g, WellFormed(g), g.n_in = Len(Params)
  PROVE  \A ref \in References(g) :
           Denote(g, input)[ref] \in WordOrUB /\ Denote(g, input)[ref] = DenoteWith(ref, g, Denote(g, input))
<1> DEFINE Refs == References(g)
           F == [Refs -> WordOrUB]
           h == [ref \in Refs |-> ref]
           G == [p \in Refs \X F |-> DenoteWith(p[1], g, p[2])]
           IsTable(D) == D = [ref \in Refs |-> DenoteWith(ref, g, D)]
           T == CHOOSE D : IsTable(D)
<1>1. g.n_in \in Nat /\ NSteps(g) \in Nat
  BY LenProperties DEF WellFormed, Graph, NSteps
<1>2. ASSUME NEW ref \in Refs, ~(ref < g.n_in)
      PROVE  LET nd == Node(g, ref - g.n_in)
             IN  /\ nd \in GraphNode /\ nd.op # "return" /\ Len(nd.operands) = ARITY[nd.op]
                 /\ \A i \in 1..Len(nd.operands) : nd.operands[i] \in Refs /\ nd.operands[i] < ref
  <2>1. /\ ref - g.n_in \in 0..NSteps(g)-1 /\ ref - g.n_in # NSteps(g) - 1
        /\ g.n_in + (ref - g.n_in) - 1 = ref - 1
    BY <1>1, <1>2 DEF References
  <2>2. \A q \in 0..ref-1 : q \in Refs /\ q < ref
    BY <1>1 DEF References
  <2> QED BY <2>1, <2>2, NodeFacts
<1>3. ASSUME NEW ref \in Refs, ref < g.n_in PROVE input[ref] \in WordOrUB
  <2>1. ref \in 0..Len(Params)-1
    BY <1>1, <1>3 DEF References
  <2> QED BY <2>1 DEF InputOK, WordOrUB
<1>4. ASSUME NEW ref \in Refs, NEW V, \A q \in Refs : q < ref => V[q] \in WordOrUB
      PROVE  DenoteWith(ref, g, V) \in WordOrUB
  <2>1. CASE ref < g.n_in
    BY <1>3, <2>1 DEF DenoteWith
  <2>2. CASE ~(ref < g.n_in)
    <3> DEFINE nd == Node(g, ref - g.n_in)
    <3>1. /\ nd \in GraphNode /\ nd.op # "return" /\ Len(nd.operands) = ARITY[nd.op]
          /\ \A i \in 1..Len(nd.operands) : nd.operands[i] \in Refs /\ nd.operands[i] < ref
      BY <1>2, <2>2
    <3>2. DenoteWith(ref, g, V) = InterpretNode(nd, V)
      BY <2>2 DEF DenoteWith
    <3> HIDE DEF nd
    <3> QED BY <1>4, <3>1, <3>2, NodeMeaning
  <2> QED BY <2>1, <2>2
<1>5. ASSUME NEW ref \in Refs, NEW U, NEW V, \A q \in Refs : q < ref => U[q] = V[q]
      PROVE  DenoteWith(ref, g, U) = DenoteWith(ref, g, V)
  <2>1. CASE ref < g.n_in
    BY <2>1 DEF DenoteWith
  <2>2. CASE ~(ref < g.n_in)
    <3> DEFINE nd == Node(g, ref - g.n_in)
    <3>1. /\ nd \in GraphNode /\ nd.op # "return" /\ Len(nd.operands) = ARITY[nd.op]
          /\ \A i \in 1..Len(nd.operands) : nd.operands[i] \in Refs /\ nd.operands[i] < ref
      BY <1>2, <2>2
    <3>2. DenoteWith(ref, g, U) = InterpretNode(nd, U) /\ DenoteWith(ref, g, V) = InterpretNode(nd, V)
      BY <2>2 DEF DenoteWith
    <3> HIDE DEF nd
    <3> QED BY <1>5, <3>1, <3>2, NodeMeaning
  <2> QED BY <2>1, <2>2
<1>6. T = Denote(g, input)
  BY DEF Denote, DenoteWith, References
<1>7. h \in [Refs -> Nat] /\ \A ref \in Refs : h[ref] = ref
  BY <1>1 DEF References
<1>8. WordOrUB # {}
  BY ValueTypes DEF WordOrUB
<1> HIDE DEF Refs, h, T
<1>9. G \in [Refs \X F -> WordOrUB] /\ \A ref \in Refs : \A V \in F : G[<<ref, V>>] = DenoteWith(ref, g, V)
  BY <1>4
<1> HIDE DEF G
<1>10. \A ref \in Refs : \A U, V \in F :
         (\A q \in Refs : h[q] < h[ref] => U[q] = V[q]) => G[<<ref, U>>] = G[<<ref, V>>]
  <2> SUFFICES ASSUME NEW ref \in Refs, NEW U \in F, NEW V \in F,
                      \A q \in Refs : h[q] < h[ref] => U[q] = V[q]
               PROVE  G[<<ref, U>>] = G[<<ref, V>>]
    OBVIOUS
  <2>1. \A q \in Refs : q < ref => U[q] = V[q]
    BY <1>7
  <2>2. DenoteWith(ref, g, U) = DenoteWith(ref, g, V)
    BY <1>5, <2>1
  <2> QED BY <1>9, <2>2
<1>11. Descends(Refs, WordOrUB, h, G)
  BY <1>7, <1>8, <1>9, <1>10, Zenon DEF Descends
<1>12. PICK D : Solves(D, Refs, WordOrUB, G)
  BY <1>11, Recursion
<1>13. IsTable(D)
  BY <1>9, <1>12 DEF Solves
<1>14. IsTable(T)
  BY <1>13 DEF T
<1>15. \A ref \in Refs : T[ref] = DenoteWith(ref, g, T)
  BY <1>14
<1>16. \A ref \in Refs : T[ref] \in WordOrUB
  <2> DEFINE S == {ref \in Refs : T[ref] \in WordOrUB}
  <2>1. \A x \in Refs : (\A y \in Refs : h[y] < h[x] => y \in S) => x \in S
    BY <1>4, <1>7, <1>15
  <2> HIDE DEF S
  <2>2. Refs \subseteq S
    BY <2>1, <1>7, RankInduction
  <2> QED BY <2>2 DEF S
<1> QED BY <1>6, <1>15, <1>16 DEF Refs

-----------------------------------------------------------------------------
(* The graph of a body is well formed and means what the body means.       *)
LEMMA Extraction ==
  ASSUME InputOK, NEW e \in Supportable
  PROVE  /\ WellFormed(ExtractedGraph(e)) /\ ExtractedGraph(e).n_in = Len(Params)
         /\ root_ref(ExtractedGraph(e)) \in References(ExtractedGraph(e))
         /\ Denote(ExtractedGraph(e), input)[root_ref(ExtractedGraph(e))] = EvalExpr(e)
<1> DEFINE r == Emit(e, <<>>)
           ret == [op |-> "return", operands |-> <<r.ref>>, val |-> ZeroWord]
           g == ExtractedGraph(e)
<1>1. EmitsValue(e, <<>>, r)
  <2>1. Emittable(<<>>)
    BY DEF Emittable
  <2> QED BY <2>1, EmissionCorrect DEF EmitCorrect
<1> HIDE DEF r
<1>2. g.n_in = Len(Params) /\ g.allI32 = TRUE /\ g.nodes = Append(r.nodes, ret)
      /\ g = [n_in |-> Len(Params), allI32 |-> TRUE, nodes |-> Append(r.nodes, ret)]
  BY DEF ExtractedGraph, r
<1> HIDE DEF g
<1>3. r.ref \in Nat /\ Emittable(r.nodes) /\ Refers(r.ref, r.nodes)
  BY <1>1 DEF EmitsValue, Emission, Grows
<1>4. r.nodes \in Seq(GraphNode) /\ Len(r.nodes) \in Nat /\ Len(Params) \in Nat
  BY <1>3, ExprAssumption, LenProperties DEF Emittable
<1>5. /\ ret \in GraphNode /\ ret.op = "return"
      /\ Len(ret.operands) = 1 /\ ret.operands[1] = r.ref
  BY <1>3, ValueTypes, Kinds DEF GraphNode, NodeOps
<1> HIDE DEF ret
<1>6. /\ g.nodes \in Seq(GraphNode) /\ Len(g.nodes) = Len(r.nodes) + 1
      /\ g.nodes[Len(r.nodes) + 1] = ret /\ \A k \in 1..Len(r.nodes) : g.nodes[k] = r.nodes[k]
  BY <1>2, <1>4, <1>5, AppendProperties
<1>7. NSteps(g) = Len(r.nodes) + 1
  BY <1>6 DEF NSteps
<1>8. r.ref \in 0..Len(Params)+Len(r.nodes)-1
  BY <1>3 DEF Refers
<1>9. root_ref(g) = r.ref
  <2>1. (NSteps(g) - 1) + 1 = Len(r.nodes) + 1
    BY <1>4, <1>7
  <2> QED BY <2>1, <1>5, <1>6 DEF root_ref, Node
<1>10. root_ref(g) \in References(g)
  BY <1>2, <1>4, <1>7, <1>8, <1>9 DEF References
<1>11. ASSUME NEW k \in 0..NSteps(g)-1
       PROVE  /\ Len(Node(g, k).operands) = ARITY[Node(g, k).op]
              /\ \A i \in 1..Len(Node(g, k).operands) : Node(g, k).operands[i] < g.n_in + k
              /\ Node(g, k).op = "return" <=> k = NSteps(g) - 1
  <2>1. CASE k = Len(r.nodes)
    <3>1. Node(g, k) = ret
      BY <2>1, <1>6 DEF Node
    <3>2. \A i \in 1..1 : i = 1
      OBVIOUS
    <3>3. r.ref < g.n_in + k
      BY <2>1, <1>2, <1>4, <1>8
    <3>4. ARITY[ret.op] = 1
      BY <1>5, Arities
    <3>5. k = NSteps(g) - 1
      BY <2>1, <1>4, <1>7
    <3> QED BY <3>1, <3>2, <3>3, <3>4, <3>5, <1>5
  <2>2. CASE k # Len(r.nodes)
    <3>1. k + 1 \in 1..Len(r.nodes) /\ k # NSteps(g) - 1
      BY <2>2, <1>4, <1>7
    <3>2. Node(g, k) = r.nodes[k + 1]
      BY <3>1, <1>6 DEF Node
    <3>3. Len(Params) + (k + 1) - 1 = g.n_in + k
      BY <1>2, <1>4
    <3> QED BY <3>1, <3>2, <3>3, <1>3 DEF Emittable
  <2> QED BY <2>1, <2>2
<1>12. WellFormed(g)
  <2>1. g \in Graph
    BY <1>2, <1>4, <1>6 DEF Graph
  <2>2. NSteps(g) > 0
    BY <1>4, <1>7
  <2> QED BY <2>1, <2>2, <1>11 DEF WellFormed
<1>13. Means(Denote(g, input), r.nodes)
  <2>1. \A ref \in References(g) : Denote(g, input)[ref] = DenoteWith(ref, g, Denote(g, input))
    BY <1>2, <1>12, Denoted
  <2>2. ASSUME NEW i \in 0..Len(Params)-1 PROVE Denote(g, input)[i] = input[i]
    <3>1. i \in References(g) /\ i < g.n_in
      BY <1>2, <1>4, <1>7 DEF References
    <3> QED BY <2>1, <3>1 DEF DenoteWith
  <2>3. ASSUME NEW k \in 1..Len(r.nodes)
        PROVE  Denote(g, input)[Len(Params) + k - 1] = InterpretNode(r.nodes[k], Denote(g, input))
    <3> DEFINE ref == Len(Params) + k - 1
    <3>1. /\ ref \in References(g) /\ ~(ref < g.n_in) /\ (ref - g.n_in) + 1 = k
      BY <1>2, <1>4, <1>7 DEF References
    <3>2. Node(g, ref - g.n_in) = r.nodes[k]
      BY <3>1, <1>6 DEF Node
    <3> HIDE DEF ref
    <3>3. Denote(g, input)[ref] = InterpretNode(r.nodes[k], Denote(g, input))
      BY <2>1, <3>1, <3>2 DEF DenoteWith
    <3> QED BY <3>3 DEF ref
  <2> QED BY <2>2, <2>3 DEF Means
<1>14. Denote(g, input)[r.ref] = EvalExpr(e)
  BY <1>1, <1>13 DEF EmitsValue
<1>15. /\ WellFormed(g) /\ g.n_in = Len(Params)
       /\ root_ref(g) \in References(g) /\ Denote(g, input)[root_ref(g)] = EvalExpr(e)
  BY <1>2, <1>9, <1>10, <1>12, <1>14
<1> QED BY <1>15 DEF g

(* evaluate_graph computes, at every node, the interpreter's value of it   *)
(* if there is one.                                                        *)
LEMMA NodeValueAgrees ==
  ASSUME NEW nd \in GraphNode, nd.op # "return", Len(nd.operands) = ARITY[nd.op], NEW D,
         \A i \in 1..Len(nd.operands) :
           vals[nd.operands[i] + 1] \in Word /\ D[nd.operands[i]] \in {UB, vals[nd.operands[i] + 1]}
  PROVE  NodeValue(nd) \in Word /\ InterpretNode(nd, D) \in {UB, NodeValue(nd)}
<1> DEFINE a == [i \in DOMAIN nd.operands |-> vals[nd.operands[i] + 1]]
<1>1. nd.op \in NodeOps /\ nd.val \in Word /\ DOMAIN nd.operands = 1..Len(nd.operands)
  BY LenProperties DEF GraphNode
<1>2. /\ \A x, y \in Word : AndBits(x, y) \in Word /\ OrBits(x, y) \in Word /\ XorBits(x, y) \in Word
      /\ \A x \in Word : NotBits(x) \in Word
  <2>1. \A x, y \in Word : AndBits(x, y) \in Word /\ OrBits(x, y) \in Word /\ XorBits(x, y) \in Word
    BY DEF Word, Bit, AndBits, OrBits, XorBits
  <2>2. \A x \in Word : NotBits(x) \in Word
    BY DEF Word, Bit, NotBits
  <2> QED BY <2>1, <2>2
<1>3. /\ \A op \in ArithOps : \A x, y \in Word : Arith(op, x, y) \in Word
      /\ ZeroWord \in Word /\ "sub" \in ArithOps
  BY ExprAssumption, ValueTypes DEF ArithOps
<1>4. UB \notin Word
  BY UBAssumption
<1>5. CASE nd.op = "const"
  BY <1>1, <1>5, Kinds DEF NodeValue, InterpretNode
<1>6. CASE nd.op \in ArithOps \cup BitOps
  <2>1. Len(nd.operands) = 2 /\ 1 \in 1..2 /\ 2 \in 1..2
    BY <1>6, Arities
  <2>2. /\ a[1] = vals[nd.operands[1] + 1] /\ a[2] = vals[nd.operands[2] + 1]
        /\ a[1] \in Word /\ a[2] \in Word
        /\ D[nd.operands[1]] \in {UB, a[1]} /\ D[nd.operands[2]] \in {UB, a[2]}
    BY <1>1, <2>1
  <2>3. InterpretNode(nd, D) = BinValue(nd.op, D[nd.operands[1]], D[nd.operands[2]])
    BY <1>6, Kinds DEF InterpretNode
  <2>4. CASE nd.op \in ArithOps
    <3>1. NodeValue(nd) = Arith(nd.op, a[1], a[2])
      BY <2>4 DEF NodeValue, ArithOps
    <3> HIDE DEF a
    <3>2. BinValue(nd.op, D[nd.operands[1]], D[nd.operands[2]]) \in {UB, Arith(nd.op, a[1], a[2])}
      BY <2>2, <2>4, <1>4 DEF BinValue, ArithOps
    <3> QED BY <2>2, <2>3, <2>4, <3>1, <3>2, <1>3
  <2>5. CASE nd.op \in BitOps
    <3>1. /\ nd.op = "and" => NodeValue(nd) = AndBits(a[1], a[2])
          /\ nd.op = "or"  => NodeValue(nd) = OrBits(a[1], a[2])
          /\ nd.op = "xor" => NodeValue(nd) = XorBits(a[1], a[2])
      BY DEF NodeValue, ArithOps
    <3> HIDE DEF a
    <3>2. CASE nd.op = "and"
      BY <3>1, <3>2, <2>2, <2>3, <1>2, <1>4 DEF BinValue, ArithOps
    <3>3. CASE nd.op = "or"
      BY <3>1, <3>3, <2>2, <2>3, <1>2, <1>4 DEF BinValue, ArithOps
    <3>4. CASE nd.op = "xor"
      BY <3>1, <3>4, <2>2, <2>3, <1>2, <1>4 DEF BinValue, ArithOps
    <3> QED BY <2>5, <3>2, <3>3, <3>4 DEF BitOps
  <2> QED BY <1>6, <2>4, <2>5
<1>7. CASE nd.op \in UnOps
  <2>1. Len(nd.operands) = 1 /\ 1 \in 1..1
    BY <1>7, Arities
  <2>2. a[1] = vals[nd.operands[1] + 1] /\ a[1] \in Word /\ D[nd.operands[1]] \in {UB, a[1]}
    BY <1>1, <2>1
  <2>3. InterpretNode(nd, D) = UnValue(nd.op, D[nd.operands[1]])
    BY <1>7, Kinds DEF InterpretNode
  <2>4. /\ nd.op = "neg" => NodeValue(nd) = Arith("sub", ZeroWord, a[1])
        /\ nd.op = "not" => NodeValue(nd) = NotBits(a[1])
    BY DEF NodeValue, ArithOps
  <2> HIDE DEF a
  <2>5. CASE nd.op = "neg"
    BY <2>2, <2>3, <2>4, <2>5, <1>3, <1>4 DEF UnValue
  <2>6. CASE nd.op = "not"
    BY <2>2, <2>3, <2>4, <2>6, <1>2, <1>4 DEF UnValue
  <2> QED BY <1>7, <2>5, <2>6 DEF UnOps
<1>8. CASE nd.op = "select"
  <2>1. Len(nd.operands) = 3 /\ 1 \in 1..3 /\ 2 \in 1..3 /\ 3 \in 1..3
    BY <1>8, Arities
  <2>2. /\ a[1] = vals[nd.operands[1] + 1] /\ a[1] \in Word /\ D[nd.operands[1]] \in {UB, a[1]}
        /\ a[2] = vals[nd.operands[2] + 1] /\ a[2] \in Word /\ D[nd.operands[2]] \in {UB, a[2]}
        /\ a[3] = vals[nd.operands[3] + 1] /\ a[3] \in Word /\ D[nd.operands[3]] \in {UB, a[3]}
    BY <1>1, <2>1
  <2>3. InterpretNode(nd, D)
          = SelectValue(D[nd.operands[1]], D[nd.operands[2]], D[nd.operands[3]])
    BY <1>8, Kinds DEF InterpretNode
  <2>4. NodeValue(nd) = TakenArm(a)
    BY <1>8 DEF NodeValue, ArithOps
  <2> HIDE DEF a
  <2> QED BY <2>2, <2>3, <2>4, <1>4 DEF SelectValue, TakenArm
<1> QED BY <1>1, <1>5, <1>6, <1>7, <1>8 DEF NodeOps

-----------------------------------------------------------------------------
(* What holds of every state.                                              *)
Evaluating == status \in {"running", "raised", "returned"}

GraphOK == Evaluating => body \in Supportable /\ graph = ExtractedGraph(body)

(* The evaluator is at a node of the graph, at RETURN when it has returned, *)
(* and has the interpreter's value of each reference that has one.         *)
ValsOK ==
  Evaluating =>
    /\ vals \in Seq(Word) /\ Len(vals) \in graph.n_in..graph.n_in+NSteps(graph)-1
    /\ \A ref \in 0..Len(vals)-1 : Denote(graph, input)[ref] \in {UB, vals[ref + 1]}
    /\ status = "returned" => Len(vals) = graph.n_in + NSteps(graph) - 1

AstInv ==
  /\ body \in Bodies /\ InputOK
  /\ status \in {"called", "running", "returned", "raised", "unsupported"}
  /\ GraphOK /\ ValsOK

LEMMA InitHolds == AstInit => AstInv
  BY DEF AstInit, AstInv, InputOK, GraphOK, ValsOK, Evaluating

LEMMA ExtractHolds == AstInv /\ Extract => AstInv'
<1> SUFFICES ASSUME AstInv, Extract PROVE AstInv'
  OBVIOUS
<1> DEFINE g == ExtractedGraph(body)
<1>1. /\ graph' = g /\ body' = body /\ input' = input /\ status' = "running"
      /\ vals' = [i \in 1..Len(Params) |-> input[i - 1]]
  BY DEF Extract
<1>2. body \in Supportable /\ body \in Bodies /\ InputOK
  BY ExprAssumption DEF Extract, AstInv, Supportable
<1>3. WellFormed(g) /\ g.n_in = Len(Params)
  BY <1>2, Extraction
<1> HIDE DEF g
<1>4. Len(Params) \in Nat /\ NSteps(g) \in Nat /\ NSteps(g) > 0
  BY <1>3, ExprAssumption, LenProperties DEF WellFormed, Graph, NSteps
<1>5. \A i \in 1..Len(Params) : i - 1 \in 0..Len(Params)-1 /\ input[i - 1] \in Word
  BY <1>2, <1>4 DEF InputOK
<1>6. vals' \in Seq(Word) /\ Len(vals') = Len(Params)
  BY <1>1, <1>4, <1>5, IsASeq
<1>7. ASSUME NEW ref \in 0..Len(vals')-1 PROVE Denote(g, input)[ref] = vals'[ref + 1]
  <2>1. ref \in References(g) /\ ref < g.n_in /\ ref + 1 \in 1..Len(Params) /\ (ref + 1) - 1 = ref
    BY <1>3, <1>4, <1>6 DEF References
  <2>2. Denote(g, input)[ref] = DenoteWith(ref, g, Denote(g, input))
    BY <1>2, <1>3, <2>1, Denoted
  <2>3. vals'[ref + 1] = input[(ref + 1) - 1]
    BY <1>1, <2>1
  <2> QED BY <2>1, <2>2, <2>3 DEF DenoteWith
<1>8. Len(vals') \in g.n_in..g.n_in+NSteps(g)-1
  BY <1>3, <1>4, <1>6
<1>9. GraphOK'
  BY <1>1, <1>2 DEF GraphOK, Evaluating, g
<1>10. ValsOK'
  BY <1>1, <1>6, <1>7, <1>8 DEF ValsOK, Evaluating
<1>11. InputOK'
  BY <1>1, <1>2 DEF InputOK
<1> QED BY <1>1, <1>2, <1>9, <1>10, <1>11 DEF AstInv

(* The node the evaluator is at.                                           *)
LEMMA AtNode ==
  ASSUME AstInv, status = "running"
  PROVE  /\ WellFormed(graph) /\ graph.n_in = Len(Params)
         /\ Len(Params) \in Nat /\ NSteps(graph) \in Nat /\ Len(vals) \in Nat
         /\ Len(vals) - graph.n_in \in 0..NSteps(graph)-1
         /\ NextNode \in GraphNode
         /\ Len(NextNode.operands) = ARITY[NextNode.op]
         /\ \A i \in 1..Len(NextNode.operands) : NextNode.operands[i] \in 0..Len(vals)-1
         /\ NextNode.op = "return" <=> Len(vals) = graph.n_in + NSteps(graph) - 1
<1>1. body \in Supportable /\ graph = ExtractedGraph(body) /\ InputOK
  BY DEF AstInv, GraphOK, Evaluating
<1>2. WellFormed(graph) /\ graph.n_in = Len(Params)
  BY <1>1, Extraction
<1>3. Len(Params) \in Nat /\ NSteps(graph) \in Nat
  BY <1>2, ExprAssumption, LenProperties DEF WellFormed, Graph, NSteps
<1>4. vals \in Seq(Word) /\ Len(vals) \in graph.n_in..graph.n_in+NSteps(graph)-1
  BY DEF AstInv, ValsOK, Evaluating
<1> DEFINE k == Len(vals) - graph.n_in
<1>a. \A n, s \in Nat : \A l \in n..n+s-1 :
        /\ l - n \in 0..s-1 /\ n + (l - n) = l /\ l \in Nat
        /\ l - n = s - 1 <=> l = n + s - 1
  OBVIOUS
<1>5. k \in 0..NSteps(graph)-1 /\ graph.n_in + k = Len(vals) /\ Len(vals) \in Nat
  BY <1>a, <1>2, <1>3, <1>4
<1>6. k = NSteps(graph) - 1 <=> Len(vals) = graph.n_in + NSteps(graph) - 1
  BY <1>a, <1>2, <1>3, <1>4
<1> HIDE DEF k
<1>7. /\ Node(graph, k) \in GraphNode
      /\ Len(Node(graph, k).operands) = ARITY[Node(graph, k).op]
      /\ \A i \in 1..Len(Node(graph, k).operands) : Node(graph, k).operands[i] \in 0..graph.n_in+k-1
      /\ Node(graph, k).op = "return" <=> k = NSteps(graph) - 1
  BY <1>2, <1>5, NodeFacts
<1>8. NextNode = Node(graph, k)
  BY DEF NextNode, k
<1>9. Len(vals) - graph.n_in \in 0..NSteps(graph)-1
  BY <1>5 DEF k
<1> QED BY <1>2, <1>3, <1>5, <1>6, <1>7, <1>8, <1>9

LEMMA EvalNodeHolds == AstInv /\ EvalNode => AstInv'
<1> SUFFICES ASSUME AstInv, EvalNode PROVE AstInv'
  OBVIOUS
<1> DEFINE nd == NextNode
           D == Denote(graph, input)
           x == NodeValue(nd)
<1>1. /\ status = "running" /\ nd.op # "return" /\ vals' = Append(vals, x)
      /\ graph' = graph /\ body' = body /\ input' = input /\ status' = "running"
  BY DEF EvalNode
<1>2. /\ WellFormed(graph) /\ graph.n_in = Len(Params)
      /\ Len(Params) \in Nat /\ NSteps(graph) \in Nat /\ Len(vals) \in Nat
      /\ Len(vals) - graph.n_in \in 0..NSteps(graph)-1
      /\ nd \in GraphNode /\ Len(nd.operands) = ARITY[nd.op]
      /\ \A i \in 1..Len(nd.operands) : nd.operands[i] \in 0..Len(vals)-1
      /\ Len(vals) # graph.n_in + NSteps(graph) - 1
  BY <1>1, AtNode
<1>3. /\ vals \in Seq(Word) /\ \A ref \in 0..Len(vals)-1 : D[ref] \in {UB, vals[ref + 1]}
      /\ InputOK
  BY <1>1 DEF AstInv, ValsOK, Evaluating
<1>4. \A ref \in 0..Len(vals)-1 : ref + 1 \in 1..Len(vals) /\ vals[ref + 1] \in Word
  <2>1. \A ref \in 0..Len(vals)-1 : ref + 1 \in 1..Len(vals)
    BY <1>2
  <2> QED BY <2>1, <1>3, ElementOfSeq
<1>5. x \in Word /\ InterpretNode(nd, D) \in {UB, x}
  BY <1>1, <1>2, <1>3, <1>4, NodeValueAgrees
<1>6. D[Len(vals)] = InterpretNode(nd, D)
  <2>1. Len(vals) \in References(graph) /\ ~(Len(vals) < graph.n_in)
    BY <1>2 DEF References
  <2>2. D[Len(vals)] = DenoteWith(Len(vals), graph, D)
    BY <2>1, <1>2, <1>3, Denoted
  <2> QED BY <2>1, <2>2 DEF DenoteWith, NextNode
<1> HIDE DEF x, nd, D
<1>7. /\ vals' \in Seq(Word) /\ Len(vals') = Len(vals) + 1
      /\ vals'[Len(vals) + 1] = x /\ \A k \in 1..Len(vals) : vals'[k] = vals[k]
  BY <1>1, <1>3, <1>5, AppendProperties
<1>8. ASSUME NEW ref \in 0..Len(vals')-1 PROVE D[ref] \in {UB, vals'[ref + 1]}
  <2>1. ref \in 0..Len(vals)-1 \/ ref = Len(vals)
    BY <1>2, <1>7
  <2>2. CASE ref \in 0..Len(vals)-1
    BY <2>2, <1>3, <1>4, <1>7
  <2>3. CASE ref = Len(vals)
    BY <2>3, <1>5, <1>6, <1>7
  <2> QED BY <2>1, <2>2, <2>3
<1>9. Len(vals') \in graph.n_in..graph.n_in+NSteps(graph)-1
  BY <1>2, <1>7
<1>10. ValsOK'
  BY <1>1, <1>7, <1>8, <1>9 DEF ValsOK, Evaluating, D
<1>11. GraphOK' /\ InputOK'
  BY <1>1, <1>3 DEF AstInv, GraphOK, InputOK, Evaluating
<1> QED BY <1>1, <1>10, <1>11 DEF AstInv

LEMMA EvalReturnHolds == AstInv /\ EvalReturn => AstInv'
<1> SUFFICES ASSUME AstInv, EvalReturn PROVE AstInv'
  OBVIOUS
<1>1. /\ status = "running" /\ NextNode.op = "return" /\ status' = "returned"
      /\ graph' = graph /\ body' = body /\ input' = input /\ vals' = vals
  BY DEF EvalReturn
<1>2. Len(vals) = graph.n_in + NSteps(graph) - 1
  BY <1>1, AtNode
<1> QED BY <1>1, <1>2 DEF AstInv, GraphOK, ValsOK, InputOK, Evaluating

LEMMA OtherStepsHold == AstInv /\ (Unsupported \/ EvalRaises \/ UNCHANGED avars) => AstInv'
<1>1. AstInv /\ Unsupported => AstInv'
  BY DEF Unsupported, AstInv, GraphOK, ValsOK, InputOK, Evaluating
<1>2. AstInv /\ EvalRaises => AstInv'
  BY DEF EvalRaises, AstInv, GraphOK, ValsOK, InputOK, Evaluating
<1>3. AstInv /\ UNCHANGED avars => AstInv'
  BY DEF avars, AstInv, GraphOK, ValsOK, InputOK, Evaluating
<1> QED BY <1>1, <1>2, <1>3

(* Through extraction and evaluation, the graph is the one extracted from  *)
(* the body, and every value computed is the interpreter's where it has    *)
(* one (ast_to_graph, evaluate_graph).                                     *)
THEOREM AstInvariance == AstSpec => []AstInv
<1>1. AstInv /\ [AstNext]_avars => AstInv'
  BY ExtractHolds, EvalNodeHolds, EvalReturnHolds, OtherStepsHold DEF AstNext
<1> QED BY <1>1, InitHolds, PTL DEF AstSpec

(* ast_to_graph is a correct compiler to graphs: for every body it does    *)
(* not refuse, the graph is well formed, and denotes at its root the value *)
(* the interpreter gives the body, undefined exactly where that is.        *)
THEOREM ExtractionIsFaithful == AstSpec => []ExtractionFaithful
<1>1. AstInv => ExtractionFaithful
  <2> SUFFICES ASSUME AstInv, status = "running"
               PROVE  WellFormed(graph) /\ Denote(graph, input)[root_ref(graph)] = EvalExpr(body)
    BY DEF ExtractionFaithful
  <2>1. body \in Supportable /\ graph = ExtractedGraph(body) /\ InputOK
    BY DEF AstInv, GraphOK, Evaluating
  <2> QED BY <2>1, Extraction
<1> QED BY <1>1, AstInvariance, PTL

(* The eager evaluator and the lazy interpreter agree: what evaluate_graph *)
(* returns is the interpreter's value, whenever the interpreter has one.   *)
THEOREM EvaluatorsReturnTheSame == AstSpec => []EvaluatorsAgree
<1>1. AstInv => EvaluatorsAgree
  <2> SUFFICES ASSUME AstInv, status = "returned", EvalExpr(body) # UB PROVE Result = EvalExpr(body)
    BY DEF EvaluatorsAgree
  <2>1. body \in Supportable /\ graph = ExtractedGraph(body) /\ InputOK
    BY DEF AstInv, GraphOK, Evaluating
  <2>2. /\ Len(vals) = graph.n_in + NSteps(graph) - 1
        /\ \A ref \in 0..Len(vals)-1 : Denote(graph, input)[ref] \in {UB, vals[ref + 1]}
    BY DEF AstInv, ValsOK, Evaluating
  <2>3. /\ WellFormed(graph) /\ graph.n_in = Len(Params)
        /\ root_ref(graph) \in References(graph)
        /\ Denote(graph, input)[root_ref(graph)] = EvalExpr(body)
    BY <2>1, Extraction
  <2>4. NSteps(graph) \in Nat /\ graph.n_in \in Nat
    BY <2>3, LenProperties DEF WellFormed, Graph, NSteps
  <2>5. (graph.n_in + NSteps(graph) - 1) - 1 = graph.n_in + NSteps(graph) - 2
    BY <2>4
  <2>6. root_ref(graph) \in 0..Len(vals)-1
    BY <2>2, <2>3, <2>5 DEF References
  <2> QED BY <2>2, <2>3, <2>6 DEF Result
<1> QED BY <1>1, AstInvariance, PTL

-----------------------------------------------------------------------------
(* A seed's bucket; what GenTypeOK says of one candidate.                  *)
Candidate == [op : NodeOps \cup {"input"}, operands : Seq(Nat), bucket : Buckets \cup {NoBucket}]

(* The n-th node of a partial graph points backwards only, and RETURN is   *)
(* emitted by the step that ends the loop.                                 *)
NodeOK(k) ==
  /\ Len(emitted[k].operands) = ARITY[emitted[k].op]
  /\ \A i \in 1..Len(emitted[k].operands) : emitted[k].operands[i] < sig.n_in + k - 1
  /\ emitted[k].op = "return" <=> k = Len(emitted) /\ phase = "returned"

(* The inductive invariant: the candidates are the inputs and the nodes.   *)
GenInv ==
  /\ sig \in Signatures
  /\ phase \in {"called", "running", "returned", "none", "raised"}
  /\ steps \in 0..MaxSteps
  /\ candidate_embeds \in Seq(Candidate)
  /\ edges \in Seq(Nat \X Nat)
  /\ emitted \in Seq(GraphNode)
  /\ Len(emitted) = steps
  /\ phase = "called" => steps = 0
  /\ phase = "returned" => steps > 0
  /\ phase = "running" => Len(candidate_embeds) = sig.n_in + steps
  /\ \A k \in 1..Len(emitted) : NodeOK(k)

-----------------------------------------------------------------------------
(* The words and buckets a constant can bring in.                          *)
LEMMA ConstFacts ==
  /\ ZeroWord \in Word
  /\ \A b \in Buckets : ConstOf(b) \in Word /\ SeedBucket(b) \in Buckets
<1>1. ZeroWord \in Word
  BY DEF ZeroWord, Word, Bit
<1>2. \A b \in Buckets : ConstOf(b) \in Word
  BY <1>1, GenAssumption DEF ConstOf
<1> QED BY <1>1, <1>2, GenAssumption DEF SeedBucket

(* Arities are numbers, RETURN has one operand.                            *)
LEMMA ArityFacts ==
  /\ \A op \in NodeOps : ARITY[op] \in Nat
  /\ ARITY["return"] = 1 /\ "return" \in NodeOps /\ "const" \in NodeOps
<1>1. \A op \in NodeOps : ARITY[op] \in {0, 1, 2, 3}
  BY DEF ARITY, NodeOps, ArithOps, BitOps, UnOps
<1>2. ARITY["return"] = 1 /\ "return" \in NodeOps /\ "const" \in NodeOps
  BY DEF ARITY, NodeOps, ArithOps, BitOps, UnOps
<1> QED BY <1>1, <1>2

(* Pointers are sequences of numbers below the number of candidates.       *)
LEMMA PointerFacts ==
  ASSUME NEW a \in Nat, NEW n \in Nat, NEW ptrs \in Pointers(a, n)
  PROVE  /\ ptrs \in Seq(Nat) /\ Len(ptrs) = a
         /\ \A i \in 1..Len(ptrs) : ptrs[i] < n
<1>1. ptrs \in [1..a -> Nat] /\ \A i \in 1..a : ptrs[i] \in 0..n-1
  BY DEF Pointers
<1>2. ptrs \in Seq(Nat) /\ Len(ptrs) = a
  BY <1>1
<1> QED BY <1>1, <1>2

LEMMA GenInitInv == GenInit => GenInv
  BY GenAssumption DEF GenInit, GenInv, NodeOK

(* Seeding makes one candidate per input.                                  *)
LEMMA SeedInputsInv == GenInv /\ SeedInputs => GenInv'
<1> SUFFICES ASSUME GenInv, SeedInputs PROVE GenInv'
  OBVIOUS
<1>1. sig.n_in \in Nat
  BY GenAssumption DEF GenInv
<1>2. \A pos \in Nat : InputCandidate(pos) \in Candidate
  BY DEF InputCandidate, Candidate
<1>3. InputCandidates(sig.n_in) \in [1..sig.n_in -> Candidate]
  BY <1>1, <1>2 DEF InputCandidates
<1>4. InputCandidates(sig.n_in) \in Seq(Candidate) /\ Len(InputCandidates(sig.n_in)) = sig.n_in
  BY <1>1, <1>3
<1>5. steps = 0 /\ Len(emitted) = 0
  BY DEF GenInv, SeedInputs
<1> QED BY <1>1, <1>4, <1>5 DEF GenInv, SeedInputs, NodeOK

(* A step emits a node whose operands are candidates, that is, inputs or   *)
(* earlier nodes, and adds one candidate for it.                           *)
LEMMA EmitInv ==
  ASSUME GenInv, NEW op \in Vocabulary \ {"return"}, NEW bucket,
         op = "const" => bucket \in Buckets,
         NEW ptrs \in Pointers(ARITY[op], Len(candidate_embeds)), EmitStep(op, ptrs, bucket)
  PROVE  GenInv'
<1> DEFINE val  == IF op = "const" THEN ConstOf(bucket) ELSE ZeroWord
           node == [op |-> op, operands |-> ptrs, val |-> val]
           seed == IF op = "const" THEN SeedBucket(bucket) ELSE NoBucket
           cand == NodeCandidate(op, ptrs, seed)
           n    == Len(candidate_embeds)
<1>1. op \in NodeOps /\ op # "return" /\ ARITY[op] \in Nat /\ n \in Nat
  BY ArityFacts, GenAssumption DEF GenInv
<1>2. ptrs \in Seq(Nat) /\ Len(ptrs) = ARITY[op] /\ \A i \in 1..Len(ptrs) : ptrs[i] < n
  BY <1>1, PointerFacts
<1>3. val \in Word /\ seed \in Buckets \cup {NoBucket}
  BY ConstFacts
<1>4. node \in GraphNode
  BY <1>1, <1>2, <1>3 DEF GraphNode
<1>5. cand \in Candidate
  BY <1>1, <1>2, <1>3 DEF NodeCandidate, Candidate
<1> HIDE DEF val, node, seed, cand
<1>6. /\ emitted' = Append(emitted, node) /\ candidate_embeds' = Append(candidate_embeds, cand)
      /\ edges' = edges \o EdgesTo(ptrs, n) /\ steps' = steps + 1
      /\ sig' = sig /\ phase' = phase /\ phase = "running" /\ steps < MaxSteps
  BY DEF EmitStep, CanStep, node, val, cand, seed
<1>7. EdgesTo(ptrs, n) \in Seq(Nat \X Nat)
  <2>1. DOMAIN ptrs = 1..Len(ptrs) /\ Len(ptrs) \in Nat /\ \A i \in DOMAIN ptrs : ptrs[i] \in Nat
    BY <1>2
  <2> QED BY <2>1, <1>1 DEF EdgesTo
<1>8. /\ steps \in Nat /\ MaxSteps \in Nat /\ sig.n_in \in Nat
      /\ emitted \in Seq(GraphNode) /\ Len(emitted) = steps /\ n = sig.n_in + steps
  BY <1>6, GenAssumption DEF GenInv
<1>9. /\ emitted' \in Seq(GraphNode) /\ Len(emitted') = steps + 1
      /\ emitted'[steps + 1] = node
      /\ \A k \in 1..steps : emitted'[k] = emitted[k]
  BY <1>4, <1>6, <1>8
<1>10. candidate_embeds' \in Seq(Candidate) /\ Len(candidate_embeds') = n + 1
  BY <1>5, <1>6 DEF GenInv
<1>11. \A k \in 1..Len(emitted') : NodeOK(k)'
  <2> SUFFICES ASSUME NEW k \in 1..Len(emitted') PROVE NodeOK(k)'
    OBVIOUS
  <2>1. CASE k = steps + 1
    <3>1. emitted'[k].op = op /\ emitted'[k].operands = ptrs
      BY <2>1, <1>9 DEF node
    <3> QED BY <3>1, <2>1, <1>1, <1>2, <1>6, <1>8 DEF NodeOK
  <2>2. CASE k \in 1..steps
    <3>1. NodeOK(k) /\ emitted'[k] = emitted[k]
      BY <2>2, <1>8, <1>9 DEF GenInv
    <3> QED BY <3>1, <1>6 DEF NodeOK
  <2> QED BY <2>1, <2>2, <1>8, <1>9
<1>12. edges' \in Seq(Nat \X Nat)
  BY <1>6, <1>7 DEF GenInv
<1>13. sig' \in Signatures /\ steps' \in 0..MaxSteps /\ steps' > 0 /\ phase' = "running"
  BY <1>6, <1>8 DEF GenInv
<1>14. Len(candidate_embeds') = sig'.n_in + steps'
  BY <1>6, <1>8, <1>10
<1> QED BY <1>6, <1>9, <1>10, <1>11, <1>12, <1>13, <1>14 DEF GenInv

(* RETURN ends the loop with one operand.                                  *)
LEMMA ReturnInv ==
  ASSUME GenInv, NEW ptrs \in Pointers(1, Len(candidate_embeds)), ReturnStep(ptrs)
  PROVE  GenInv'
<1> DEFINE node == [op |-> "return", operands |-> ptrs, val |-> ZeroWord]
<1>1. ptrs \in Seq(Nat) /\ Len(ptrs) = 1 /\ \A i \in 1..Len(ptrs) : ptrs[i] < Len(candidate_embeds)
  <2>1. Len(candidate_embeds) \in Nat /\ 1 \in Nat
    BY DEF GenInv
  <2> QED BY <2>1, PointerFacts
<1>2. node \in GraphNode
  BY <1>1, ArityFacts, ConstFacts DEF GraphNode
<1> HIDE DEF node
<1>3. /\ emitted' = Append(emitted, node) /\ steps' = steps + 1 /\ phase' = "returned"
      /\ sig' = sig /\ candidate_embeds' = candidate_embeds /\ edges' = edges
      /\ phase = "running" /\ steps < MaxSteps
  BY DEF ReturnStep, CanStep, node
<1>4. /\ steps \in Nat /\ MaxSteps \in Nat /\ sig.n_in \in Nat
      /\ emitted \in Seq(GraphNode) /\ Len(emitted) = steps
      /\ Len(candidate_embeds) = sig.n_in + steps
  BY <1>3, GenAssumption DEF GenInv
<1>5. /\ emitted' \in Seq(GraphNode) /\ Len(emitted') = steps + 1
      /\ emitted'[steps + 1] = node
      /\ \A k \in 1..steps : emitted'[k] = emitted[k]
  BY <1>2, <1>3, <1>4
<1>6. \A k \in 1..Len(emitted') : NodeOK(k)'
  <2> SUFFICES ASSUME NEW k \in 1..Len(emitted') PROVE NodeOK(k)'
    OBVIOUS
  <2>1. CASE k = steps + 1
    <3>1. emitted'[k].op = "return" /\ emitted'[k].operands = ptrs
      BY <2>1, <1>5 DEF node
    <3>2. \A i \in 1..Len(ptrs) : ptrs[i] < sig'.n_in + (steps + 1) - 1
      BY <1>1, <1>3, <1>4
    <3>3. Len(ptrs) = ARITY["return"]
      BY <1>1, ArityFacts
    <3> QED BY <3>1, <3>2, <3>3, <2>1, <1>3, <1>5 DEF NodeOK
  <2>2. CASE k \in 1..steps
    <3>1. NodeOK(k) /\ emitted'[k] = emitted[k] /\ k # Len(emitted')
      BY <2>2, <1>4, <1>5 DEF GenInv
    <3>2. emitted[k].op # "return"
      BY <3>1, <1>3 DEF NodeOK
    <3> QED BY <3>1, <3>2, <1>3 DEF NodeOK
  <2> QED BY <2>1, <2>2, <1>4, <1>5
<1> QED BY <1>3, <1>4, <1>5, <1>6 DEF GenInv

(* The invariant holds of generate().                                      *)
THEOREM GenInvariance == GenSpec => []GenInv
<1>1. GenInv /\ [GenNext]_gvars => GenInv'
  <2> SUFFICES ASSUME GenInv, [GenNext]_gvars PROVE GenInv'
    OBVIOUS
  <2>1. CASE SeedInputs
    BY <2>1, SeedInputsInv
  <2>2. CASE SeedingRaises
    BY <2>2 DEF SeedingRaises, GenInv, NodeOK
  <2>3. CASE StackRaises
    BY <2>3 DEF StackRaises, CanStep, GenInv, NodeOK
  <2>4. CASE EmitNode
    BY <2>4, EmitInv DEF EmitNode
  <2>5. CASE Return
    BY <2>5, ReturnInv DEF Return
  <2>6. CASE DidNotTerminate
    BY <2>6 DEF DidNotTerminate, GenInv, NodeOK
  <2>7. CASE UNCHANGED gvars
    BY <2>7 DEF gvars, GenInv, NodeOK
  <2> QED BY <2>1, <2>2, <2>3, <2>4, <2>5, <2>6, <2>7 DEF GenNext
<1> QED BY GenInitInv, <1>1, PTL DEF GenSpec

(* The locals of generate() keep their types (graph_gen.py:248-318).       *)
THEOREM GenTypeCorrect == GenSpec => []GenTypeOK
<1>1. GenInv => GenTypeOK
  <2> SUFFICES ASSUME GenInv PROVE GenTypeOK
    OBVIOUS
  <2>1. \A i \in DOMAIN candidate_embeds : candidate_embeds[i] \in Candidate
    BY DEF GenInv
  <2>2. \A i \in DOMAIN candidate_embeds : candidate_embeds[i].bucket \in Buckets \cup {NoBucket}
    BY <2>1 DEF Candidate
  <2>3. \A i \in DOMAIN edges : edges[i] \in Nat \X Nat
    BY DEF GenInv
  <2> QED BY <2>2, <2>3 DEF GenInv, GenTypeOK
<1> QED BY <1>1, GenInvariance, PTL

(* Whatever the heads choose, a returned graph is well formed and within   *)
(* max_steps: lower() and evaluate_graph may take any of them              *)
(* (graph_gen.py:286-288).                                                 *)
THEOREM GeneratedWellFormed == GenSpec => []ReturnsGraph
<1>1. GenInv => ReturnsGraph
  <2> SUFFICES ASSUME GenInv, phase = "returned"
               PROVE  WellFormed(MkGraph(emitted)) /\ Len(emitted) <= MaxSteps
    BY DEF ReturnsGraph
  <2> DEFINE g == MkGraph(emitted)
  <2>1. /\ g.n_in = sig.n_in /\ g.nodes = emitted /\ sig.n_in \in Nat /\ g \in Graph
    BY GenAssumption DEF MkGraph, Graph, GenInv
  <2> HIDE DEF g
  <2>2. Len(emitted) \in Nat /\ Len(emitted) > 0 /\ Len(emitted) <= MaxSteps
    BY GenAssumption DEF GenInv
  <2>3. \A k \in 0..NSteps(g)-1 :
          /\ Node(g, k) = emitted[k + 1] /\ k + 1 \in 1..Len(emitted) /\ NodeOK(k + 1)
    BY <2>1, <2>2 DEF NSteps, Node, GenInv
  <2>4. ASSUME NEW k \in 0..NSteps(g)-1
        PROVE  /\ Len(Node(g, k).operands) = ARITY[Node(g, k).op]
               /\ \A i \in 1..Len(Node(g, k).operands) : Node(g, k).operands[i] < g.n_in + k
               /\ Node(g, k).op = "return" <=> k = NSteps(g) - 1
    <3>1. k \in Nat /\ k + 1 - 1 = k /\ (k + 1 = Len(emitted) <=> k = NSteps(g) - 1)
      BY <2>1, <2>2 DEF NSteps
    <3>2. sig.n_in + (k + 1) - 1 = g.n_in + k
      BY <3>1, <2>1
    <3> QED BY <3>1, <3>2, <2>3 DEF NodeOK
  <2> QED BY <2>1, <2>2, <2>4 DEF WellFormed, NSteps, g
<1> QED BY <1>1, GenInvariance, PTL

-----------------------------------------------------------------------------
(* What the heads are shown after each node, as a function of the number   *)
(* of nodes (graph_gen.py:167-218).                                        *)
Start(n) == [cands |-> InputCandidates(n), edges |-> <<>>]
IsView(V, n, nodes) ==
  V = [k \in 0..Len(nodes) |-> IF k = 0 THEN Start(n) ELSE Taught(V[k - 1], nodes[k])]

(* There is only one such function.                                        *)
LEMMA ViewUnique ==
  ASSUME NEW n, NEW nodes, Len(nodes) \in Nat, NEW U, IsView(U, n, nodes), NEW V, IsView(V, n, nodes)
  PROVE  U = V
<1> DEFINE Differ == {k \in 0..Len(nodes) : U[k] # V[k]}
<1>1. \A k \in 0..Len(nodes) :
        /\ U[k] = IF k = 0 THEN Start(n) ELSE Taught(U[k - 1], nodes[k])
        /\ V[k] = IF k = 0 THEN Start(n) ELSE Taught(V[k - 1], nodes[k])
  BY DEF IsView
<1>2. ASSUME Differ # {} PROVE FALSE
  <2>1. Differ \in SUBSET Nat
    OBVIOUS
  <2>2. PICK r \in Differ : \A q \in Differ : r <= q
    BY <1>2, <2>1, LeastElement
  <2>3. r \in 0..Len(nodes) /\ U[r] # V[r]
    BY <2>2
  <2>4. r # 0
    BY <1>1, <2>3
  <2>5. r - 1 \in 0..Len(nodes) /\ ~(r <= r - 1)
    BY <2>3, <2>4
  <2>6. U[r - 1] = V[r - 1]
    BY <2>2, <2>5
  <2> QED BY <1>1, <2>3, <2>4, <2>6
<1>3. \A k \in 0..Len(nodes) : U[k] = V[k]
  BY <1>2
<1>4. U = [k \in 0..Len(nodes) |-> U[k]] /\ V = [k \in 0..Len(nodes) |-> V[k]]
  BY DEF IsView
<1> QED BY <1>3, <1>4

(* TeacherView is its last value.                                          *)
LEMMA TeacherViewIs ==
  ASSUME NEW n, NEW nodes, Len(nodes) \in Nat, NEW V, IsView(V, n, nodes)
  PROVE  TeacherView(n, nodes) = V[Len(nodes)]
<1> DEFINE U == CHOOSE f : IsView(f, n, nodes)
<1>1. TeacherView(n, nodes) = U[Len(nodes)]
  BY DEF TeacherView, IsView, Start
<1>2. IsView(U, n, nodes)
  OBVIOUS
<1> HIDE DEF U
<1>3. U = V
  BY <1>2, ViewUnique
<1> QED BY <1>1, <1>3

(* The invariant behind TeacherParity: what generate() has built is what   *)
(* the teacher would have shown.                                           *)
Shown == [cands |-> candidate_embeds, edges |-> edges]

ParityInv ==
  /\ phase = "called" => edges = <<>>
  /\ phase = "running" => \E V : IsView(V, sig.n_in, emitted) /\ V[Len(emitted)] = Shown

LEMMA ParityStart == GenInv /\ ParityInv /\ SeedInputs => ParityInv'
<1> SUFFICES ASSUME GenInv, ParityInv, SeedInputs PROVE ParityInv'
  OBVIOUS
<1>1. Len(emitted) = 0 /\ edges = <<>> /\ emitted' = emitted /\ edges' = edges /\ sig' = sig
      /\ candidate_embeds' = InputCandidates(sig.n_in) /\ phase' = "running"
  BY DEF GenInv, ParityInv, SeedInputs
<1> DEFINE V == [k \in 0..0 |-> Start(sig.n_in)]
<1>2. V = [k \in 0..Len(emitted) |-> IF k = 0 THEN Start(sig.n_in) ELSE Taught(V[k - 1], emitted[k])]
  BY <1>1
<1>3. IsView(V, sig.n_in, emitted) /\ V[0] = Start(sig.n_in)
  BY <1>2 DEF IsView
<1>4. Start(sig.n_in) = Shown'
  BY <1>1 DEF Start, Shown
<1> HIDE DEF V
<1> QED BY <1>1, <1>3, <1>4 DEF ParityInv

(* An iteration shows the teacher's next view: a constant is seeded with   *)
(* the bucket its value encodes to (graph_gen.py:300-316).                 *)
LEMMA ParityEmit ==
  ASSUME GenInv, ParityInv, NEW op \in Vocabulary \ {"return"}, NEW bucket, NEW ptrs,
         EmitStep(op, ptrs, bucket)
  PROVE  ParityInv'
<1> DEFINE val  == IF op = "const" THEN ConstOf(bucket) ELSE ZeroWord
           node == [op |-> op, operands |-> ptrs, val |-> val]
           seed == IF op = "const" THEN SeedBucket(bucket) ELSE NoBucket
           n    == Len(emitted)
<1>1. /\ emitted' = Append(emitted, node)
      /\ candidate_embeds' = Append(candidate_embeds, NodeCandidate(op, ptrs, seed))
      /\ edges' = edges \o EdgesTo(ptrs, Len(candidate_embeds))
      /\ sig' = sig /\ phase' = "running" /\ phase = "running"
  BY DEF EmitStep, CanStep
<1>2. TargetBucket(node) = seed /\ node.op = op /\ node.operands = ptrs
  BY DEF TargetBucket, SeedBucket
<1>3. Taught(Shown, node) = Shown'
  <2>1. Taught(Shown, node) =
          [cands |-> Append(candidate_embeds, NodeCandidate(op, ptrs, seed)),
           edges |-> edges \o EdgesTo(ptrs, Len(candidate_embeds))]
    BY <1>2 DEF Taught, Shown
  <2> QED BY <1>1, <2>1 DEF Shown
<1> HIDE DEF val, node, seed
<1>4. PICK V : IsView(V, sig.n_in, emitted) /\ V[n] = Shown
  BY <1>1 DEF ParityInv
<1>5. /\ n \in Nat /\ n = steps /\ Len(emitted') = n + 1 /\ emitted'[n+1] = node
      /\ \A k \in 1..n : emitted'[k] = emitted[k]
  <2>1. Len(emitted') = n + 1 /\ emitted'[n+1] = node /\ \A k \in 1..n : emitted'[k] = emitted[k]
    <3>1. emitted \in Seq(GraphNode \cup {node}) /\ node \in GraphNode \cup {node}
      BY DEF GenInv
    <3> QED BY <1>1, <3>1, AppendProperties
  <2> QED BY <2>1, GenAssumption DEF GenInv
<1> DEFINE U == [k \in 0..n+1 |-> IF k = n + 1 THEN Shown' ELSE V[k]]
<1> HIDE DEF n
<1>6. \A k \in 0..n : V[k] = IF k = 0 THEN Start(sig.n_in) ELSE Taught(V[k - 1], emitted[k])
  BY <1>4 DEF IsView, n
<1>7. ASSUME NEW k \in 0..n+1
      PROVE  U[k] = IF k = 0 THEN Start(sig.n_in) ELSE Taught(U[k - 1], emitted'[k])
  <2>1. CASE k = n + 1
    <3>1. k # 0 /\ k - 1 = n /\ n \in 0..n+1 /\ n # n + 1
      BY <1>5, <2>1
    <3>2. U[k] = Shown' /\ U[k - 1] = V[n] /\ emitted'[k] = node
      BY <1>5, <2>1, <3>1
    <3> QED BY <1>3, <1>4, <3>1, <3>2
  <2>2. CASE k \in 0..n
    <3>1. k # n + 1 /\ U[k] = V[k]
      BY <1>5, <2>2
    <3>2. k # 0 => k - 1 \in 0..n+1 /\ k - 1 # n + 1 /\ k \in 1..n
      BY <1>5, <2>2
    <3>3. k # 0 => U[k - 1] = V[k - 1] /\ emitted'[k] = emitted[k]
      BY <1>5, <3>2
    <3> HIDE DEF U
    <3> QED BY <1>6, <2>2, <3>1, <3>3
  <2> QED BY <1>5, <2>1, <2>2
<1>8. U[n+1] = Shown'
  BY <1>5
<1>9. U = [k \in 0..n+1 |-> U[k]]
  OBVIOUS
<1> HIDE DEF U
<1>10. IsView(U, sig.n_in, emitted')
  BY <1>5, <1>7, <1>9 DEF IsView
<1> QED BY <1>1, <1>5, <1>8, <1>10 DEF ParityInv

(* Training and inference agree: at every step the heads of generate() see *)
(* what teacher_forced_loss shows them for the same nodes, for every       *)
(* vocabulary of constants and every choice (graph_gen.py:173-218, 258-316). *)
THEOREM TeacherSeesTheSame == GenSpec => []TeacherParity
<1>1. GenInit => GenInv /\ ParityInv
  BY GenInitInv DEF GenInit, ParityInv
<1>2. GenInv /\ ParityInv /\ [GenNext]_gvars => ParityInv'
  <2> SUFFICES ASSUME GenInv, ParityInv, [GenNext]_gvars PROVE ParityInv'
    OBVIOUS
  <2>1. CASE SeedInputs
    BY <2>1, ParityStart
  <2>2. CASE SeedingRaises
    BY <2>2 DEF SeedingRaises, ParityInv
  <2>3. CASE StackRaises
    BY <2>3 DEF StackRaises, ParityInv
  <2>4. CASE EmitNode
    BY <2>4, ParityEmit DEF EmitNode
  <2>5. CASE Return
    BY <2>5 DEF Return, ReturnStep, ParityInv
  <2>6. CASE DidNotTerminate
    BY <2>6 DEF DidNotTerminate, ParityInv
  <2>7. CASE UNCHANGED gvars
    BY <2>7 DEF gvars, ParityInv, Shown
  <2> QED BY <2>1, <2>2, <2>3, <2>4, <2>5, <2>6, <2>7 DEF GenNext
<1>3. GenInv /\ ParityInv => TeacherParity
  <2> SUFFICES ASSUME GenInv, ParityInv, phase = "running"
               PROVE  TeacherView(sig.n_in, emitted) = Shown
    BY DEF TeacherParity, Shown
  <2>1. Len(emitted) \in Nat
    BY DEF GenInv
  <2>2. PICK V : IsView(V, sig.n_in, emitted) /\ V[Len(emitted)] = Shown
    BY DEF ParityInv
  <2> QED BY <2>1, <2>2, TeacherViewIs
<1> QED BY GenInvariance, <1>1, <1>2, <1>3, PTL DEF GenSpec
=============================================================================
