------------------------------ MODULE AstToGraph ------------------------------
(***************************************************************************)
(* The teacher side of src/model/graph.py: ast_to_graph flattens the body  *)
(* of a functional spec in post-order, and evaluate_graph then runs the    *)
(* graph on one input, a node per iteration.  What it returns is set       *)
(* against the interpreter's value of the body (src/spec/interpreter.py).  *)
(***************************************************************************)
EXTENDS ComputeGraph, Integers

CONSTANTS Exprs,     \* expressions: a kind, an operation, subexpressions, a name, a value
          Height(_), \* how deep an expression is nested
          Bodies,    \* those that are bodies of specs
          Params     \* names of the inputs, in order

VARIABLES body,   \* the spec's body
          input,  \* input_values, by reference
          status, \* "called", "running", "returned", "raised" or "unsupported"
          graph,  \* ast_to_graph(spec)
          vals    \* values of the references computed so far

avars == <<body, input, status, graph, vals>>

ExprOps     == ArithOps \cup BitOps \cup UnOps \cup {"select"}
Conversions == {"sext", "zext", "trunc"}

(* Subexpressions are expressions, and nested less deeply; mask_to ends    *)
(* every computation.                                                      *)
ASSUME ExprAssumption ==
  /\ Params \in Seq(STRING) /\ Bodies \subseteq Exprs
  /\ \A e \in Exprs :
       /\ e.kind \in {"var", "const", "op"} /\ Height(e) \in Nat /\ e.val \in Word
       /\ e.kind = "op" => e.op \in ExprOps \cup Conversions
       /\ e.op \in ExprOps => Len(e.args) = ARITY[e.op]
       /\ \A i \in 1..Len(e.args) : e.args[i] \in Exprs /\ Height(e.args[i]) < Height(e)
  /\ \A op \in ArithOps : \A a, b \in Word : Arith(op, a, b) \in Word

-----------------------------------------------------------------------------
(* Expressions.                                                            *)
Expr(kind, op, args, name, val) ==
  [kind |-> kind, op |-> op, args |-> args, name |-> name, val |-> val]
Var(name)       == Expr("var", "none", <<>>, name, ZeroWord)
Const(v)        == Expr("const", "const", <<>>, "none", v)
Apply(op, args) == Expr("op", op, args, "none", ZeroWord)

IsParam(name) == \E i \in 1..Len(Params) : Params[i] = name

(* A later parameter hides an earlier one of the same name.                *)
ParamOf(name) ==
  CHOOSE i \in 1..Len(Params) : Params[i] = name /\ \A j \in i+1..Len(Params) : Params[j] # name

(* What ast_to_graph raises UnsupportedAstOp for: a name that is no input, *)
(* a conversion between widths.  S holds the answers for subexpressions.   *)
SupportedIf(x, S) ==
  CASE x.kind = "var"   -> IsParam(x.name)
    [] x.kind = "const" -> TRUE
    [] x.kind = "op"    -> x.op \in NodeOps /\ \A i \in 1..Len(x.args) : S[x.args[i]]

Supported(e) == LET S[x \in Exprs] == SupportedIf(x, S) IN S[e]

Supportable == {e \in Exprs : Supported(e)}

(* Append a node; its reference.  Slip: the reference is that of the node  *)
(* before it.                                                              *)
Emitted(nodes, ref) == [nodes |-> nodes, ref |-> ref]
MkNode(op, refs, v) == [op |-> op, operands |-> refs, val |-> v]

PushNodeBefore(nodes, op, refs, v) ==
  Emitted(Append(nodes, MkNode(op, refs, v)), Len(Params) + Len(nodes) - 1)
PushNode(nodes, op, refs, v) ==
  Emitted(Append(nodes, MkNode(op, refs, v)), Len(Params) + Len(nodes))

(* emit(x): the nodes ns with those of x appended, and x's reference.  E   *)
(* emits the subexpressions, left to right.                                *)
EmitWith(x, ns, E) ==
  LET a == E[x.args[1]][ns]
      b == E[x.args[2]][a.nodes]
      c == E[x.args[3]][b.nodes]
  IN  CASE x.kind = "var"   -> Emitted(ns, ParamOf(x.name) - 1)
        [] x.kind = "const" -> PushNode(ns, "const", <<>>, x.val)
        [] x.kind = "op" /\ x.op \in UnOps -> PushNode(a.nodes, x.op, <<a.ref>>, ZeroWord)
        [] x.kind = "op" /\ x.op \in ArithOps \cup BitOps ->
             PushNode(b.nodes, x.op, <<a.ref, b.ref>>, ZeroWord)
        [] x.kind = "op" /\ x.op = "select" ->
             PushNode(c.nodes, "select", <<a.ref, b.ref, c.ref>>, ZeroWord)

Emit(e, nodes) ==
  LET E[x \in Supportable] == [ns \in Seq(GraphNode) |-> EmitWith(x, ns, E)] IN E[e][nodes]

ExtractedGraph(e) ==
  LET root == Emit(e, <<>>)
  IN  [n_in   |-> Len(Params), allI32 |-> TRUE,
       nodes  |-> Append(root.nodes, [op |-> "return", operands |-> <<root.ref>>, val |-> ZeroWord])]

(* _eval_expr: depth first, a select evaluates one arm.  V holds the values *)
(* of subexpressions.                                                      *)
ValueWith(x, V) ==
  LET arg(i) == V[x.args[i]] IN
  CASE x.kind = "var"   -> input[ParamOf(x.name) - 1]
    [] x.kind = "const" -> x.val
    [] x.kind = "op" /\ x.op \in ArithOps \cup BitOps -> BinValue(x.op, arg(1), arg(2))
    [] x.kind = "op" /\ x.op \in UnOps -> UnValue(x.op, arg(1))
    [] x.kind = "op" /\ x.op = "select" ->
         IF arg(1) = UB THEN UB ELSE IF arg(1) = ZeroWord THEN arg(3) ELSE arg(2)

EvalExpr(e) == LET V[x \in Supportable] == ValueWith(x, V) IN V[e]

-----------------------------------------------------------------------------
(* _apply_op on computed operands, total but for division by zero.         *)
Divisions == {"sdiv", "udiv", "srem", "urem"}
Raises(op, a) == op \in Divisions /\ a[2] = ZeroWord

(* Slip: the condition is tested the wrong way.                            *)
OtherArm(a) == IF a[1] = ZeroWord THEN a[2] ELSE a[3]
TakenArm(a) == IF a[1] # ZeroWord THEN a[2] ELSE a[3]

NodeValue(node) ==
  LET a == [i \in DOMAIN node.operands |-> vals[node.operands[i] + 1]] IN
  CASE node.op = "const"    -> node.val
    [] node.op \in ArithOps -> Arith(node.op, a[1], a[2])
    [] node.op = "and"      -> AndBits(a[1], a[2])
    [] node.op = "or"       -> OrBits(a[1], a[2])
    [] node.op = "xor"      -> XorBits(a[1], a[2])
    [] node.op = "neg"      -> Arith("sub", ZeroWord, a[1])
    [] node.op = "not"      -> NotBits(a[1])
    [] node.op = "select"   -> TakenArm(a)

NextNode == Node(graph, Len(vals) - graph.n_in)
NodeRaises == Raises(NextNode.op, [i \in DOMAIN NextNode.operands |-> vals[NextNode.operands[i] + 1]])

AstInit ==
  /\ body \in Bodies /\ input \in [0..Len(Params)-1 -> Word]
  /\ status = "called" /\ graph = <<>> /\ vals = <<>>

Unsupported ==
  /\ status = "called" /\ ~Supported(body)
  /\ status' = "unsupported"
  /\ UNCHANGED <<body, input, graph, vals>>

(* ast_to_graph, and evaluate_graph entered with the masked inputs.        *)
Extract ==
  /\ status = "called" /\ Supported(body)
  /\ graph' = ExtractedGraph(body)
  /\ vals' = [i \in 1..Len(Params) |-> input[i - 1]]
  /\ status' = "running"
  /\ UNCHANGED <<body, input>>

EvalNode ==
  /\ status = "running" /\ NextNode.op # "return" /\ ~NodeRaises
  /\ vals' = Append(vals, NodeValue(NextNode))
  /\ UNCHANGED <<body, input, status, graph>>

(* ZeroDivisionError.                                                      *)
EvalRaises ==
  /\ status = "running" /\ NextNode.op # "return" /\ NodeRaises
  /\ status' = "raised"
  /\ UNCHANGED <<body, input, graph, vals>>

EvalReturn ==
  /\ status = "running" /\ NextNode.op = "return"
  /\ status' = "returned"
  /\ UNCHANGED <<body, input, graph, vals>>

AstNext == Unsupported \/ Extract \/ EvalNode \/ EvalRaises \/ EvalReturn
AstSpec == AstInit /\ [][AstNext]_avars

-----------------------------------------------------------------------------
Result == vals[root_ref(graph) + 1]

(* The extracted graph is one lower() accepts, and it means what the body  *)
(* means to the interpreter, undefined in the same places.                 *)
ExtractionFaithful ==
  status = "running" =>
    /\ WellFormed(graph)
    /\ Denote(graph, input)[root_ref(graph)] = EvalExpr(body)

(* Whenever the eager evaluator returns a value and the interpreter has    *)
(* one, they are the same.                                                 *)
EvaluatorsAgree == status = "returned" /\ EvalExpr(body) # UB => Result = EvalExpr(body)
=============================================================================
