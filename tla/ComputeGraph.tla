----------------------------- MODULE ComputeGraph -----------------------------
(***************************************************************************)
(* The compute graph (src/model/graph.py): a sequence of operation nodes   *)
(* whose operands point into one reference space, first the inputs, then   *)
(* the nodes in emission order, and its meaning node by node.              *)
(*                                                                         *)
(* Two meanings are kept apart.  The interpreter of the DSL is lazy: an    *)
(* undefined operation matters only where its value is demanded, so the    *)
(* value of a reference is a Word or UB.  evaluate_graph is eager: it      *)
(* computes every node and raises on the first division by zero.           *)
(***************************************************************************)
EXTENDS Words, Integers, Sequences, FiniteSets

CONSTANTS Arith(_, _, _),   \* _apply_op on two Words, the arithmetic operations
          Defined(_, _, _), \* the interpreter gives this operation a value
          UB                \* the interpreter raises UndefinedBehavior

ASSUME UBAssumption == UB \notin Word

(* Operations computed in the word, and those computed bit by bit.         *)
ArithOps == {"add", "sub", "mul", "sdiv", "udiv", "srem", "urem",
             "shl", "lshr", "ashr"}
BitOps   == {"and", "or", "xor"}
UnOps    == {"neg", "not"}
NodeOps  == ArithOps \cup BitOps \cup UnOps \cup {"const", "select", "return"}

ARITY == [op \in NodeOps |->
            CASE op \in ArithOps \cup BitOps -> 2
              [] op \in UnOps \cup {"return"} -> 1
              [] op = "select"               -> 3
              [] op = "const"                -> 0]

(* A node; val is the constant of a "const" node, ZeroWord elsewhere.      *)
GraphNode == [op : NodeOps, operands : Seq(Nat), val : Word]

(* A graph; allI32 tells whether every input and node has type i32.        *)
Graph == [n_in : Nat, allI32 : BOOLEAN, nodes : Seq(GraphNode)]

Node(g, k) == g.nodes[k + 1]          \* nodes are numbered from 0
NSteps(g)  == Len(g.nodes)

Uses(g, k, ref) == \E i \in 1..Len(Node(g, k).operands) : Node(g, k).operands[i] = ref

(* What ast_to_graph and generate establish: operands point backwards and  *)
(* RETURN is the last node and the only one of its kind.                   *)
WellFormed(g) ==
  /\ g \in Graph
  /\ NSteps(g) > 0
  /\ \A k \in 0..NSteps(g)-1 :
       /\ Len(Node(g, k).operands) = ARITY[Node(g, k).op]
       /\ \A i \in 1..Len(Node(g, k).operands) : Node(g, k).operands[i] < g.n_in + k
       /\ Node(g, k).op = "return" <=> k = NSteps(g) - 1

root_ref(g) == Node(g, NSteps(g) - 1).operands[1]

-----------------------------------------------------------------------------
(* One node under the lazy semantics of the interpreter, given the values  *)
(* v of the references before it.                                          *)
BinValue(op, a, b) ==
  IF a = UB \/ b = UB THEN UB
  ELSE CASE op = "and"      -> AndBits(a, b)
         [] op = "or"       -> OrBits(a, b)
         [] op = "xor"      -> XorBits(a, b)
         [] op \in ArithOps -> IF Defined(op, a, b) THEN Arith(op, a, b) ELSE UB

UnValue(op, a) ==
  IF a = UB THEN UB
  ELSE CASE op = "neg" -> Arith("sub", ZeroWord, a)
         [] op = "not" -> NotBits(a)

SelectValue(c, t, f) ==
  IF c = UB THEN UB ELSE IF c # ZeroWord THEN t ELSE f

InterpretNode(node, v) ==
  LET arg(i) == v[node.operands[i]] IN
  CASE node.op = "const"              -> node.val
    [] node.op \in ArithOps \cup BitOps -> BinValue(node.op, arg(1), arg(2))
    [] node.op \in UnOps              -> UnValue(node.op, arg(1))
    [] node.op = "select"             -> SelectValue(arg(1), arg(2), arg(3))

(* The value of every reference, input holding those of the inputs.        *)
Denote(g, input) ==
  LET D[ref \in 0..g.n_in+NSteps(g)-2] ==
        IF ref < g.n_in THEN input[ref] ELSE InterpretNode(Node(g, ref - g.n_in), D)
  IN  D
=============================================================================
