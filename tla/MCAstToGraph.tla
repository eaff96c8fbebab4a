----------------------------- MODULE MCAstToGraph -----------------------------
(* Bodies of depth two over two inputs of two bits: every operation below  *)
(* every other that matters, both arms of selects, names that are unbound. *)
EXTENDS AstToGraph, OpTables

CONSTANTS BinOps

One == mask_to(1)
Leaves == {Var("x"), Var("y"), Const(One)}
Pairs(A, B) == {Apply(op, <<a, b>>) : op \in BinOps, a \in A, b \in B}
Selects(A, B, C) == {Apply("select", <<a, b, c>>) : a \in A, b \in B, c \in C}
Depth1 == Leaves \cup Pairs(Leaves, Leaves) \cup {Apply(op, <<a>>) : op \in UnOps, a \in Leaves}
                 \cup Selects({Var("x")}, Leaves, Leaves)

MCBodies ==
  Pairs(Depth1, {Var("y"), Const(One)}) \cup Pairs({Var("x")}, Depth1)
    \cup Selects({Var("x")}, Depth1, {Var("y")}) \cup Selects(Depth1, {Var("x")}, {Const(One)})
    \cup {Apply(op, <<a>>) : op \in UnOps \cup {"sext"}, a \in Depth1}
    \cup {Apply("sub", <<Var("r"), Const(One)>>)}

MCExprs == Depth1 \cup MCBodies \cup {Var("r")}
MCHeight(e) == IF e.args = <<>> THEN 0 ELSE IF \A i \in DOMAIN e.args : e.args[i].args = <<>> THEN 1 ELSE 2
MCParams == <<"x", "y">>
MCArith(op, a, b) == ApplyOp(op, a, b)
MCDefined(op, a, b) == EvalDefined(op, a, b)
=============================================================================
