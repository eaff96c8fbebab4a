------------------------------ MODULE GraphSets ------------------------------
(* The well-formed graphs over given sets of operations, for model         *)
(* checking: every body of a given length, every RETURN operand.           *)
EXTENDS ComputeGraph, Integers

MkNode(op, args, v) == [op |-> op, operands |-> args, val |-> v]

(* Nodes that may follow n references.                                     *)
NodesOver(ops, consts, n) ==
  {MkNode("const", <<>>, c) : c \in consts}
    \cup UNION {{MkNode(op, a, ZeroWord) : a \in [1..ARITY[op] -> 0..n-1]} : op \in ops}

GraphsOf(ops, consts, n, len, i32) ==
  LET Bodies[k \in 0..len] ==
        IF k = 0 THEN {<<>>}
        ELSE {Append(b, nd) : b \in Bodies[k-1], nd \in NodesOver(ops, consts, n + k - 1)}
  IN  {[n_in |-> n, allI32 |-> i32, nodes |-> Append(b, MkNode("return", <<r>>, ZeroWord))] :
         b \in Bodies[len], r \in 0..n+len-1}
=============================================================================
