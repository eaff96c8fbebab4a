------------------------------- MODULE OpTables -------------------------------
(***************************************************************************)
(* The operation tables, on Words: the two-operand arithmetic of           *)
(* _apply_op (src/model/graph.py) and _eval_bin (src/spec/interpreter.py), *)
(* which agree wherever the latter is defined, and the RV64 -w             *)
(* instructions the lowering emits, total as in the ISA.                   *)
(***************************************************************************)
EXTENDS Words, BitVectors

(* The number a word stands for, unsigned and signed, and back.            *)
UVal(w) ==
  LET sum[i \in 0..W] == IF i = 0 THEN 0 ELSE sum[i-1] + w[i-1] * Pow2[i-1]
  IN  sum[W]
SVal(w) == signed(UVal(w), W)
mask_to(n) == [i \in 0..W-1 |-> BitAt(n, i)]

ApplyOp(op, a, b) ==
  LET ua == UVal(a)  ub == UVal(b) IN
  IF op \in {"udiv", "urem", "sdiv", "srem"} /\ ub = 0 THEN ZeroWord
  ELSE mask_to(BinExact(op, ua, ub, W))

(* Where _eval_bin raises UndefinedBehavior instead.                       *)
EvalDefined(op, a, b) == BinDefined(op, UVal(b), W)

(* The ISA: division by zero and overflow have results, a shift uses the   *)
(* low log2(W) bits of its amount (W a power of two).                      *)
RvExact(insn, a, b) ==
  LET ua == UVal(a)  ub == UVal(b)  sa == SVal(a)  sb == SVal(b)
      amount   == ub % W
      overflow == sa = -Pow2[W-1] /\ sb = -1
  IN CASE insn = "addw"  -> ua + ub
       [] insn = "subw"  -> ua - ub
       [] insn = "mulw"  -> ua * ub
       [] insn = "divuw" -> IF ub = 0 THEN -1 ELSE ua \div ub
       [] insn = "remuw" -> IF ub = 0 THEN ua ELSE ua % ub
       [] insn = "divw"  -> IF ub = 0 THEN -1 ELSE IF overflow THEN sa ELSE Quot(sa, sb)
       [] insn = "remw"  -> IF ub = 0 THEN sa ELSE IF overflow THEN 0 ELSE sa - Quot(sa, sb) * sb
       [] insn = "sllw"  -> ua * Pow2[amount]
       [] insn = "srlw"  -> ua \div Pow2[amount]
       [] insn = "sraw"  -> sa \div Pow2[amount]
RvWord(insn, a, b) == mask_to(RvExact(insn, a, b))
=============================================================================
