---------------------------- MODULE MCLowerAndRun ----------------------------
(* All operations of the table at a small width, on graphs of one and two  *)
(* inputs; the target's other registers start with a pattern no -w form makes. *)
EXTENDS LowerAndRun, GraphSets

CONSTANTS LongWords    \* inputs of the longer graphs

T == INSTANCE OpTables

MCReg    == {"a0", "a1", "t0", "t1"}
MCPool   == <<"t0", "t1", "a0", "a1">>
MCArgReg == <<"a0", "a1">>

MCArith(op, a, b)   == T!ApplyOp(op, a, b)
MCDefined(op, a, b) == T!EvalDefined(op, a, b)
MCWInsn(op, a, b)   == T!RvWord(op, a, b)

AllOps     == ArithOps \cup BitOps \cup UnOps \cup {"select"}
Consts     == {T!mask_to(-1)}

(* Two operations on one input, one on two; three divisions or selects.    *)
ShortGraphs == GraphsOf(AllOps, Consts, 1, 2, TRUE) \cup GraphsOf(AllOps, Consts, 2, 1, TRUE)
LongGraphs  == GraphsOf({"sdiv", "select"}, Consts, 1, 3, TRUE)

MCGraphs == ShortGraphs \cup LongGraphs

MCInputs(g) == [0..g.n_in-1 -> IF NSteps(g) > 3 THEN LongWords ELSE Word]
MCLongWords == {ZeroWord, T!mask_to(2)}
MCInitialRegs == {[r \in Reg |-> [i \in 0..X-1 |-> i % 2]]}
=============================================================================
