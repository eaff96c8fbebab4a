------------------------------ MODULE MCLowering ------------------------------
(* Every well-formed graph whose inputs and nodes number MaxRefs,          *)
(* over one operation of each arity, and one graph of another type.        *)
EXTENDS Lowering, GraphSets

CONSTANTS MaxRefs, MaxInputs

MCReg    == {"a0", "a1", "a2", "t0"}
MCPool   == <<"t0", "a0", "a1">>
MCArgReg == <<"a0", "a1", "a2">>

MCArith(op, a, b) == a
MCDefined(op, a, b) == TRUE

MCGraphs ==
  UNION {GraphsOf({"sub", "select"}, {ZeroWord}, n, len, TRUE) :
           <<n, len>> \in {<<n, MaxRefs - n>> : n \in 1..MaxInputs} \cup {<<0, 2>>, <<1, 0>>}}
    \cup GraphsOf({"sub"}, {}, 1, 1, FALSE)
=============================================================================
