----------------------------- MODULE MCVerdicts -----------------------------
(* Specs over types of one and two bits and candidates of a few lines, on  *)
(* registers of four bits: guarded and unguarded divisions, quantifiers    *)
(* that can and cannot be enumerated, relational specs, narrow inputs.     *)
EXTENDS Verdicts, AsmExec

SpecWith(tys, pre, post) ==
  [inputs |-> [i \in 1..Len(tys)-1 |->
                 [name |-> IF tys[i] = 1 THEN "b" ELSE <<"x", "y">>[i], ty |-> tys[i]]],
   output |-> [name |-> "r", ty |-> tys[Len(tys)]], pre |-> pre, post |-> post]
x == Var("x", 2)  y == Var("y", 2)  r == Var("r", 2)
b == Var("b", 1)  j == Var("j", 1)                  \* of one bit
C(v) == Const(v, 2)
Is(e) == Cmp("eq", r, e)                            \* a functional spec
One == <<2, 2>>  Two == <<2, 2, 2>>  Narrow == <<1, 2>>
Always == TrueF
NotZero(e) == Cmp("ne", e, C(0))
SomeDivisor == Quant("exists", "j", 1, Cmp("eq", Bin("udiv", b, j), b))

Unguarded ==
  Quant("forall", "j", 1, Join("and", Cmp("ne", j, Const(0, 1)), Cmp("ule", Bin("udiv", b, j), b)))

MCSpecs == {
  SpecWith(One, Always, Is(Bin("add", x, C(1)))),
  SpecWith(One, Always, Is(Bin("udiv", C(3), x))),                                \* undefined at 0
  SpecWith(One, Always, Join("or", Cmp("eq", x, C(0)), Is(Bin("udiv", C(3), x)))),
  SpecWith(One, NotZero(x), Join("implies", Cmp("slt", x, C(0)), Is(Un("neg", x, 2)))),
  SpecWith(One, Always, Is(Select(x, Bin("udiv", C(3), x), C(0)))),
  SpecWith(One, Quant("forall", "i", 2, Cmp("ule", Bin("and", x, Var("i", 2)), x)), Is(x)),
  SpecWith(One, Cmp("ult", x, C(2)), Join("and", Cmp("ule", r, x), NotF(Cmp("sgt", r, C(1))))),
  SpecWith(One, FalseF, Is(C(1))),                                             \* no input at all
  SpecWith(One, Always, Let("m", 2, Bin("urem", x, C(2)), Join("iff", NotZero(Var("m", 2)), Is(x)))),
  SpecWith(Narrow, Always, Is(Un("zext", b, 2))),
  SpecWith(Narrow, Always, Is(Un("sext", b, 2))),
  SpecWith(Narrow, SomeDivisor,       Is(C(1))),                               \* undefined divisor 0
  SpecWith(Narrow, Always, Join("or", Is(C(1)), Quant("forall", "j", 1, Cmp("eq", Bin("udiv", b, j), b)))),
  SpecWith(Narrow, Always, Join("or", Is(C(1)), Quant("forall", "j", 1, Cmp("uge", b, j)))),
  SpecWith(Two, Always, Is(Select(y, Bin("sdiv", x, y), C(3)))),
  SpecWith(Two, Always, Is(Bin("shl", x, y))),
  SpecWith(Narrow, Always, Join("and", Is(Un("zext", b, 2)), Unguarded)),      \* undefined where false
  SpecWith(Narrow, Unguarded, Is(C(3))),
  SpecWith(One, Always, Is(C(1))),                        \* the input is not mentioned
  SpecWith(One, Always, Is(Bin("add", C(1), C(1))))}

Program(lines) == [insns |-> Append(lines, Ret), outcomes |-> {"prints"}]
Faulty(how)    == [insns |-> <<Ret>>, outcomes |-> how]
Immediates == {"addi", "andi", "ori", "xori", "slli", "srli", "srai",
               "addiw", "slliw", "srliw", "sraiw", "slti", "sltiu"}
Binary == (DOMAIN Ops64 \cup DOMAIN Ops32 \cup DOMAIN Compares \cup Highs) \ Immediates

Each(P(_), ops) == FoldSet(LAMBDA op, list : Append(list, P(op)), <<>>, ops)

(* The first three are the references.                                     *)
CandList ==
  <<Program(<<>>), Program(<<I("addiw", "a0", "a0", 1)>>), Faulty({"crash", "exits"}),
    Faulty({"error"}), Faulty({"timeout", "writes"}),
    [insns |-> <<I("lw", "a0", "a0", 0)>>, outcomes |-> {"crash"}],
    Program(<<I("li", "a0", "zero", 1)>>), Program(<<R("mv", "a0", "t0", "t0")>>),
    Program(<<I("li", "t0", "zero", 3), R("divuw", "a0", "t0", "a0")>>)>>
  \o Each(LAMBDA op : Program(<<R(op, "a0", "a0", "a1")>>), Binary)
  \o Each(LAMBDA op : Program(<<R(op, "a0", "a0", "a0")>>), Unary)
  \o Each(LAMBDA op : Program(<<I(op, "t0", "a0", 1), R("and", "a0", "t0", "a0")>>), Immediates)

-----------------------------------------------------------------------------
(* All parts of the specs, and how deep they are nested.                   *)
RECURSIVE PartsOf(_)
PartsOf(node) == {node} \cup UNION {PartsOf(p) : p \in TermsIn(node) \cup FormulasIn(node)}
RECURSIVE MCDepth(_)
MCDepth(node) == 1 + Max({0} \cup {MCDepth(p) : p \in TermsIn(node) \cup FormulasIn(node)})
Conditions == UNION {{s.pre, s.post} : s \in MCSpecs}
Parts      == UNION {PartsOf(f) : f \in Conditions}
MCTerms    == {p \in Parts : p.k \in TermKinds}
MCFormulas == {p \in Parts : p.k \in FormulaKinds}

MCWidth(n) == IF n \in {"b", "j"} THEN 1 ELSE 2

MCSpecOf(s) == s
MCCands == DOMAIN CandList
MCRefs  == 1..3

BoundaryOf(w) == <<0, 1, 2^w - 1, 2^(w-1), 2^(w-1) - 1, 2^w - 2>>
MCBoundary(s) ==
  LET of(i) == BoundaryOf(Types(s)[i])
  IN  IF Len(Types(s)) = 1 THEN [i \in 1..6 |-> <<of(1)[i]>>]
      ELSE [i \in 1..36 |-> <<of(1)[((i - 1) \div 6) + 1], of(2)[((i - 1) % 6) + 1]>>]

Widths(s) == Append(Types(s), SpecOf(s).output.ty)
MCHw(c, s, t, others) == Hardware(CandList[c].insns, t, Widths(s), others)
MCSym(c, s, t)        == Symbolic(CandList[c].insns, t, Widths(s))
MCOutcomes(c)         == CandList[c].outcomes
MCTouches(c, s)       == Touched(CandList[c].insns, Len(Params(s)))
MCExecutable(c, s)    == ~Unsupported(CandList[c].insns, Len(Params(s)))
=============================================================================
