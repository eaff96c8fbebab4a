---------------------------- MODULE MCVocabularies ----------------------------
(* Constants of types of 2, 4 and 8 bits; specs of up to six variables on  *)
(* five slots, in pairs that differ in one place or in names only; texts   *)
(* of up to five lines, with two label slots.                              *)
EXTENDS Vocabularies

LOCAL T == INSTANCE SpecTerms

(* Small integers, powers of two of either sign and the special masks, in  *)
(* the source's order and scaled down.                                     *)
MCCanon ==
  <<-3, -2, -1, 0, 1, 2, 3>> \o <<4, 8, 16, 32, 64, 128>>
    \o <<-4, -8, -16, -32, -64, -128>> \o <<127, 255, 15>>
MCTys == <<2, 4, 8>>

P(n)    == [name |-> n, ty |-> 4]
SpecOf(ins, pre, post) == [inputs |-> [i \in DOMAIN ins |-> P(ins[i])], outputs |-> <<P("r")>>, pre |-> pre, post |-> post]
v(n)    == T!Var(n, 4)
c(n)    == T!Const(n, 4)
Is(e)   == T!Cmp("eq", v("r"), e)
Sum(names) == FoldLeft(LAMBDA e, n : T!Bin("add", e, v(n)), v(names[1]), Tail(names))

Specs == <<
  SpecOf(<<"x">>, T!TrueF, Is(v("x"))),
  SpecOf(<<"r">>, T!TrueF, Is(v("x"))),
  SpecOf(<<"y">>, T!TrueF, Is(v("y"))),
  SpecOf(<<"x">>, T!TrueF, Is(v("r"))),
  SpecOf(<<"x">>, T!TrueF, Is(v("free"))),
  SpecOf(<<"x">>, Is(v("x")), T!TrueF),
  SpecOf(<<"x">>, Is(v("x")), Is(v("x"))),
  SpecOf(<<>>, T!TrueF, T!Cmp("eq", v("r"), v("x"))),
  SpecOf(<<"x", "y">>, T!TrueF, Is(T!Bin("sub", v("x"), v("y")))),
  SpecOf(<<"a", "b">>, T!TrueF, Is(T!Bin("sub", v("a"), v("b")))),
  SpecOf(<<"x", "y">>, T!TrueF, Is(T!Bin("sub", v("y"), v("x")))),
  SpecOf(<<"x", "y">>, T!TrueF, Is(T!Select(v("x"), T!Un("not", v("y"), 4), c(1)))),
  SpecOf(<<"x">>, T!TrueF, Is(T!Bin("add", v("x"), c(5)))),
  SpecOf(<<"x">>, T!TrueF, Is(T!Bin("add", v("x"), c(6)))),
  SpecOf(<<"x">>, T!TrueF, Is(T!Bin("add", v("x"), c(15)))),
  SpecOf(<<"x">>, T!TrueF, Is(T!Un("trunc", v("x"), 2))),
  SpecOf(<<"x">>, T!TrueF, Is(T!Un("neg", v("x"), 4))),
  SpecOf(<<"x">>, T!NotF(Is(v("x"))), Is(v("x"))),
  SpecOf(<<"x">>, T!TrueF, T!Join("and", Is(v("x")), T!Join("or", Is(v("x")), Is(v("x"))))),
  SpecOf(<<"x">>, T!TrueF, T!Join("or", T!Join("and", Is(v("x")), Is(v("x"))), Is(v("x")))),
  SpecOf(<<"x">>, T!TrueF, T!Quant("forall", "i", 4, Is(v("i")))),
  SpecOf(<<"x">>, T!TrueF, T!Quant("exists", "j", 4, Is(v("j")))),
  SpecOf(<<"x">>, T!TrueF, T!Quant("forall", "x", 4, Is(v("x")))),
  SpecOf(<<"a", "b", "c", "d">>, T!TrueF, Is(Sum(<<"a", "b", "c", "d">>))),
  SpecOf(<<"a", "b", "c", "d">>, T!TrueF, Is(Sum(<<"a", "b", "d", "c">>))),
  SpecOf(<<"a", "b", "c", "d", "e">>, T!TrueF, Is(Sum(<<"a", "b", "c", "d", "e">>))),
  SpecOf(<<"a", "b", "c", "d", "e">>, T!TrueF, Is(Sum(<<"a", "b", "c", "e", "d">>))),
  SpecOf(<<"x">>, T!TrueF, T!Let("m", 4, c(1), Is(v("m"))))>>                       \* raises

MCSpecIds   == DOMAIN Specs
MCIdents    == {"x", "y", "r", "a", "b", "c", "d", "e", "i", "j", "free", "m"}

(* All parts of the specs, and how deep they are nested.                   *)
RECURSIVE PartsOf(_)
PartsOf(node) == {node} \cup UNION {PartsOf(p) : p \in Range(Parts(node))}
RECURSIVE MCDepth(_)
MCDepth(node) == 1 + Max({0} \cup {MCDepth(p) : p \in Range(Parts(node))})
MCExprs == UNION {PartsOf(f) : f \in UNION {{s.pre, s.post} : s \in Range(Specs)}}

MCSpecAt(i) == Specs[i]

Insn(op, args) == [k |-> "insn", op |-> op, args |-> args]
Label(n)       == [k |-> "label", name |-> n]
MCLines == {Label(Fn), Label("L3"), Label("L10"), [k |-> "mark"], [k |-> "end"],
            Insn("ret", <<>>), Insn("fadd.s", <<>>),
            Insn("beq", <<<<"reg", "x10">>, <<"imm", 7>>, <<".L", "L10">>>>),
            Insn("j", <<<<".L", "L3">>>>), Insn("bgez", <<<<"imm", -1>>, <<".L", "L1">>>>), Insn("call", <<<<"sym", "g">>>>),
            Insn("lw", <<<<"reg", "a0">>, <<"mem", 5, "x10">>>>),
            Insn("lw", <<<<"reg", "a0">>, <<"mem", 0, "f1">>>>)}
MCBuckets == {-1, 0, 7}
MCAlias(n) == IF n = "x10" THEN "a0" ELSE n
MCTokens == {EOS, EOL, COMMA, OOV, <<"op", "ret">>, <<"reg", "a0">>, <<"ref", 0>>, <<"def", 1>>}
=============================================================================
