-------------------------- MODULE VocabulariesProofs --------------------------
(***************************************************************************)
(* Theorems about what the networks read and write, for every vocabulary,  *)
(* every constant, every two specs however deep, every text of a function  *)
(* and every sequence the decoder generates.                               *)
(***************************************************************************)
EXTENDS Vocabularies, OrderProofs

(* Half the values of a type are negative as signed ones.                  *)
LEMMA HalfFacts ==
  ASSUME NEW w \in Nat \ {0}
  PROVE  Pow2[w-1] \in Nat \ {0} /\ Pow2[w] = Pow2[w-1] + Pow2[w-1]
<1>1. w - 1 \in Nat /\ (w - 1) + 1 = w
  OBVIOUS
<1>2. Pow2[w-1] \in Nat \ {0} /\ Pow2[w] = 2 * Pow2[w-1]
  BY <1>1, Pow2Facts
<1> QED BY <1>2

(* A negative integer's value is the integer plus the size of the type.    *)
LEMMA MaskNegative ==
  ASSUME NEW w \in Nat \ {0}, NEW n \in Int, -Pow2[w] <= n, n < 0
  PROVE  mask(n, w) = n + Pow2[w]
<1> DEFINE p == Pow2[w]
<1>1. p \in Nat \ {0}
  BY Pow2Facts
<1>2. mask(n, w) = n % p
  BY DEF mask
<1>3. -p <= n
  OBVIOUS
<1> HIDE DEF p
<1>4. n % p = n + p
  BY <1>1, <1>3
<1> QED BY <1>2, <1>4 DEF p

(* What a lookup finds is the integer looked up.                           *)
LEMMA LookupFacts ==
  ASSUME NEW n \in Int
  PROVE  /\ Lookup(n) # OOVIndex => Lookup(n) \in 1..Len(Canon) /\ Canon[Lookup(n)] = n
         /\ \A i \in 1..Len(Canon) : Canon[i] = n => Lookup(n) # OOVIndex
<1>1. Len(Canon) \in Nat
  BY CanonAssumption, LenProperties
<1>2. CASE \E i \in 1..Len(Canon) : Canon[i] = n
  <2>1. Lookup(n) = CHOOSE i \in 1..Len(Canon) : Canon[i] = n
    BY <1>2 DEF Lookup
  <2>2. Lookup(n) \in 1..Len(Canon) /\ Canon[Lookup(n)] = n
    BY <1>2, <2>1
  <2> QED BY <1>1, <2>2 DEF OOVIndex
<1>3. CASE ~\E i \in 1..Len(Canon) : Canon[i] = n
  BY <1>3 DEF Lookup
<1> QED BY <1>2, <1>3

(* The value of a signed reading is the value read.                        *)
LEMMA SignedReading ==
  ASSUME NEW w \in Nat \ {0}, NEW n \in Values(w)
  PROVE  /\ signed(mask(n, w), w) \in Int /\ mask(signed(mask(n, w), w), w) = n /\ mask(n, w) = n
         /\ n >= Pow2[w-1] => signed(mask(n, w), w) = n - Pow2[w]
<1> DEFINE p == Pow2[w]
<1>1. p \in Nat \ {0} /\ n \in 0..p-1 /\ Pow2[w-1] \in Nat
  BY HalfFacts, Pow2Facts DEF Values
<1>2. mask(n, w) = n
  BY MaskFacts
<1>3. signed(n, w) = IF n >= Pow2[w-1] THEN n - p ELSE n
  BY DEF signed
<1>4. CASE n >= Pow2[w-1]
  <2>1. n - p \in Int /\ -p <= n - p /\ n - p < 0 /\ (n - p) + p = n
    BY <1>1
  <2>2. mask(n - p, w) = (n - p) + p
    BY <2>1, MaskNegative
  <2> QED BY <1>2, <1>3, <1>4, <2>1, <2>2
<1>5. CASE ~(n >= Pow2[w-1])
  BY <1>1, <1>2, <1>3, <1>5
<1> QED BY <1>4, <1>5

(* encode and decode, of any value of any type.                            *)
LEMMA EncodeFacts ==
  ASSUME NEW w \in Nat \ {0}, NEW n \in Values(w)
  PROVE  /\ Encode(n, w) # OOVIndex => Decode(Encode(n, w), w) = n
         /\ Encode(n, w) = OOVIndex =>
              \A i \in 1..Len(Canon) :
                -Pow2[w-1] <= Canon[i] /\ Canon[i] < Pow2[w] => mask(Canon[i], w) # n
<1> DEFINE s == signed(mask(n, w), w)
<1>0. /\ n \in Int /\ s \in Int /\ mask(s, w) = n /\ mask(n, w) = n
      /\ n >= Pow2[w-1] => s = n - Pow2[w]
  BY SignedReading, MaskFacts
<1>1. Encode(n, w) = IF Lookup(n) # OOVIndex THEN Lookup(n) ELSE Lookup(s)
  BY DEF Encode
<1>p. Pow2[w] \in Nat /\ Pow2[w-1] \in Nat /\ Pow2[w] = Pow2[w-1] + Pow2[w-1]
  BY HalfFacts
<1> HIDE DEF s
<1>2. ASSUME Encode(n, w) # OOVIndex PROVE Decode(Encode(n, w), w) = n
  <2> DEFINE i == Encode(n, w)
  <2>1. Canon[i] \in {n, s}
    BY <1>0, <1>1, <1>2, LookupFacts
  <2>2. mask(Canon[i], w) = n
    BY <1>0, <2>1
  <2> QED BY <1>2, <2>2 DEF Decode
<1>3. ASSUME Encode(n, w) = OOVIndex, NEW i \in 1..Len(Canon), -Pow2[w-1] <= Canon[i], Canon[i] < Pow2[w],
             mask(Canon[i], w) = n
      PROVE  FALSE
  <2> DEFINE c == Canon[i]
  <2>1. c \in Int
    BY CanonAssumption, ElementOfSeq
  <2>2. Lookup(n) = OOVIndex /\ Lookup(s) = OOVIndex
    BY <1>1, <1>3
  <2>3. c # n /\ c # s
    BY <1>0, <2>2, LookupFacts
  <2> HIDE DEF c
  <2>4. CASE c >= 0
    <3>1. c \in Values(w) BY <1>3, <1>p, <2>1, <2>4 DEF Values, c
    <3>2. mask(c, w) = c BY <3>1, MaskFacts
    <3> QED BY <1>3, <2>3, <3>2 DEF c
  <2>5. CASE c < 0
    <3>1. -Pow2[w-1] <= c BY <1>3 DEF c
    <3>2. -Pow2[w] <= c BY <1>p, <2>1, <3>1
    <3>3. n = c + Pow2[w] BY <1>3, <2>1, <2>5, <3>2, MaskNegative DEF c
    <3>4. n >= Pow2[w-1] BY <1>p, <2>1, <3>1, <3>3
    <3>5. s = c BY <1>0, <1>p, <2>1, <3>3, <3>4
    <3> QED BY <2>3, <3>5
  <2> QED BY <2>1, <2>4, <2>5
<1> QED BY <1>2, <1>3

(* A constant is a value of its type.                                      *)
ConstInv == job = "const" => width \in Widths /\ value \in Values(width)

LEMMA ConstInvariance == VocabulariesSpec => []ConstInv
<1>1. VocabulariesInit => ConstInv
  <2> SUFFICES ASSUME VocabulariesInit, job = "const" PROVE width \in Widths /\ value \in Values(width)
    BY DEF ConstInv
  <2>1. width \in Widths /\ value = 0 BY DEF VocabulariesInit
  <2>2. width \in Nat BY <2>1, CanonAssumption
  <2> QED BY <2>1, <2>2, MaskFacts
<1>2. ConstInv /\ [VocabulariesNext]_vvars => ConstInv'
  <2> SUFFICES ASSUME ConstInv, [VocabulariesNext]_vvars, job' = "const"
               PROVE  (width \in Widths /\ value \in Values(width))'
    BY DEF ConstInv
  <2>1. job = "const"
    BY DEF VocabulariesNext, NextConst, AddLine, AddToken, vvars
  <2>2. CASE NextConst
    <3>1. value' = value + 1 /\ width' = width /\ value + 1 < Pow2[width] BY <2>2 DEF NextConst, VocabNext
    <3>2. width \in Nat /\ value \in Nat BY <2>1, CanonAssumption, MaskFacts DEF ConstInv
    <3>3. Pow2[width] \in Nat BY <3>2, Pow2Facts
    <3>4. value + 1 \in Values(width) BY <3>1, <3>2, <3>3 DEF Values
    <3> QED BY <2>1, <3>1, <3>4 DEF ConstInv
  <2>3. CASE AddLine \/ AddToken \/ UNCHANGED vvars
    <3>1. UNCHANGED <<value, width>> BY <2>3 DEF AddLine, AddToken, vvars
    <3> QED BY <2>1, <3>1 DEF ConstInv
  <2> QED BY <2>2, <2>3 DEF VocabulariesNext
<1> QED BY <1>1, <1>2, PTL DEF VocabulariesSpec

(* encode and decode: a constant in a bucket decodes to itself, and one is *)
(* out of vocabulary only if no canonical integer of its type has its      *)
(* value (src/model/vocab.py:53-74).                                       *)
THEOREM ConstantsRoundTrip == VocabulariesSpec => []ConstsRoundTrip
<1>1. ConstInv => ConstsRoundTrip
  <2> SUFFICES ASSUME ConstInv, job = "const"
               PROVE  IF Encode(value, width) # OOVIndex THEN Decode(Encode(value, width), width) = value
                      ELSE NoneLost
    BY DEF ConstsRoundTrip
  <2>1. width \in Nat \ {0} /\ value \in Values(width)
    BY CanonAssumption DEF ConstInv
  <2> QED BY <2>1, EncodeFacts DEF NoneLost
<1> QED BY <1>1, ConstInvariance, PTL

-----------------------------------------------------------------------------
(* Tokens of a spec.  What two equal concatenations begin with is equal if *)
(* it is as long, and then so is the rest.                                 *)
LEMMA CancelHeads ==
  ASSUME NEW S, NEW u \in Seq(S), NEW v \in Seq(S), NEW s \in Seq(S), NEW t \in Seq(S),
         Len(u) = Len(v), u \o s = v \o t
  PROVE  u = v /\ s = t
<1>1. Len(u) \in Nat /\ Len(s) \in Nat /\ Len(t) \in Nat
  BY LenProperties
<1>2. /\ Len(u \o s) = Len(u) + Len(s) /\ Len(v \o t) = Len(v) + Len(t)
      /\ \A i \in 1..Len(u) + Len(s) : (u \o s)[i] = IF i <= Len(u) THEN u[i] ELSE s[i - Len(u)]
      /\ \A i \in 1..Len(v) + Len(t) : (v \o t)[i] = IF i <= Len(v) THEN v[i] ELSE t[i - Len(v)]
  BY ConcatProperties
<1>3. Len(s) = Len(t)
  BY <1>1, <1>2
<1>4. \A i \in 1..Len(u) : u[i] = v[i]
  <2> TAKE i \in 1..Len(u)
  <2>1. i \in 1..Len(u) + Len(s) /\ i <= Len(u) BY <1>1
  <2> QED BY <1>2, <1>3, <2>1
<1>5. u = v
  BY <1>4, SeqEqual
<1> QED BY <1>5, ConcatSimplifications

(* Where a value is in a list, and which value is there.                   *)
LEMMA IndexFacts ==
  ASSUME NEW S, NEW s \in Seq(S), NEW v \in Range(s)
  PROVE  Index(s, v) \in 0..Len(s)-1 /\ s[Index(s, v) + 1] = v
<1> DEFINE i == CHOOSE i \in DOMAIN s : s[i] = v
<1>1. DOMAIN s = 1..Len(s) /\ Len(s) \in Nat
  BY LenProperties
<1>2. \E j \in DOMAIN s : s[j] = v
  BY DEF Range
<1>3. i \in DOMAIN s /\ s[i] = v
  BY <1>2
<1>4. Index(s, v) = i - 1
  BY DEF Index
<1> HIDE DEF i
<1> QED BY <1>1, <1>3, <1>4

(* A list is one of its elements.                                          *)
LEMMA OwnRange ==
  ASSUME NEW s, NEW n \in Nat, s = [i \in 1..n |-> s[i]]
  PROVE  s \in Seq(Range(s)) /\ Len(s) = n
<1>1. s \in [1..n -> Range(s)]
  BY DEF Range
<1> QED BY <1>1, FunctionIsSeq

(* The kinds of nodes tokenize_spec takes, each with a token of its own.   *)
Heads == {"const", "var", "bin", "un", "select", "cmp", "not", "true", "false"} \cup Connectives \cup Quantifiers
Marks == {"cls", "inp(", ")inp", "pre(", ")pre", "post(", ")post", "UNK"}

(* They are among the special tokens.                                      *)
LEMMA SpecialFacts ==
  /\ Specials \in Seq(Range(Specials)) /\ Len(Specials) = 29
  /\ Heads \cup Marks \subseteq Range(Specials)
<1>0. Specials = [i \in 1..29 |-> Specials[i]]
  BY DEF Specials
<1>1. Specials \in Seq(Range(Specials)) /\ Len(Specials) = 29
  BY <1>0, OwnRange
<1>2. DOMAIN Specials = 1..29
  BY DEF Specials
<1>3. /\ Specials[4] = "UNK" /\ Specials[2] = "cls" /\ Specials[5] = "inp(" /\ Specials[6] = ")inp"
      /\ Specials[7] = "pre(" /\ Specials[8] = ")pre" /\ Specials[9] = "post(" /\ Specials[10] = ")post"
  BY DEF Specials
<1>4. /\ Specials[14] = "const" /\ Specials[15] = "var" /\ Specials[16] = "bin" /\ Specials[17] = "un"
      /\ Specials[18] = "select" /\ Specials[19] = "cmp" /\ Specials[20] = "not" /\ Specials[21] = "and"
      /\ Specials[22] = "or" /\ Specials[23] = "implies" /\ Specials[24] = "iff" /\ Specials[25] = "forall"
      /\ Specials[26] = "exists" /\ Specials[27] = "true" /\ Specials[28] = "false"
  BY DEF Specials
<1>5. \A i \in 1..29 : Specials[i] \in Range(Specials)
  BY <1>2 DEF Range
<1>6. Marks \subseteq Range(Specials)
  BY <1>3, <1>5 DEF Marks
<1>7. Heads \subseteq Range(Specials)
  BY <1>4, <1>5 DEF Heads, Connectives, Quantifiers
<1> QED BY <1>1, <1>6, <1>7

(* Special tokens are told apart.                                          *)
LEMMA TokFacts ==
  /\ \A k \in Heads \cup Marks : tok(k) \in 0..28
  /\ \A k, l \in Heads \cup Marks : tok(k) = tok(l) => k = l
<1>1. \A k \in Heads \cup Marks : tok(k) \in 0..28 /\ Specials[tok(k) + 1] = k
  <2> TAKE k \in Heads \cup Marks
  <2>1. k \in Range(Specials)
    BY SpecialFacts
  <2>2. Index(Specials, k) \in 0..29-1 /\ Specials[Index(Specials, k) + 1] = k
    BY <2>1, SpecialFacts, IndexFacts
  <2> QED BY <2>2 DEF tok
<1> QED BY <1>1

(* Operators are listed.                                                   *)
LEMMA OperatorFacts ==
  /\ BinOps \in Seq(Range(BinOps)) /\ UnOps \in Seq(Range(UnOps)) /\ CmpOps \in Seq(Range(CmpOps))
<1>1. BinOps = [i \in 1..13 |-> BinOps[i]] BY DEF BinOps
<1>2. UnOps = [i \in 1..5 |-> UnOps[i]] BY DEF UnOps
<1>3. CmpOps = [i \in 1..10 |-> CmpOps[i]] BY DEF CmpOps
<1> QED BY <1>1, <1>2, <1>3, OwnRange

(* The ranges of the id space follow each other.                           *)
LEMMA OffsetFacts ==
  /\ {OffTypes, OffBin, OffUn, OffCmp, OffVars, OffConsts} \subseteq Nat
  /\ OffVars > 28
<1>2. Len(BinOps) \in Nat /\ Len(UnOps) \in Nat /\ Len(CmpOps) \in Nat /\ Len(Tys) \in Nat /\ Len(Specials) = 29
  BY OperatorFacts, SlotAssumption, SpecialFacts, LenProperties
<1>3. OffTypes \in Nat /\ OffTypes > 28 BY <1>2 DEF OffTypes
<1>4. OffBin \in Nat /\ OffBin > 28 BY <1>2, <1>3 DEF OffBin
<1>5. OffUn \in Nat /\ OffUn > 28 BY <1>2, <1>4 DEF OffUn
<1>6. OffCmp \in Nat /\ OffCmp > 28 BY <1>2, <1>5 DEF OffCmp
<1>7. OffVars \in Nat /\ OffVars > 28 BY <1>2, <1>6 DEF OffVars
<1>8. OffConsts \in Nat BY <1>7, SlotAssumption DEF OffConsts
<1> QED BY <1>3, <1>4, <1>5, <1>6, <1>7, <1>8

(* Types, operators and buckets are told apart by their ids.               *)
LEMMA IdFacts ==
  /\ \A w \in Range(Tys) : ty(w) \in Int
  /\ \A v, w \in Range(Tys) : ty(v) = ty(w) => v = w
  /\ \A o \in Range(BinOps) : bin_op(o) \in Int
  /\ \A o, p \in Range(BinOps) : bin_op(o) = bin_op(p) => o = p
  /\ \A o \in Range(UnOps) : un_op(o) \in Int
  /\ \A o, p \in Range(UnOps) : un_op(o) = un_op(p) => o = p
  /\ \A o \in Range(CmpOps) : cmp_op(o) \in Int
  /\ \A o, p \in Range(CmpOps) : cmp_op(o) = cmp_op(p) => o = p
<1>1. \A S : \A s \in Seq(S) : \A v \in Range(s) : Index(s, v) \in Int /\ s[Index(s, v) + 1] = v
  <2> SUFFICES ASSUME NEW S, NEW s \in Seq(S), NEW v \in Range(s)
               PROVE  Index(s, v) \in Int /\ s[Index(s, v) + 1] = v
    OBVIOUS
  <2>1. Index(s, v) \in 0..Len(s)-1 /\ s[Index(s, v) + 1] = v BY IndexFacts
  <2>2. Len(s) \in Nat BY LenProperties
  <2> QED BY <2>1, <2>2
<1>2. \A w \in Range(Tys) : Index(Tys, w) \in Int /\ Tys[Index(Tys, w) + 1] = w
  BY <1>1, SlotAssumption
<1>3. \A o \in Range(BinOps) : Index(BinOps, o) \in Int /\ BinOps[Index(BinOps, o) + 1] = o
  BY OperatorFacts, <1>1
<1>4. \A o \in Range(UnOps) : Index(UnOps, o) \in Int /\ UnOps[Index(UnOps, o) + 1] = o
  BY OperatorFacts, <1>1
<1>5. \A o \in Range(CmpOps) : Index(CmpOps, o) \in Int /\ CmpOps[Index(CmpOps, o) + 1] = o
  BY OperatorFacts, <1>1
<1>6. \A c \in Nat : \A m, n \in Int : c + m \in Int /\ (c + m = c + n => m = n)
  OBVIOUS
<1>7. OffTypes \in Nat /\ OffBin \in Nat /\ OffUn \in Nat /\ OffCmp \in Nat
  BY OffsetFacts
<1>8. \A w \in Range(Tys) : ty(w) \in Int /\ \A v \in Range(Tys) : ty(v) = ty(w) => v = w
  BY <1>2, <1>6, <1>7 DEF ty
<1>9. \A o \in Range(BinOps) : bin_op(o) \in Int /\ \A p \in Range(BinOps) : bin_op(o) = bin_op(p) => o = p
  BY <1>3, <1>6, <1>7 DEF bin_op
<1>10. \A o \in Range(UnOps) : un_op(o) \in Int /\ \A p \in Range(UnOps) : un_op(o) = un_op(p) => o = p
  BY <1>4, <1>6, <1>7 DEF un_op
<1>11. \A o \in Range(CmpOps) : cmp_op(o) \in Int /\ \A p \in Range(CmpOps) : cmp_op(o) = cmp_op(p) => o = p
  BY <1>5, <1>6, <1>7 DEF cmp_op
<1> QED BY <1>8, <1>9, <1>10, <1>11

-----------------------------------------------------------------------------
(* Terms and formulas.  There are at most three parts, and kinds tell how  *)
(* many.                                                                   *)
Arity(k) ==
  CASE k \in {"bin", "cmp"} \cup Connectives -> 2
    [] k \in {"un", "not"} \cup Quantifiers  -> 1
    [] k = "select"                          -> 3
    [] OTHER                                 -> 0

(* The parts of a term are terms nested less deep.                         *)
LEMMA PartsFacts ==
  ASSUME NEW e \in Exprs
  PROVE  /\ Parts(e) \in Seq(Exprs) /\ Len(Parts(e)) = Arity(e.k) /\ Arity(e.k) \in 0..3
         /\ DOMAIN Parts(e) = 1..Arity(e.k)
         /\ \A i \in 1..Arity(e.k) :
              Parts(e)[i] \in Exprs /\ Depth(Parts(e)[i]) \in Nat /\ Depth(Parts(e)[i]) < Depth(e)
<1> DEFINE P == Parts(e)
<1>1. \A i \in DOMAIN P : P[i] \in Exprs /\ Depth(P[i]) \in Nat /\ Depth(P[i]) < Depth(e)
  BY ExprAssumption
<1>2. ASSUME NEW n \in 0..3, DOMAIN P = 1..n, P = [i \in 1..n |-> P[i]], Arity(e.k) = n
      PROVE  P \in Seq(Exprs) /\ Len(P) = Arity(e.k) /\ Arity(e.k) \in 0..3 /\ DOMAIN P = 1..Arity(e.k)
  <2>1. P \in [1..n -> Exprs]
    BY <1>1, <1>2
  <2> QED BY <1>2, <2>1, FunctionIsSeq
<1>3. CASE e.k \in {"bin", "cmp"} \cup Connectives
  <2>1. P = <<e.lhs, e.rhs>> BY <1>3 DEF Parts, Connectives, Quantifiers
  <2>2. DOMAIN P = 1..2 /\ P = [i \in 1..2 |-> P[i]] BY <2>1
  <2>3. Arity(e.k) = 2 BY <1>3 DEF Arity, Connectives, Quantifiers
  <2> QED BY <1>1, <1>2, <2>2, <2>3
<1>4. CASE e.k \in {"un", "not"}
  <2>1. P = <<e.arg>> BY <1>4 DEF Parts, Connectives, Quantifiers
  <2>2. DOMAIN P = 1..1 /\ P = [i \in 1..1 |-> P[i]] BY <2>1
  <2>3. Arity(e.k) = 1 BY <1>4 DEF Arity, Connectives, Quantifiers
  <2> QED BY <1>1, <1>2, <2>2, <2>3
<1>5. CASE e.k = "select"
  <2>1. P = <<e.cond, e.then, e.else>> BY <1>5 DEF Parts, Connectives, Quantifiers
  <2>2. DOMAIN P = 1..3 /\ P = [i \in 1..3 |-> P[i]] BY <2>1
  <2>3. Arity(e.k) = 3 BY <1>5 DEF Arity, Connectives, Quantifiers
  <2> QED BY <1>1, <1>2, <2>2, <2>3
<1>6. CASE e.k \in Quantifiers
  <2>1. P = <<e.body>> BY <1>6 DEF Parts, Connectives, Quantifiers
  <2>2. DOMAIN P = 1..1 /\ P = [i \in 1..1 |-> P[i]] BY <2>1
  <2>3. Arity(e.k) = 1 BY <1>6 DEF Arity, Connectives, Quantifiers
  <2> QED BY <1>1, <1>2, <2>2, <2>3
<1>7. CASE e.k \notin {"bin", "cmp", "un", "not", "select"} \cup Connectives \cup Quantifiers
  <2>1. P = <<>> BY <1>7 DEF Parts, Connectives, Quantifiers
  <2>2. Arity(e.k) = 0 BY <1>7 DEF Arity, Connectives, Quantifiers
  <2>3. DOMAIN P = 1..0 /\ P = [i \in 1..0 |-> P[i]] BY <2>1
  <2> QED BY <1>1, <1>2, <2>2, <2>3
<1> QED BY <1>3, <1>4, <1>5, <1>6, <1>7

(* What holds of a term when it holds of all nested less deep holds of all.*)
LEMMA DeeperLater ==
  ASSUME NEW Good, \A x \in Exprs : (\A y \in Exprs : Depth(y) < Depth(x) => y \in Good) => x \in Good
  PROVE  Exprs \subseteq Good
<1> DEFINE h == [x \in Exprs |-> Depth(x)]
<1>1. h \in [Exprs -> Nat] /\ \A x \in Exprs : h[x] = Depth(x)
  BY ExprAssumption
<1> HIDE DEF h
<1>2. \A x \in Exprs : (\A y \in Exprs : h[y] < h[x] => y \in Good) => x \in Good
  BY <1>1
<1> QED BY <1>1, <1>2, RankInduction, Zenon

(* Sequences in turn are a sequence.                                       *)
LEMMA InTurnFacts ==
  ASSUME NEW S, NEW n \in 0..3, NEW f \in [1..n -> Seq(S)]
  PROVE  /\ InTurn(f) \in Seq(S)
         /\ n = 0 => InTurn(f) = <<>>
         /\ n = 1 => InTurn(f) = f[1]
         /\ n = 2 => InTurn(f) = f[1] \o f[2]
         /\ n = 3 => InTurn(f) = f[1] \o f[2] \o f[3]
<1>0. n \in Nat /\ (n = 0 \/ n = 1 \/ n = 2 \/ n = 3)
  OBVIOUS
<1>1. Len(f) = n
  BY <1>0, FunctionIsSeq
<1>2. CASE n = 0
  BY <1>1, <1>2, EmptySeq DEF InTurn
<1>3. CASE n = 1
  BY <1>1, <1>3 DEF InTurn
<1>4. CASE n = 2
  <2>1. InTurn(f) = f[1] \o f[2] BY <1>1, <1>4 DEF InTurn
  <2>2. f[1] \in Seq(S) /\ f[2] \in Seq(S) BY <1>4
  <2> QED BY <1>4, <2>1, <2>2, ConcatProperties
<1>5. CASE n = 3
  <2>1. InTurn(f) = f[1] \o f[2] \o f[3] BY <1>1, <1>5 DEF InTurn
  <2>2. f[1] \in Seq(S) /\ f[2] \in Seq(S) /\ f[3] \in Seq(S) BY <1>5
  <2>3. f[1] \o f[2] \in Seq(S) BY <2>2, ConcatProperties
  <2> QED BY <1>5, <2>1, <2>2, <2>3, ConcatProperties
<1> QED BY <1>0, <1>2, <1>3, <1>4, <1>5

(* Pre-order, by its recursive definition.                                 *)
LEMMA PreOrderMeans ==
  ASSUME NEW S, NEW own \in [Exprs -> Seq(S)], NEW e \in Exprs
  PROVE  /\ PreOrder(own, e) \in Seq(S)
         /\ PreOrder(own, e) = own[e] \o InTurn([i \in 1..Arity(e.k) |-> PreOrder(own, Parts(e)[i])])
<1> DEFINE R == Seq(S)
           F == [Exprs -> R]
           h == [x \in Exprs |-> Depth(x)]
           G == [p \in Exprs \X F |-> VisitWith(own, p[1], p[2])]
           IsTable(V) == V = [x \in Exprs |-> VisitWith(own, x, V)]
           T == CHOOSE V : IsTable(V)
           Under(x, V) == [i \in 1..Arity(x.k) |-> V[Parts(x)[i]]]
<1>0. \A x \in Exprs : \A V : VisitWith(own, x, V) = own[x] \o InTurn(Under(x, V))
  BY PartsFacts DEF VisitWith
<1>1. ASSUME NEW x \in Exprs, NEW V, \A y \in Exprs : Depth(y) < Depth(x) => V[y] \in R
      PROVE  VisitWith(own, x, V) \in R
  <2>1. Arity(x.k) \in 0..3 /\ \A i \in 1..Arity(x.k) : V[Parts(x)[i]] \in R
    BY <1>1, PartsFacts
  <2>2. Under(x, V) \in [1..Arity(x.k) -> R]
    BY <2>1
  <2>3. InTurn(Under(x, V)) \in R
    BY <2>1, <2>2, InTurnFacts
  <2>4. own[x] \in R
    OBVIOUS
  <2>5. VisitWith(own, x, V) = own[x] \o InTurn(Under(x, V))
    BY <1>0
  <2> HIDE DEF Under
  <2> QED BY <2>3, <2>4, <2>5, ConcatProperties
<1>2. G \in [Exprs \X F -> R]
  BY <1>1
<1>3. \A x \in Exprs : \A U, V \in F :
        (\A y \in Exprs : h[y] < h[x] => U[y] = V[y]) => G[<<x, U>>] = G[<<x, V>>]
  <2> SUFFICES ASSUME NEW x \in Exprs, NEW U \in F, NEW V \in F,
                      \A y \in Exprs : h[y] < h[x] => U[y] = V[y]
               PROVE  VisitWith(own, x, U) = VisitWith(own, x, V)
    OBVIOUS
  <2>1. \A i \in 1..Arity(x.k) : U[Parts(x)[i]] = V[Parts(x)[i]]
    BY PartsFacts
  <2>2. Under(x, U) = Under(x, V)
    BY <2>1
  <2>3. VisitWith(own, x, U) = own[x] \o InTurn(Under(x, U)) /\ VisitWith(own, x, V) = own[x] \o InTurn(Under(x, V))
    BY <1>0
  <2> HIDE DEF Under
  <2> QED BY <2>2, <2>3
<1>4. \A x \in Exprs : \A V \in F : G[<<x, V>>] = VisitWith(own, x, V)
  OBVIOUS
<1>5. h \in [Exprs -> Nat] /\ R # {}
  BY ExprAssumption, EmptySeq
<1>6. \A x : PreOrder(own, x) = T[x]
  BY DEF PreOrder
<1> HIDE DEF G, h
<1>7. Descends(Exprs, R, h, G)
  BY <1>2, <1>3, <1>5 DEF Descends
<1>8. PICK V : Solves(V, Exprs, R, G)
  BY <1>7, Recursion
<1>9. IsTable(V)
  BY <1>4, <1>8 DEF Solves
<1>10. IsTable(T)
  BY <1>9
<1> HIDE DEF T
<1>11. \A x \in Exprs : T[x] = VisitWith(own, x, T)
  BY <1>10
<1>12. \A x \in Exprs : T[x] \in R
  <2> DEFINE Good == {x \in Exprs : T[x] \in R}
  <2>1. ASSUME NEW x \in Exprs, \A y \in Exprs : Depth(y) < Depth(x) => y \in Good
        PROVE  x \in Good
    <3>1. VisitWith(own, x, T) \in R
      BY <1>1, <2>1
    <3> QED BY <1>11, <3>1
  <2> HIDE DEF Good
  <2>2. Exprs \subseteq Good
    BY <2>1, DeeperLater
  <2> QED BY <2>2 DEF Good
<1>13. T[e] = own[e] \o InTurn(Under(e, T))
  BY <1>0, <1>11
<1>14. Under(e, T) = [i \in 1..Arity(e.k) |-> PreOrder(own, Parts(e)[i])]
  BY <1>6
<1> QED BY <1>6, <1>12, <1>13, <1>14

(* The names of a term, and of a spec, are names of variables.             *)
LEMMA NamesFacts ==
  ASSUME NEW e \in Exprs
  PROVE  Names(e) \in Seq(Idents)
<1> DEFINE own == [x \in Exprs |-> Mentioned(x)]
<1>1. ASSUME NEW x \in Exprs PROVE Mentioned(x) \in Seq(Idents)
  <2>1. WellTyped(x) BY ExprAssumption
  <2>2. CASE x.k = "var"
    <3>1. Mentioned(x) = <<x.name>> BY <2>2 DEF Mentioned, Quantifiers
    <3>2. x.name \in Idents BY <2>1, <2>2 DEF WellTyped
    <3> QED BY <3>1, <3>2
  <2>3. CASE x.k \in Quantifiers
    <3>1. Mentioned(x) = <<x.var>> BY <2>3 DEF Mentioned, Quantifiers
    <3>2. x.var \in Idents BY <2>1, <2>3 DEF WellTyped
    <3> QED BY <3>1, <3>2
  <2>4. CASE x.k # "var" /\ x.k \notin Quantifiers
    BY <2>4, EmptySeq DEF Mentioned
  <2> QED BY <2>2, <2>3, <2>4
<1>2. own \in [Exprs -> Seq(Idents)]
  BY <1>1
<1>3. Names(e) = PreOrder(own, e)
  BY DEF Names
<1> HIDE DEF own
<1> QED BY <1>2, <1>3, PreOrderMeans

(* var_idx: a name has a token of its own, which is no special one but UNK.*)
LEMMA RankFacts ==
  ASSUME NEW name, NEW names \in Seq(Idents)
  PROVE  Rank(name, names) \in Nat
<1> DEFINE J == {i \in DOMAIN names : \A h \in 1..i : names[h] # name}
           T == {names[j] : j \in J}
           f == [j \in J |-> names[j]]
<1>1. IsFiniteSet(1..Len(names)) /\ DOMAIN names = 1..Len(names)
  BY LenProperties, FS_Interval
<1>2. IsFiniteSet(J)
  <2>1. J \in SUBSET (1..Len(names))
    BY <1>1
  <2> QED BY <1>1, <2>1, FS_Subset
<1> HIDE DEF J
<1>3. f \in Surjection(J, T)
  BY DEF Surjection
<1>4. IsFiniteSet(T)
  <2> HIDE DEF f, T
  <2> QED BY <1>2, <1>3, FS_Surjection
<1>5. Cardinality(T) \in Nat
  <2> HIDE DEF T
  <2> QED BY <1>4, FS_CardinalityType
<1> QED BY <1>5 DEF Rank, J

(* What may follow the parameters.                                         *)
Stops == {tok(")inp"), tok("pre("), tok("post(")}

(* The token of a name is that of another, of another spec too, exactly if *)
(* var_idx is, and none that follows the parameters.                       *)
LEMMA VarTokenFacts ==
  ASSUME NEW na \in Seq(Idents), NEW nb \in Seq(Idents), NEW x, NEW y
  PROVE  /\ VarToken(x, na) \in Int \ Stops
         /\ VarToken(x, na) = VarToken(y, nb) <=> var_idx(x, na) = var_idx(y, nb)
<1>1. /\ UNK \in 0..28 /\ UNK \notin Stops
      /\ \A t \in Stops : t \in 0..28
  <2>1. {"UNK", ")inp", "pre(", "post("} \subseteq Heads \cup Marks
    BY DEF Marks
  <2> QED BY <2>1, TokFacts DEF UNK, Stops
<1>2. OffVars \in Nat /\ OffVars > 28
  BY OffsetFacts
<1>3. \A z : \A names \in Seq(Idents) : var_idx(z, names) \in Nat
  BY <1>1, RankFacts DEF var_idx
<1> DEFINE i == var_idx(x, na)
           j == var_idx(y, nb)
<1>4. i \in Nat /\ j \in Nat
  BY <1>3
<1>5. /\ VarToken(x, na) = IF i # UNK THEN OffVars + i ELSE UNK
      /\ VarToken(y, nb) = IF j # UNK THEN OffVars + j ELSE UNK
  BY DEF VarToken, varSlot
<1> HIDE DEF i, j
<1>6. OffVars + i > 28 /\ OffVars + j > 28 /\ OffVars + i \in Int /\ OffVars + j \in Int
  BY <1>2, <1>4
<1>7. VarToken(x, na) \in Int \ Stops
  <2>1. OffVars + i \notin Stops
    <3>1. ASSUME NEW t \in Stops PROVE OffVars + i # t
      <4>1. t \in 0..28 BY <1>1
      <4> QED BY <4>1, <1>6
    <3> QED BY <3>1
  <2> QED BY <1>1, <1>5, <1>6, <2>1
<1>8. VarToken(x, na) = VarToken(y, nb) <=> i = j
  <2>1. OffVars + i # UNK /\ OffVars + j # UNK
    BY <1>1, <1>6
  <2>2. OffVars + i = OffVars + j <=> i = j
    BY <1>2, <1>4
  <2> QED BY <1>5, <2>1, <2>2
<1> QED BY <1>7, <1>8 DEF i, j

(* The bucket of a constant, and its token.                                *)
LEMMA ConstTokenFacts ==
  ASSUME NEW m \in Int, NEW n \in Int, NEW v \in Range(Tys), NEW w \in Range(Tys)
  PROVE  /\ const(m, v) \in Int
         /\ const(m, v) = const(n, w) <=> Encode(m, v) = Encode(n, w)
<1>1. \A k \in Int : Lookup(k) \in Nat
  <2> TAKE k \in Int
  <2>1. Len(Canon) \in Nat BY CanonAssumption, LenProperties
  <2>2. Lookup(k) # OOVIndex => Lookup(k) \in 1..Len(Canon) BY LookupFacts
  <2>3. \A j \in 1..Len(Canon) : j \in Nat BY <2>1
  <2> QED BY <2>2, <2>3 DEF OOVIndex
<1>2. \A k \in Int, u \in Range(Tys) : Encode(k, u) \in Nat
  <2> TAKE k \in Int, u \in Range(Tys)
  <2>1. u \in Nat
    <3>1. u \in Widths BY SlotAssumption, ElementOfSeq, LenProperties DEF Range
    <3> QED BY <3>1, CanonAssumption
  <2>2. mask(k, u) \in Values(u) BY <2>1, MaskFacts
  <2>3. signed(mask(k, u), u) \in Int BY <2>1, <2>2, MaskFacts
  <2> QED BY <1>1, <2>3 DEF Encode
<1>3. OffConsts \in Nat
  BY OffsetFacts
<1> DEFINE p == Encode(m, v)
           q == Encode(n, w)
<1>4. p \in Nat /\ q \in Nat /\ const(m, v) = OffConsts + p /\ const(n, w) = OffConsts + q
  BY <1>2 DEF const
<1> HIDE DEF p, q
<1>5. const(m, v) \in Int /\ (const(m, v) = const(n, w) <=> p = q)
  BY <1>3, <1>4
<1> QED BY <1>5 DEF p, q

-----------------------------------------------------------------------------
(* What _emit_expr and _emit_formula write for a node by itself.           *)
OpeningLen(k) ==
  CASE k \in {"const", "var", "bin", "un"} \cup Quantifiers -> 3
    [] k \in {"select", "cmp"}                              -> 2
    [] OTHER                                                -> 1

(* The cases of Opening.                                                   *)
LEMMA OpeningCases ==
  ASSUME NEW e \in Exprs, NEW na
  PROVE  /\ e.k = "const"       => Opening(e, na) = <<tok(e.k), ty(e.ty), const(e.val, e.ty)>>
         /\ e.k = "var"         => Opening(e, na) = <<tok(e.k), ty(e.ty), VarToken(e.name, na)>>
         /\ e.k = "bin"         => Opening(e, na) = <<tok(e.k), bin_op(e.op), ty(e.ty)>>
         /\ e.k = "un"          => Opening(e, na) = <<tok(e.k), un_op(e.op), ty(e.ty)>>
         /\ e.k = "select"      => Opening(e, na) = <<tok(e.k), ty(e.ty)>>
         /\ e.k = "cmp"         => Opening(e, na) = <<tok(e.k), cmp_op(e.op)>>
         /\ e.k \in Quantifiers => Opening(e, na) = <<tok(e.k), VarToken(e.var, na), ty(e.ty)>>
         /\ e.k \in {"not", "true", "false"} \cup Connectives => Opening(e, na) = <<tok(e.k)>>
         /\ e.k \notin Heads    => Opening(e, na) = <<Raise>>
  BY DEF Opening, Quantifiers, Connectives, Heads

(* The cases of Node.                                                      *)
LEMMA NodeCases ==
  ASSUME NEW e \in Exprs, NEW na
  PROVE  /\ e.k = "const"         => Node(e, na) = <<e.k, e.ty, Encode(e.val, e.ty)>>
         /\ e.k = "var"           => Node(e, na) = <<e.k, e.ty, var_idx(e.name, na)>>
         /\ e.k \in {"bin", "un"} => Node(e, na) = <<e.k, e.ty, e.op>>
         /\ e.k = "select"        => Node(e, na) = <<e.k, e.ty>>
         /\ e.k = "cmp"           => Node(e, na) = <<e.k, e.op>>
         /\ e.k \in Quantifiers   => Node(e, na) = <<e.k, e.ty, var_idx(e.var, na)>>
         /\ e.k \in {"not", "true", "false"} \cup Connectives => Node(e, na) = <<e.k>>
         /\ e.k \notin Heads      => Node(e, na) = <<e.k>>
  BY DEF Node, Quantifiers, Connectives, Heads

(* Its kind comes first.                                                   *)
LEMMA OpeningFacts ==
  ASSUME NEW e \in Exprs, NEW na \in Seq(Idents)
  PROVE  /\ Opening(e, na) \in Seq(Int) /\ Len(Opening(e, na)) = OpeningLen(e.k) /\ OpeningLen(e.k) \in 1..3
         /\ Opening(e, na)[1] = IF e.k \in Heads THEN tok(e.k) ELSE Raise
<1> DEFINE O == Opening(e, na)
<1>1. WellTyped(e)
  BY ExprAssumption
<1>2. e.k \in Heads => tok(e.k) \in Int
  <2> SUFFICES ASSUME e.k \in Heads PROVE tok(e.k) \in Int
    OBVIOUS
  <2>1. tok(e.k) \in 0..28 BY TokFacts
  <2> QED BY <2>1
<1>3. \A x : VarToken(x, na) \in Int
  BY VarTokenFacts
<1>4. ASSUME NEW x \in Int, NEW y \in Int, NEW z \in Int
      PROVE  /\ <<x>> \in Seq(Int) /\ Len(<<x>>) = 1 /\ <<x>>[1] = x
             /\ <<x, y>> \in Seq(Int) /\ Len(<<x, y>>) = 2 /\ <<x, y>>[1] = x
             /\ <<x, y, z>> \in Seq(Int) /\ Len(<<x, y, z>>) = 3 /\ <<x, y, z>>[1] = x
  OBVIOUS
<1>5. CASE e.k = "const"
  <2>1. e.ty \in Range(Tys) /\ e.val \in Int BY <1>1, <1>5 DEF WellTyped
  <2>2. tok(e.k) \in Int /\ ty(e.ty) \in Int /\ const(e.val, e.ty) \in Int
    BY <1>2, <1>5, <2>1, IdFacts, ConstTokenFacts DEF Heads
  <2>3. O = <<tok(e.k), ty(e.ty), const(e.val, e.ty)>> BY <1>5, OpeningCases
  <2> QED BY <1>4, <1>5, <2>2, <2>3 DEF OpeningLen, Heads
<1>6. CASE e.k = "var"
  <2>1. e.ty \in Range(Tys) BY <1>1, <1>6 DEF WellTyped
  <2>2. tok(e.k) \in Int /\ ty(e.ty) \in Int /\ VarToken(e.name, na) \in Int
    BY <1>2, <1>3, <1>6, <2>1, IdFacts DEF Heads
  <2>3. O = <<tok(e.k), ty(e.ty), VarToken(e.name, na)>> BY <1>6, OpeningCases
  <2> QED BY <1>4, <1>6, <2>2, <2>3 DEF OpeningLen, Heads
<1>7. CASE e.k = "bin"
  <2>1. e.ty \in Range(Tys) /\ e.op \in Range(BinOps) BY <1>1, <1>7 DEF WellTyped
  <2>2. tok(e.k) \in Int /\ ty(e.ty) \in Int /\ bin_op(e.op) \in Int
    BY <1>2, <1>7, <2>1, IdFacts DEF Heads
  <2>3. O = <<tok(e.k), bin_op(e.op), ty(e.ty)>> BY <1>7, OpeningCases
  <2> QED BY <1>4, <1>7, <2>2, <2>3 DEF OpeningLen, Heads
<1>8. CASE e.k = "un"
  <2>1. e.ty \in Range(Tys) /\ e.op \in Range(UnOps) BY <1>1, <1>8 DEF WellTyped
  <2>2. tok(e.k) \in Int /\ ty(e.ty) \in Int /\ un_op(e.op) \in Int
    BY <1>2, <1>8, <2>1, IdFacts DEF Heads
  <2>3. O = <<tok(e.k), un_op(e.op), ty(e.ty)>> BY <1>8, OpeningCases
  <2> QED BY <1>4, <1>8, <2>2, <2>3 DEF OpeningLen, Heads
<1>9. CASE e.k = "select"
  <2>1. e.ty \in Range(Tys) BY <1>1, <1>9 DEF WellTyped
  <2>2. tok(e.k) \in Int /\ ty(e.ty) \in Int
    BY <1>2, <1>9, <2>1, IdFacts DEF Heads
  <2>3. O = <<tok(e.k), ty(e.ty)>> BY <1>9, OpeningCases
  <2> QED BY <1>4, <1>9, <2>2, <2>3 DEF OpeningLen, Heads, Quantifiers
<1>10. CASE e.k = "cmp"
  <2>1. e.op \in Range(CmpOps) BY <1>1, <1>10 DEF WellTyped
  <2>2. tok(e.k) \in Int /\ cmp_op(e.op) \in Int
    BY <1>2, <1>10, <2>1, IdFacts DEF Heads
  <2>3. O = <<tok(e.k), cmp_op(e.op)>> BY <1>10, OpeningCases
  <2> QED BY <1>4, <1>10, <2>2, <2>3 DEF OpeningLen, Heads, Quantifiers
<1>11. CASE e.k \in Quantifiers
  <2>1. e.ty \in Range(Tys) BY <1>1, <1>11 DEF WellTyped
  <2>2. tok(e.k) \in Int /\ ty(e.ty) \in Int /\ VarToken(e.var, na) \in Int /\ e.k \in Heads
    BY <1>2, <1>3, <1>11, <2>1, IdFacts DEF Heads
  <2>3. O = <<tok(e.k), VarToken(e.var, na), ty(e.ty)>> BY <1>11, OpeningCases
  <2>4. OpeningLen(e.k) = 3 BY <1>11 DEF OpeningLen, Quantifiers
  <2> QED BY <1>4, <2>2, <2>3, <2>4
<1>12. CASE e.k \in {"not", "true", "false"} \cup Connectives
  <2>1. tok(e.k) \in Int /\ e.k \in Heads
    BY <1>2, <1>12 DEF Heads
  <2>2. O = <<tok(e.k)>> BY <1>12, OpeningCases
  <2>3. OpeningLen(e.k) = 1 BY <1>12 DEF OpeningLen, Connectives, Quantifiers
  <2> QED BY <1>4, <2>1, <2>2, <2>3
<1>13. CASE e.k \notin Heads
  <2>1. Raise \in Int BY DEF Raise
  <2>2. O = <<Raise>> BY <1>13, OpeningCases
  <2>3. OpeningLen(e.k) = 1 BY <1>13 DEF OpeningLen, Quantifiers, Heads
  <2> QED BY <1>4, <1>13, <2>1, <2>2, <2>3
<1> QED BY <1>5, <1>6, <1>7, <1>8, <1>9, <1>10, <1>11, <1>12, <1>13 DEF Heads

(* Two nodes of a kind are written alike exactly if they are alike.        *)
LEMMA OpeningDecides ==
  ASSUME NEW a \in Exprs, NEW b \in Exprs, NEW na \in Seq(Idents), NEW nb \in Seq(Idents), a.k = b.k
  PROVE  Opening(a, na) = Opening(b, nb) <=> Node(a, na) = Node(b, nb)
<1>1. WellTyped(a) /\ WellTyped(b)
  BY ExprAssumption
<1>2. \A x, y : VarToken(x, na) = VarToken(y, nb) <=> var_idx(x, na) = var_idx(y, nb)
  BY VarTokenFacts
<1>3. ASSUME a.k \in {"const", "var", "bin", "un", "select"} \cup Quantifiers
      PROVE  a.ty \in Range(Tys) /\ b.ty \in Range(Tys) /\ (ty(a.ty) = ty(b.ty) <=> a.ty = b.ty)
  <2>1. a.ty \in Range(Tys) /\ b.ty \in Range(Tys) BY <1>1, <1>3 DEF WellTyped
  <2> QED BY <2>1, IdFacts
<1>4. CASE a.k = "const"
  <2>1. a.val \in Int /\ b.val \in Int BY <1>1, <1>4 DEF WellTyped
  <2>2. ty(a.ty) = ty(b.ty) <=> a.ty = b.ty BY <1>3, <1>4
  <2>3. const(a.val, a.ty) = const(b.val, b.ty) <=> Encode(a.val, a.ty) = Encode(b.val, b.ty)
    BY <1>3, <1>4, <2>1, ConstTokenFacts
  <2>4. /\ Opening(a, na) = <<tok(a.k), ty(a.ty), const(a.val, a.ty)>>
        /\ Opening(b, nb) = <<tok(a.k), ty(b.ty), const(b.val, b.ty)>>
    BY <1>4, OpeningCases
  <2>5. /\ Node(a, na) = <<a.k, a.ty, Encode(a.val, a.ty)>>
        /\ Node(b, nb) = <<a.k, b.ty, Encode(b.val, b.ty)>>
    BY <1>4, NodeCases
  <2> QED BY <2>2, <2>3, <2>4, <2>5
<1>5. CASE a.k = "var"
  <2>1. ty(a.ty) = ty(b.ty) <=> a.ty = b.ty BY <1>3, <1>5
  <2>2. VarToken(a.name, na) = VarToken(b.name, nb) <=> var_idx(a.name, na) = var_idx(b.name, nb)
    BY <1>2
  <2>3. /\ Opening(a, na) = <<tok(a.k), ty(a.ty), VarToken(a.name, na)>>
        /\ Opening(b, nb) = <<tok(a.k), ty(b.ty), VarToken(b.name, nb)>>
    BY <1>5, OpeningCases
  <2>4. /\ Node(a, na) = <<a.k, a.ty, var_idx(a.name, na)>>
        /\ Node(b, nb) = <<a.k, b.ty, var_idx(b.name, nb)>>
    BY <1>5, NodeCases
  <2> QED BY <2>1, <2>2, <2>3, <2>4
<1>6. CASE a.k \in {"bin", "un"}
  <2>1. ty(a.ty) = ty(b.ty) <=> a.ty = b.ty BY <1>3, <1>6
  <2>2. Node(a, na) = <<a.k, a.ty, a.op>> /\ Node(b, nb) = <<a.k, b.ty, b.op>>
    BY <1>6, NodeCases
  <2>3. CASE a.k = "bin"
    <3>1. a.op \in Range(BinOps) /\ b.op \in Range(BinOps) BY <1>1, <2>3 DEF WellTyped
    <3>2. bin_op(a.op) = bin_op(b.op) <=> a.op = b.op BY <3>1, IdFacts
    <3>3. /\ Opening(a, na) = <<tok(a.k), bin_op(a.op), ty(a.ty)>>
          /\ Opening(b, nb) = <<tok(a.k), bin_op(b.op), ty(b.ty)>>
      BY <2>3, OpeningCases
    <3> QED BY <2>1, <2>2, <3>2, <3>3
  <2>4. CASE a.k = "un"
    <3>1. a.op \in Range(UnOps) /\ b.op \in Range(UnOps) BY <1>1, <2>4 DEF WellTyped
    <3>2. un_op(a.op) = un_op(b.op) <=> a.op = b.op BY <3>1, IdFacts
    <3>3. /\ Opening(a, na) = <<tok(a.k), un_op(a.op), ty(a.ty)>>
          /\ Opening(b, nb) = <<tok(a.k), un_op(b.op), ty(b.ty)>>
      BY <2>4, OpeningCases
    <3> QED BY <2>1, <2>2, <3>2, <3>3
  <2> QED BY <1>6, <2>3, <2>4
<1>7. CASE a.k = "select"
  <2>1. ty(a.ty) = ty(b.ty) <=> a.ty = b.ty BY <1>3, <1>7
  <2>2. Opening(a, na) = <<tok(a.k), ty(a.ty)>> /\ Opening(b, nb) = <<tok(a.k), ty(b.ty)>>
    BY <1>7, OpeningCases
  <2>3. Node(a, na) = <<a.k, a.ty>> /\ Node(b, nb) = <<a.k, b.ty>>
    BY <1>7, NodeCases
  <2> QED BY <2>1, <2>2, <2>3
<1>8. CASE a.k = "cmp"
  <2>1. a.op \in Range(CmpOps) /\ b.op \in Range(CmpOps) BY <1>1, <1>8 DEF WellTyped
  <2>2. cmp_op(a.op) = cmp_op(b.op) <=> a.op = b.op BY <2>1, IdFacts
  <2>3. Opening(a, na) = <<tok(a.k), cmp_op(a.op)>> /\ Opening(b, nb) = <<tok(a.k), cmp_op(b.op)>>
    BY <1>8, OpeningCases
  <2>4. Node(a, na) = <<a.k, a.op>> /\ Node(b, nb) = <<a.k, b.op>>
    BY <1>8, NodeCases
  <2> QED BY <2>2, <2>3, <2>4
<1>9. CASE a.k \in Quantifiers
  <2>1. ty(a.ty) = ty(b.ty) <=> a.ty = b.ty BY <1>3, <1>9
  <2>2. VarToken(a.var, na) = VarToken(b.var, nb) <=> var_idx(a.var, na) = var_idx(b.var, nb)
    BY <1>2
  <2>3. /\ Opening(a, na) = <<tok(a.k), VarToken(a.var, na), ty(a.ty)>>
        /\ Opening(b, nb) = <<tok(a.k), VarToken(b.var, nb), ty(b.ty)>>
    BY <1>9, OpeningCases
  <2>4. /\ Node(a, na) = <<a.k, a.ty, var_idx(a.var, na)>>
        /\ Node(b, nb) = <<a.k, b.ty, var_idx(b.var, nb)>>
    BY <1>9, NodeCases
  <2> QED BY <2>1, <2>2, <2>3, <2>4
<1>10. CASE a.k \in {"not", "true", "false"} \cup Connectives
  <2>1. Opening(a, na) = <<tok(a.k)>> /\ Opening(b, nb) = <<tok(a.k)>>
    BY <1>10, OpeningCases
  <2>2. Node(a, na) = <<a.k>> /\ Node(b, nb) = <<a.k>>
    BY <1>10, NodeCases
  <2> QED BY <2>1, <2>2
<1>11. CASE a.k \notin Heads
  <2>1. Opening(a, na) = <<Raise>> /\ Opening(b, nb) = <<Raise>>
    BY <1>11, OpeningCases
  <2>2. Node(a, na) = <<a.k>> /\ Node(b, nb) = <<a.k>>
    BY <1>11, NodeCases
  <2> QED BY <2>1, <2>2
<1> QED BY <1>4, <1>5, <1>6, <1>7, <1>8, <1>9, <1>10, <1>11 DEF Heads

(* A node tells its kind.                                                  *)
LEMMA NodeKind ==
  ASSUME NEW a \in Exprs, NEW b \in Exprs, NEW na, NEW nb, Node(a, na) = Node(b, nb)
  PROVE  a.k = b.k
<1>1. \A e \in Exprs : \A names : Node(e, names)[1] = e.k
  BY DEF Node
<1> QED BY <1>1

-----------------------------------------------------------------------------
(* A term's tokens.                                                        *)
Turns(e, na) == [i \in 1..Arity(e.k) |-> Emit(Parts(e)[i], na)]

(* The opening, then the tokens of the parts.                              *)
LEMMA EmitFacts ==
  ASSUME NEW e \in Exprs, NEW na \in Seq(Idents)
  PROVE  /\ Emit(e, na) \in Seq(Int) /\ Turns(e, na) \in [1..Arity(e.k) -> Seq(Int)]
         /\ InTurn(Turns(e, na)) \in Seq(Int)
         /\ Emit(e, na) = Opening(e, na) \o InTurn(Turns(e, na))
<1> DEFINE own == [x \in Exprs |-> Opening(x, na)]
<1>1. own \in [Exprs -> Seq(Int)]
  BY OpeningFacts
<1>2. \A x : Emit(x, na) = PreOrder(own, x)
  BY DEF Emit
<1>3. own[e] = Opening(e, na)
  OBVIOUS
<1> HIDE DEF own
<1>4. \A x \in Exprs : Emit(x, na) \in Seq(Int)
  BY <1>1, <1>2, PreOrderMeans
<1>5. Emit(e, na) = own[e] \o InTurn([i \in 1..Arity(e.k) |-> PreOrder(own, Parts(e)[i])])
  BY <1>1, <1>2, PreOrderMeans
<1>6. [i \in 1..Arity(e.k) |-> PreOrder(own, Parts(e)[i])] = Turns(e, na)
  BY <1>2 DEF Turns
<1>7. Turns(e, na) \in [1..Arity(e.k) -> Seq(Int)]
  BY <1>4, PartsFacts DEF Turns
<1>8. InTurn(Turns(e, na)) \in Seq(Int)
  BY <1>7, PartsFacts, InTurnFacts
<1> QED BY <1>3, <1>4, <1>5, <1>6, <1>7, <1>8

(* A concatenation begins with its first sequence.                         *)
LEMMA FirstOfConcat == \A u, v \in Seq(Int) : Len(u) # 0 => (u \o v)[1] = u[1]
<1> SUFFICES ASSUME NEW u \in Seq(Int), NEW v \in Seq(Int), Len(u) # 0 PROVE (u \o v)[1] = u[1]
  OBVIOUS
<1>1. Len(u) \in Nat /\ Len(v) \in Nat
  BY LenProperties
<1>2. 1 \in 1..Len(u) + Len(v) /\ 1 <= Len(u)
  BY <1>1
<1> QED BY <1>2, ConcatProperties

(* What two sequences have, their concatenation has.                       *)
LEMMA ConcatHas ==
  ASSUME NEW S, NEW s \in Seq(S), NEW t \in Seq(S), NEW x \in Range(s) \cup Range(t)
  PROVE  x \in Range(s \o t)
<1>1. Len(s) \in Nat /\ Len(t) \in Nat /\ DOMAIN s = 1..Len(s) /\ DOMAIN t = 1..Len(t)
  BY LenProperties
<1>2. /\ s \o t \in Seq(S) /\ Len(s \o t) = Len(s) + Len(t)
      /\ \A i \in 1..Len(s) + Len(t) : (s \o t)[i] = IF i <= Len(s) THEN s[i] ELSE t[i - Len(s)]
  BY ConcatProperties
<1>3. DOMAIN (s \o t) = 1..Len(s) + Len(t)
  BY <1>2, LenProperties
<1>4. CASE x \in Range(s)
  <2>1. PICK i \in 1..Len(s) : x = s[i] BY <1>1, <1>4 DEF Range
  <2>2. i \in 1..Len(s) + Len(t) /\ i <= Len(s) BY <1>1
  <2>3. (s \o t)[i] = x BY <1>2, <2>1, <2>2
  <2> QED BY <1>3, <2>2, <2>3 DEF Range
<1>5. CASE x \in Range(t)
  <2>1. PICK i \in 1..Len(t) : x = t[i] BY <1>1, <1>5 DEF Range
  <2> DEFINE j == i + Len(s)
  <2>2. j \in 1..Len(s) + Len(t) /\ ~(j <= Len(s)) /\ j - Len(s) = i BY <1>1
  <2> HIDE DEF j
  <2>3. (s \o t)[j] = x BY <1>2, <2>1, <2>2
  <2> QED BY <1>3, <2>2, <2>3 DEF Range
<1> QED BY <1>4, <1>5

(* So do sequences in turn.                                                *)
LEMMA TurnHas ==
  ASSUME NEW S, NEW n \in 0..3, NEW f \in [1..n -> Seq(S)], NEW i \in 1..n, NEW x \in Range(f[i])
  PROVE  x \in Range(InTurn(f))
<1>1. n = 1 \/ n = 2 \/ n = 3
  OBVIOUS
<1>2. CASE n = 1
  <2>1. InTurn(f) = f[1] BY <1>2, InTurnFacts
  <2>2. i = 1 BY <1>2
  <2> QED BY <2>1, <2>2
<1>3. CASE n = 2
  <2>1. f[1] \in Seq(S) /\ f[2] \in Seq(S) BY <1>3
  <2>2. InTurn(f) = f[1] \o f[2] BY <1>3, InTurnFacts
  <2>3. x \in Range(f[1]) \cup Range(f[2]) BY <1>3
  <2> QED BY <2>1, <2>2, <2>3, ConcatHas
<1>4. CASE n = 3
  <2>1. f[1] \in Seq(S) /\ f[2] \in Seq(S) /\ f[3] \in Seq(S) BY <1>4
  <2>2. InTurn(f) = f[1] \o f[2] \o f[3] BY <1>4, InTurnFacts
  <2>3. x \in Range(f[1]) \cup Range(f[2]) \cup Range(f[3]) BY <1>4
  <2>4. f[1] \o f[2] \in Seq(S) BY <2>1, ConcatProperties
  <2>5. x \in Range(f[1] \o f[2]) \cup Range(f[3]) BY <2>1, <2>3, ConcatHas
  <2> QED BY <2>1, <2>2, <2>4, <2>5, ConcatHas
<1> QED BY <1>1, <1>2, <1>3, <1>4

(* Where a concatenation begins does not matter.                           *)
LEMMA Regroup == \A u, v, w \in Seq(Int) : (u \o v) \o w = u \o (v \o w)
<1> TAKE u \in Seq(Int), v \in Seq(Int), w \in Seq(Int)
<1> QED BY ConcatAssociative

(* Nor does it with three.                                                 *)
ThreeApart(u, v, w, x) == ((u \o v) \o w) \o x = u \o (v \o (w \o x))
LEMMA RegroupThree == \A u, v, w, x \in Seq(Int) : ThreeApart(u, v, w, x)
<1> TAKE u \in Seq(Int), v \in Seq(Int), w \in Seq(Int), x \in Seq(Int)
<1>1. u \o v \in Seq(Int) /\ w \o x \in Seq(Int)
  BY ConcatProperties
<1>2. \A p \in Seq(Int) : (p \o w) \o x = p \o (w \o x)
  BY Regroup, Zenon
<1>3. \A q \in Seq(Int) : (u \o v) \o q = u \o (v \o q)
  BY Regroup, Zenon
<1>4. ((u \o v) \o w) \o x = (u \o v) \o (w \o x)
  BY <1>1, <1>2, Zenon
<1>5. (u \o v) \o (w \o x) = u \o (v \o (w \o x))
  BY <1>1, <1>3, Zenon
<1> QED BY <1>4, <1>5, Zenon DEF ThreeApart

(* If each of two rows of sequences can be told from what follows, so can  *)
(* the rows.                                                               *)
Tells(f, g, i, P) == \A u, v \in Seq(Int) : f[i] \o u = g[i] \o v => i \in P /\ u = v

LEMMA TurnPrefix ==
  ASSUME NEW n \in 0..3, NEW f \in [1..n -> Seq(Int)], NEW g \in [1..n -> Seq(Int)],
         NEW s \in Seq(Int), NEW t \in Seq(Int), InTurn(f) \o s = InTurn(g) \o t,
         NEW P, \A i \in 1..n : Tells(f, g, i, P)
  PROVE  s = t /\ \A i \in 1..n : i \in P
<1>1. n = 0 \/ n = 1 \/ n = 2 \/ n = 3
  OBVIOUS
<1>2. CASE n = 0
  <2>1. InTurn(f) = <<>> /\ InTurn(g) = <<>> BY <1>2, InTurnFacts
  <2>2. s = t BY <2>1, ConcatEmptySeq
  <2> QED BY <1>2, <2>2
<1>3. CASE n = 1
  <2>1. InTurn(f) = f[1] /\ InTurn(g) = g[1] BY <1>3, InTurnFacts
  <2>2. Tells(f, g, 1, P) BY <1>3
  <2>3. f[1] \o s = g[1] \o t BY <2>1
  <2>4. 1 \in P /\ s = t BY <2>2, <2>3 DEF Tells
  <2> QED BY <1>3, <2>4
<1>4. CASE n = 2
  <2>1. InTurn(f) = f[1] \o f[2] /\ InTurn(g) = g[1] \o g[2] BY <1>4, InTurnFacts
  <2>2. Tells(f, g, 1, P) /\ Tells(f, g, 2, P) BY <1>4
  <2>3. f[1] \in Seq(Int) /\ f[2] \in Seq(Int) /\ g[1] \in Seq(Int) /\ g[2] \in Seq(Int) BY <1>4
  <2>4. f[2] \o s \in Seq(Int) /\ g[2] \o t \in Seq(Int) BY <2>3, ConcatProperties
  <2>5. f[1] \o (f[2] \o s) = g[1] \o (g[2] \o t)
    <3>1. (f[1] \o f[2]) \o s = f[1] \o (f[2] \o s) BY <2>3, Regroup, Zenon
    <3>2. (g[1] \o g[2]) \o t = g[1] \o (g[2] \o t) BY <2>3, Regroup, Zenon
    <3> QED BY <2>1, <3>1, <3>2, Zenon
  <2>6. 1 \in P /\ f[2] \o s = g[2] \o t BY <2>2, <2>4, <2>5 DEF Tells
  <2>7. 2 \in P /\ s = t BY <2>2, <2>6 DEF Tells
  <2> QED BY <1>4, <2>6, <2>7
<1>5. CASE n = 3
  <2>1. InTurn(f) = (f[1] \o f[2]) \o f[3] /\ InTurn(g) = (g[1] \o g[2]) \o g[3] BY <1>5, InTurnFacts
  <2>2. Tells(f, g, 1, P) /\ Tells(f, g, 2, P) /\ Tells(f, g, 3, P) BY <1>5
  <2>3. /\ f[1] \in Seq(Int) /\ f[2] \in Seq(Int) /\ f[3] \in Seq(Int)
        /\ g[1] \in Seq(Int) /\ g[2] \in Seq(Int) /\ g[3] \in Seq(Int)
    BY <1>5
  <2>4. f[3] \o s \in Seq(Int) /\ g[3] \o t \in Seq(Int) BY <2>3, ConcatProperties
  <2>5. f[2] \o (f[3] \o s) \in Seq(Int) /\ g[2] \o (g[3] \o t) \in Seq(Int) BY <2>3, <2>4, ConcatProperties
  <2>6. f[1] \o f[2] \in Seq(Int) /\ g[1] \o g[2] \in Seq(Int) BY <2>3, ConcatProperties
  <2>7. InTurn(f) \o s = f[1] \o (f[2] \o (f[3] \o s))
    <3>0. f[1] \in Seq(Int) /\ f[2] \in Seq(Int) /\ f[3] \in Seq(Int) BY <2>3
    <3>1. ThreeApart(f[1], f[2], f[3], s)
      BY <3>0, RegroupThree, Zenon
    <3> QED BY <2>1, <3>1, Zenon DEF ThreeApart
  <2>8. InTurn(g) \o t = g[1] \o (g[2] \o (g[3] \o t))
    <3>0. g[1] \in Seq(Int) /\ g[2] \in Seq(Int) /\ g[3] \in Seq(Int) BY <2>3
    <3>1. ThreeApart(g[1], g[2], g[3], t)
      BY <3>0, RegroupThree, Zenon
    <3> QED BY <2>1, <3>1, Zenon DEF ThreeApart
  <2>9. 1 \in P /\ f[2] \o (f[3] \o s) = g[2] \o (g[3] \o t)
    <3>1. f[1] \o (f[2] \o (f[3] \o s)) = g[1] \o (g[2] \o (g[3] \o t)) BY <2>7, <2>8, Zenon
    <3> QED BY <2>2, <2>5, <3>1, Zenon DEF Tells
  <2>10. 2 \in P /\ f[3] \o s = g[3] \o t BY <2>2, <2>4, <2>9 DEF Tells
  <2>11. 3 \in P /\ s = t BY <2>2, <2>10 DEF Tells
  <2> QED BY <1>5, <2>9, <2>10, <2>11
<1> QED BY <1>1, <1>2, <1>3, <1>4, <1>5

(* The same tree, by its recursive definition.                             *)
LEMMA SameMeans ==
  ASSUME NEW na, NEW nb, NEW a \in Exprs, NEW b \in Exprs
  PROVE  SameTree(a, na, b, nb) <=>
           /\ Node(a, na) = Node(b, nb)
           /\ \A i \in 1..Arity(a.k) : SameTree(Parts(a)[i], na, Parts(b)[i], nb)
<1> DEFINE D == Exprs \X Exprs
           F == [D -> BOOLEAN]
           Right(p, V) == SameWith(p[1], na, p[2], nb, V)
           h == [p \in D |-> Depth(p[1])]
           G == [p \in D \X F |-> Right(p[1], p[2])]
           IsTable(V) == V = [p \in D |-> Right(p, V)]
           T == CHOOSE V : IsTable(V)
<1>1. ASSUME NEW p \in D, Node(p[1], na) = Node(p[2], nb), NEW i \in DOMAIN Parts(p[1])
      PROVE  <<Parts(p[1])[i], Parts(p[2])[i]>> \in D /\ Depth(Parts(p[1])[i]) < Depth(p[1])
  <2>1. p[1] \in Exprs /\ p[2] \in Exprs
    OBVIOUS
  <2>2. p[1].k = p[2].k
    BY <1>1, <2>1, NodeKind
  <2>3. i \in 1..Arity(p[1].k) /\ i \in 1..Arity(p[2].k)
    BY <2>1, <2>2, PartsFacts
  <2>4. Parts(p[1])[i] \in Exprs /\ Parts(p[2])[i] \in Exprs /\ Depth(Parts(p[1])[i]) < Depth(p[1])
    BY <2>1, <2>3, PartsFacts
  <2> QED BY <2>4
<1>2. G \in [D \X F -> BOOLEAN]
  BY DEF SameWith
<1>4. \A p \in D : \A V \in F : G[<<p, V>>] = Right(p, V)
  OBVIOUS
<1> HIDE DEF G
<1>3. \A p \in D : \A U, V \in F :
        (\A q \in D : h[q] < h[p] => U[q] = V[q]) => G[<<p, U>>] = G[<<p, V>>]
  <2> SUFFICES ASSUME NEW p \in D, NEW U \in F, NEW V \in F, \A q \in D : h[q] < h[p] => U[q] = V[q]
               PROVE  G[<<p, U>>] = G[<<p, V>>]
    OBVIOUS
  <2>1. ASSUME Node(p[1], na) = Node(p[2], nb), NEW i \in DOMAIN Parts(p[1])
        PROVE  U[<<Parts(p[1])[i], Parts(p[2])[i]>>] = V[<<Parts(p[1])[i], Parts(p[2])[i]>>]
    <3> DEFINE q == <<Parts(p[1])[i], Parts(p[2])[i]>>
    <3>1. q \in D /\ Depth(q[1]) < Depth(p[1]) BY <1>1, <2>1
    <3>2. h[q] < h[p] BY <3>1
    <3> QED BY <3>1, <3>2
  <2>2. Right(p, U) = Right(p, V)
    BY <2>1 DEF SameWith
  <2>3. G[<<p, U>>] = Right(p, U) /\ G[<<p, V>>] = Right(p, V)
    BY <1>4
  <2> QED BY <2>2, <2>3
<1>5. h \in [D -> Nat]
  BY ExprAssumption
<1>6. \A x, y : SameTree(x, na, y, nb) = T[<<x, y>>]
  BY DEF SameTree
<1> HIDE DEF h
<1>7. Descends(D, BOOLEAN, h, G)
  BY <1>2, <1>3, <1>5 DEF Descends
<1>8. PICK V : Solves(V, D, BOOLEAN, G)
  BY <1>7, Recursion
<1>9. IsTable(V)
  BY <1>4, <1>8 DEF Solves
<1>10. IsTable(T)
  BY <1>9
<1> HIDE DEF T
<1>11. T[<<a, b>>] = SameWith(a, na, b, nb, T)
  BY <1>10
<1>12. DOMAIN Parts(a) = 1..Arity(a.k)
  BY PartsFacts
<1>13. SameTree(a, na, b, nb) = SameWith(a, na, b, nb, T)
  BY <1>6, <1>11
<1> QED BY <1>6, <1>12, <1>13 DEF SameWith

(* The tokens of a term tell its tree, whatever follows them.              *)
TellsTree(a, na, nb) ==
  \A b \in Exprs : \A s, t \in Seq(Int) :
    Raise \notin Range(Emit(a, na)) /\ Emit(a, na) \o s = Emit(b, nb) \o t => SameTree(a, na, b, nb) /\ s = t

LEMMA EmitTells ==
  ASSUME NEW na \in Seq(Idents), NEW nb \in Seq(Idents)
  PROVE  \A a \in Exprs : TellsTree(a, na, nb)
<1> DEFINE Good == {a \in Exprs : TellsTree(a, na, nb)}
<1>1. ASSUME NEW a \in Exprs, \A c \in Exprs : Depth(c) < Depth(a) => c \in Good,
             NEW b \in Exprs, NEW s \in Seq(Int), NEW t \in Seq(Int),
             Raise \notin Range(Emit(a, na)), Emit(a, na) \o s = Emit(b, nb) \o t
      PROVE  SameTree(a, na, b, nb) /\ s = t
  <2> DEFINE oa == Opening(a, na)  ra == InTurn(Turns(a, na))
             ob == Opening(b, nb)  rb == InTurn(Turns(b, nb))
  <2>1. /\ oa \in Seq(Int) /\ ob \in Seq(Int) /\ ra \in Seq(Int) /\ rb \in Seq(Int)
        /\ Emit(a, na) = oa \o ra /\ Emit(b, nb) = ob \o rb
    BY OpeningFacts, EmitFacts
  <2>2. /\ Len(oa) = OpeningLen(a.k) /\ Len(ob) = OpeningLen(b.k)
        /\ OpeningLen(a.k) \in 1..3 /\ OpeningLen(b.k) \in 1..3
        /\ oa[1] = IF a.k \in Heads THEN tok(a.k) ELSE Raise
        /\ ob[1] = IF b.k \in Heads THEN tok(b.k) ELSE Raise
    BY OpeningFacts
  <2> HIDE DEF oa, ob, ra, rb
  <2>3. oa \o (ra \o s) = ob \o (rb \o t)
    <3>1. (oa \o ra) \o s = oa \o (ra \o s)
      BY <2>1, Regroup, Zenon
    <3>2. (ob \o rb) \o t = ob \o (rb \o t)
      BY <2>1, Regroup, Zenon
    <3> QED BY <1>1, <2>1, <3>1, <3>2, Zenon
  <2>4. ra \o s \in Seq(Int) /\ rb \o t \in Seq(Int)
    BY <2>1, ConcatProperties
  <2>5. oa[1] = ob[1]
    <3> DEFINE x == ra \o s  y == rb \o t
    <3>1. x \in Seq(Int) /\ y \in Seq(Int) /\ oa \o x = ob \o y
      BY <2>3, <2>4
    <3> HIDE DEF x, y
    <3>2. Len(oa) # 0 /\ Len(ob) # 0
      BY <2>2
    <3>3. (oa \o x)[1] = oa[1]
      BY <2>1, <3>1, <3>2, FirstOfConcat, Zenon
    <3>4. (ob \o y)[1] = ob[1]
      BY <2>1, <3>1, <3>2, FirstOfConcat, Zenon
    <3> QED BY <3>1, <3>3, <3>4, Zenon
  <2>6. a.k \in Heads
    <3>1. oa[1] \in Range(oa)
      <4>1. Len(oa) \in 1..3 BY <2>2
      <4>2. 1 \in DOMAIN oa BY <2>1, <4>1, LenProperties
      <4> QED BY <4>2 DEF Range
    <3>2. oa[1] \in Range(oa \o ra)
      BY <2>1, <3>1, ConcatHas
    <3> QED BY <1>1, <2>1, <2>2, <3>2
  <2>7. a.k = b.k
    <3>1. \A k \in Heads : tok(k) # Raise
      <4> TAKE k \in Heads
      <4>1. tok(k) \in 0..28 BY TokFacts
      <4>2. \A n \in 0..28 : n # -1 OBVIOUS
      <4> QED BY <4>1, <4>2 DEF Raise
    <3>2. b.k \in Heads /\ tok(a.k) = tok(b.k)
      BY <2>2, <2>5, <2>6, <3>1
    <3> QED BY <2>6, <3>2, TokFacts
  <2>8. oa = ob /\ ra \o s = rb \o t
    <3> DEFINE x == ra \o s  y == rb \o t
    <3>1. x \in Seq(Int) /\ y \in Seq(Int) /\ oa \o x = ob \o y
      BY <2>3, <2>4
    <3> HIDE DEF x, y
    <3>2. Len(oa) = Len(ob)
      BY <2>2, <2>7
    <3>3. oa = ob /\ x = y
      BY <2>1, <3>1, <3>2, CancelHeads
    <3> QED BY <3>3 DEF x, y
  <2>9. Node(a, na) = Node(b, nb)
    BY <2>7, <2>8, OpeningDecides DEF oa, ob
  <2> DEFINE n == Arity(a.k)
             f == Turns(a, na)
             g == Turns(b, nb)
             P == {i \in 1..n : SameTree(Parts(a)[i], na, Parts(b)[i], nb)}
  <2>10. /\ n \in 0..3 /\ n = Arity(b.k)
         /\ \A i \in 1..n : /\ Parts(a)[i] \in Exprs /\ Parts(b)[i] \in Exprs
                            /\ Depth(Parts(a)[i]) < Depth(a)
    BY <2>7, PartsFacts
  <2>11. /\ f \in [1..n -> Seq(Int)] /\ g \in [1..n -> Seq(Int)]
         /\ \A i \in 1..n : f[i] = Emit(Parts(a)[i], na) /\ g[i] = Emit(Parts(b)[i], nb)
    BY <2>10, EmitFacts DEF Turns
  <2>12. ASSUME NEW i \in 1..n PROVE Tells(f, g, i, P)
    <3>1. TellsTree(Parts(a)[i], na, nb)
      BY <1>1, <2>10
    <3>2. Raise \notin Range(f[i])
      <4>1. Raise \in Range(f[i]) => Raise \in Range(ra)
        BY <2>10, <2>11, TurnHas DEF ra
      <4>2. Raise \in Range(ra) => Raise \in Range(oa \o ra)
        BY <2>1, ConcatHas
      <4> QED BY <1>1, <2>1, <4>1, <4>2
    <3>3. ASSUME NEW u \in Seq(Int), NEW v \in Seq(Int), f[i] \o u = g[i] \o v
          PROVE  i \in P /\ u = v
      <4>1. f[i] = Emit(Parts(a)[i], na) /\ g[i] = Emit(Parts(b)[i], nb) /\ Parts(b)[i] \in Exprs
        BY <2>10, <2>11
      <4>2. SameTree(Parts(a)[i], na, Parts(b)[i], nb) /\ u = v
        BY <3>1, <3>2, <3>3, <4>1, Zenon DEF TellsTree
      <4> QED BY <4>2
    <3> QED BY <3>3 DEF Tells
  <2>13. InTurn(f) \o s = InTurn(g) \o t
    BY <2>8 DEF ra, rb
  <2>14. s = t /\ \A i \in 1..n : i \in P
    <3>1. \A i \in 1..n : Tells(f, g, i, P)
      BY <2>12
    <3>2. n \in 0..3 /\ f \in [1..n -> Seq(Int)] /\ g \in [1..n -> Seq(Int)]
      BY <2>10, <2>11
    <3> HIDE DEF f, g, P, n
    <3> QED BY <2>13, <3>1, <3>2, TurnPrefix, Zenon
  <2> QED BY <2>9, <2>14, SameMeans
<1>2. \A a \in Exprs : (\A c \in Exprs : Depth(c) < Depth(a) => c \in Good) => a \in Good
  <2> SUFFICES ASSUME NEW a \in Exprs, \A c \in Exprs : Depth(c) < Depth(a) => c \in Good
               PROVE  TellsTree(a, na, nb)
    OBVIOUS
  <2> QED BY <1>1 DEF TellsTree
<1> HIDE DEF Good
<1>3. Exprs \subseteq Good
  BY <1>2, DeeperLater
<1> QED BY <1>3 DEF Good

(* And the same tree has the same tokens.                                  *)
LEMMA EmitFollows ==
  ASSUME NEW na \in Seq(Idents), NEW nb \in Seq(Idents)
  PROVE  \A a, b \in Exprs : SameTree(a, na, b, nb) => Emit(a, na) = Emit(b, nb)
<1> DEFINE Good == {a \in Exprs : \A b \in Exprs : SameTree(a, na, b, nb) => Emit(a, na) = Emit(b, nb)}
<1>1. ASSUME NEW a \in Exprs, \A c \in Exprs : Depth(c) < Depth(a) => c \in Good,
             NEW b \in Exprs, SameTree(a, na, b, nb)
      PROVE  Emit(a, na) = Emit(b, nb)
  <2>1. /\ Node(a, na) = Node(b, nb)
        /\ \A i \in 1..Arity(a.k) : SameTree(Parts(a)[i], na, Parts(b)[i], nb)
    BY <1>1, SameMeans
  <2>2. a.k = b.k
    BY <2>1, NodeKind
  <2>3. Opening(a, na) = Opening(b, nb)
    BY <2>1, <2>2, OpeningDecides
  <2>4. \A i \in 1..Arity(a.k) : Emit(Parts(a)[i], na) = Emit(Parts(b)[i], nb)
    BY <1>1, <2>1, <2>2, PartsFacts
  <2>5. Turns(a, na) = Turns(b, nb)
    BY <2>2, <2>4 DEF Turns
  <2> QED BY <2>3, <2>5, EmitFacts
<1>2. \A a \in Exprs : (\A c \in Exprs : Depth(c) < Depth(a) => c \in Good) => a \in Good
  BY <1>1
<1> HIDE DEF Good
<1>3. Exprs \subseteq Good
  BY <1>2, DeeperLater
<1> QED BY <1>3 DEF Good

-----------------------------------------------------------------------------
(* Parameters: two tokens each.                                            *)
Parameters == Seq([name : Idents, ty : Range(Tys)])

LEMMA ParamsFacts ==
  ASSUME NEW ps \in Parameters, NEW na \in Seq(Idents)
  PROVE  /\ Params(ps, na) \in Seq(Int) /\ Len(ps) \in Nat /\ Len(Params(ps, na)) = 2 * Len(ps)
         /\ \A i \in 1..Len(ps) : /\ Params(ps, na)[2*i - 1] = VarToken(ps[i].name, na)
                                  /\ Params(ps, na)[2*i] = ty(ps[i].ty) /\ ps[i].ty \in Range(Tys)
<1> DEFINE n == Len(ps)
           Q == Params(ps, na)
<1>1. n \in Nat /\ \A i \in 1..n : ps[i].ty \in Range(Tys)
  <2>1. n \in Nat BY LenProperties DEF Parameters
  <2>2. \A i \in 1..n : ps[i] \in [name : Idents, ty : Range(Tys)] BY ElementOfSeq DEF Parameters
  <2> QED BY <2>1, <2>2
<1>2. Q = [i \in 1..2 * n |-> IF i % 2 = 1 THEN VarToken(ps[(i + 1) \div 2].name, na) ELSE ty(ps[i \div 2].ty)]
  BY DEF Params
<1> HIDE DEF n, Q
<1>3. \A i \in 1..2 * n : i % 2 # 1 => i \div 2 \in 1..n
  BY <1>1
<1>4. ASSUME NEW i \in 1..2 * n PROVE Q[i] \in Int
  <2>1. CASE i % 2 = 1
    BY <1>2, <2>1, VarTokenFacts
  <2>2. CASE i % 2 # 1
    <3>1. ps[i \div 2].ty \in Range(Tys) BY <1>1, <1>3, <2>2
    <3> QED BY <1>2, <2>2, <3>1, IdFacts
  <2> QED BY <2>1, <2>2
<1>5. Q \in Seq(Int) /\ Len(Q) = 2 * n
  <2>1. 2 * n \in Nat BY <1>1
  <2>2. Q \in [1..2 * n -> Int] BY <1>2, <1>4
  <2> QED BY <2>1, <2>2, FunctionIsSeq
<1>6. ASSUME NEW i \in 1..n
      PROVE  Q[2*i - 1] = VarToken(ps[i].name, na) /\ Q[2*i] = ty(ps[i].ty)
  <2>1. /\ 2*i - 1 \in 1..2 * n /\ (2*i - 1) % 2 = 1 /\ ((2*i - 1) + 1) \div 2 = i
        /\ 2*i \in 1..2 * n /\ (2*i) % 2 # 1 /\ (2*i) \div 2 = i
    BY <1>1
  <2> QED BY <1>2, <2>1
<1> QED BY <1>1, <1>5, <1>6 DEF n, Q

(* The place after m pairs lies within n of them when m < n.               *)
LEMMA NextOdd ==
  ASSUME NEW m \in Nat, NEW n \in Nat, NEW r \in Nat, m < n
  PROVE  2 * m + 1 \in 1..2 * n + r /\ 2 * m + 1 <= 2 * n
<1>1. 1 <= 2 * m + 1 /\ 2 * m + 1 <= 2 * n /\ 2 * m + 1 \in Int
  OBVIOUS
<1> QED BY <1>1

(* What follows the parameters is not one.                                 *)
LEMMA ParamsEnd ==
  ASSUME NEW na \in Seq(Idents), NEW nb \in Seq(Idents), NEW ps \in Parameters, NEW qs \in Parameters,
         NEW u \in Seq(Int), NEW v \in Seq(Int), Len(u) # 0, u[1] \in Stops,
         Params(ps, na) \o u = Params(qs, nb) \o v
  PROVE  Len(qs) <= Len(ps)
<1> DEFINE P == Params(ps, na)  Q == Params(qs, nb)  k == 2 * Len(ps) + 1
<1>1. /\ P \in Seq(Int) /\ Len(P) = 2 * Len(ps) /\ Len(ps) \in Nat
      /\ Q \in Seq(Int) /\ Len(Q) = 2 * Len(qs) /\ Len(qs) \in Nat
      /\ \A i \in 1..Len(qs) : Q[2*i - 1] = VarToken(qs[i].name, nb)
  BY ParamsFacts
<1> SUFFICES ASSUME Len(ps) < Len(qs) PROVE FALSE
  BY <1>1
<1> HIDE DEF P, Q
<1>2. Len(u) \in Nat \ {0} /\ Len(v) \in Nat
  BY LenProperties
<1>3. k \in 1..Len(P) + Len(u) /\ ~(k <= Len(P)) /\ k - Len(P) = 1
  <2>1. ASSUME NEW m \in Nat, NEW r \in Nat \ {0}
        PROVE  2 * m + 1 \in 1..2 * m + r /\ ~(2 * m + 1 <= 2 * m) /\ (2 * m + 1) - 2 * m = 1
    OBVIOUS
  <2>2. Len(ps) \in Nat /\ Len(P) = 2 * Len(ps)
    BY <1>1
  <2>3. /\ k \in 1..2 * Len(ps) + Len(u)
        /\ ~(k <= 2 * Len(ps))
        /\ k - 2 * Len(ps) = 1
    BY <1>2, <2>1, <2>2, Zenon
  <2> QED BY <2>2, <2>3, Zenon
<1>4. (P \o u)[k] = u[1]
  <2> HIDE DEF k
  <2>1. (P \o u)[k] = IF k <= Len(P) THEN P[k] ELSE u[k - Len(P)]
    BY <1>1, <1>3, ConcatProperties
  <2> QED BY <1>3, <2>1
<1>5. Len(ps) + 1 \in 1..Len(qs) /\ k = 2 * (Len(ps) + 1) - 1
  BY <1>1
<1>6. k \in 1..Len(Q) + Len(v) /\ k <= Len(Q)
  <2>1. Len(ps) \in Nat /\ Len(qs) \in Nat /\ Len(v) \in Nat
    BY <1>1, <1>2
  <2>2. k \in 1..2 * Len(qs) + Len(v) /\ k <= 2 * Len(qs)
    BY <2>1, NextOdd, Zenon
  <2>3. Len(Q) = 2 * Len(qs)
    BY <1>1
  <2> QED BY <2>2, <2>3, Zenon
<1>7. (Q \o v)[k] = Q[k]
  <2> HIDE DEF k
  <2> QED BY <1>1, <1>6, ConcatProperties
<1>8. Q[k] = VarToken(qs[Len(ps) + 1].name, nb)
  BY <1>1, <1>5
<1>9. VarToken(qs[Len(ps) + 1].name, nb) \notin Stops
  BY VarTokenFacts
<1>10. P \o u = Q \o v
  BY DEF P, Q
<1> HIDE DEF k
<1> QED BY <1>4, <1>7, <1>8, <1>9, <1>10

(* Two lists of parameters have the same tokens exactly if they have the   *)
(* same types and tell their names apart alike.                            *)
LEMMA ParamsDecide ==
  ASSUME NEW na \in Seq(Idents), NEW nb \in Seq(Idents), NEW ps \in Parameters, NEW qs \in Parameters
  PROVE  Params(ps, na) = Params(qs, nb) <=> SameParams(ps, na, qs, nb)
<1> DEFINE P == Params(ps, na)  Q == Params(qs, nb)  n == Len(ps)
<1>1. /\ P \in Seq(Int) /\ Len(P) = 2 * n /\ n \in Nat
      /\ Q \in Seq(Int) /\ Len(Q) = 2 * Len(qs) /\ Len(qs) \in Nat
      /\ \A i \in 1..n : /\ P[2*i - 1] = VarToken(ps[i].name, na)
                         /\ P[2*i] = ty(ps[i].ty) /\ ps[i].ty \in Range(Tys)
      /\ \A i \in 1..Len(qs) : /\ Q[2*i - 1] = VarToken(qs[i].name, nb)
                               /\ Q[2*i] = ty(qs[i].ty) /\ qs[i].ty \in Range(Tys)
  BY ParamsFacts
<1>2. ASSUME NEW i \in 1..n, Len(qs) = n
      PROVE  /\ P[2*i - 1] = Q[2*i - 1] <=> var_idx(ps[i].name, na) = var_idx(qs[i].name, nb)
             /\ P[2*i] = Q[2*i] <=> ps[i].ty = qs[i].ty
  <2>1. ty(ps[i].ty) = ty(qs[i].ty) <=> ps[i].ty = qs[i].ty
    BY <1>1, <1>2, IdFacts
  <2>2. VarToken(ps[i].name, na) = VarToken(qs[i].name, nb) <=>
          var_idx(ps[i].name, na) = var_idx(qs[i].name, nb)
    BY VarTokenFacts
  <2>3. i \in 1..Len(qs)
    BY <1>2
  <2> HIDE DEF P, Q
  <2> QED BY <1>1, <2>1, <2>2, <2>3
<1> HIDE DEF P, Q, n
<1>3. ASSUME P = Q PROVE SameParams(ps, na, qs, nb)
  <2>1. Len(qs) = n
    BY <1>1, <1>3
  <2> QED BY <1>2, <1>3, <2>1 DEF SameParams, n
<1>4. ASSUME SameParams(ps, na, qs, nb) PROVE P = Q
  <2>1. Len(qs) = n /\ \A i \in 1..n : var_idx(ps[i].name, na) = var_idx(qs[i].name, nb) /\ ps[i].ty = qs[i].ty
    BY <1>4 DEF SameParams, n
  <2>2. \A i \in 1..n : P[2*i - 1] = Q[2*i - 1] /\ P[2*i] = Q[2*i]
    BY <1>2, <2>1
  <2>3. ASSUME NEW j \in 1..2 * n PROVE P[j] = Q[j]
    <3>1. PICK i \in 1..n : j = 2*i - 1 \/ j = 2*i
      <4>1. CASE j % 2 = 1
        <5>1. j = 2 * (j \div 2) + 1 /\ j \div 2 \in Int BY <4>1
        <5>2. j \div 2 + 1 \in 1..n /\ j = 2 * (j \div 2 + 1) - 1 BY <1>1, <5>1
        <5> QED BY <5>2
      <4>2. CASE j % 2 # 1
        <5>1. j \div 2 \in 1..n /\ j = 2 * (j \div 2) BY <1>1, <4>2
        <5> QED BY <5>1
      <4> QED BY <4>1, <4>2
    <3> QED BY <2>2, <3>1
  <2>4. Len(P) = Len(Q) /\ Len(P) = 2 * n
    BY <1>1, <2>1
  <2> QED BY <1>1, <2>3, <2>4, SeqEqual
<1> QED BY <1>3, <1>4 DEF P, Q

(* So whatever follows them.                                               *)
Follows(u) == u \in Seq(Int) /\ Len(u) # 0 /\ u[1] \in Stops
Alike(ps, na, u, qs, nb, v) == Params(ps, na) \o u = Params(qs, nb) \o v

LEMMA ParamsTell ==
  ASSUME NEW na \in Seq(Idents), NEW nb \in Seq(Idents), NEW ps \in Parameters, NEW qs \in Parameters,
         NEW u, NEW v, Follows(u), Follows(v), Alike(ps, na, u, qs, nb, v)
  PROVE  SameParams(ps, na, qs, nb) /\ u = v
<1>0. /\ u \in Seq(Int) /\ v \in Seq(Int) /\ Len(u) # 0 /\ Len(v) # 0 /\ u[1] \in Stops /\ v[1] \in Stops
      /\ Params(ps, na) \o u = Params(qs, nb) \o v
  BY DEF Follows, Alike
<1> DEFINE P == Params(ps, na)  Q == Params(qs, nb)
<1>1. /\ P \in Seq(Int) /\ Len(P) = 2 * Len(ps) /\ Len(ps) \in Nat
      /\ Q \in Seq(Int) /\ Len(Q) = 2 * Len(qs) /\ Len(qs) \in Nat
  BY ParamsFacts
<1>2. Len(qs) <= Len(ps)
  BY <1>0, ParamsEnd
<1>3. Len(ps) <= Len(qs)
  <2>1. Params(qs, nb) \o v = Params(ps, na) \o u
    BY <1>0
  <2> QED BY <1>0, <2>1, ParamsEnd
<1>4. Len(P) = Len(Q) /\ P \o u = Q \o v
  <2>1. Len(ps) = Len(qs)
    BY <1>1, <1>2, <1>3
  <2>2. P \o u = Q \o v
    BY <1>0
  <2> HIDE DEF P, Q
  <2> QED BY <1>1, <2>1, <2>2
<1>5. P = Q /\ u = v
  <2> HIDE DEF P, Q
  <2> QED BY <1>0, <1>1, <1>4, CancelHeads
<1> QED BY <1>5, ParamsDecide

-----------------------------------------------------------------------------
(* A spec's tokens, from each part to the end.                             *)
IsSpec(s) == s.inputs \in Parameters /\ s.outputs \in Parameters /\ s.pre \in Exprs /\ s.post \in Exprs

FromPost(s, na) == <<tok("post(")>> \o (Emit(s.post, na) \o <<tok(")post")>>)
FromPre(s, na) ==
  IF s.pre.k = "true" THEN FromPost(s, na)
  ELSE <<tok("pre(")>> \o (Emit(s.pre, na) \o (<<tok(")pre")>> \o FromPost(s, na)))
FromOutputs(s, na) == Params(s.outputs, na) \o FromPre(s, na)
FromInputs(s, na)  == Params(s.inputs, na) \o (<<tok(")inp")>> \o FromOutputs(s, na))

(* The names of a spec are names of variables.                             *)
LEMMA NamesOfFacts ==
  ASSUME NEW s, IsSpec(s)
  PROVE  NamesOf(s) \in Seq(Idents)
<1>1. ASSUME NEW ps \in Parameters PROVE [i \in DOMAIN ps |-> ps[i].name] \in Seq(Idents)
  <2>1. Len(ps) \in Nat /\ DOMAIN ps = 1..Len(ps) BY LenProperties DEF Parameters
  <2>2. \A i \in 1..Len(ps) : ps[i] \in [name : Idents, ty : Range(Tys)] BY ElementOfSeq DEF Parameters
  <2>3. [i \in DOMAIN ps |-> ps[i].name] \in [1..Len(ps) -> Idents] BY <2>1, <2>2
  <2> QED BY <2>1, <2>3, FunctionIsSeq
<1> DEFINE u == [i \in DOMAIN s.inputs |-> s.inputs[i].name]
           v == [i \in DOMAIN s.outputs |-> s.outputs[i].name]
<1>2. u \in Seq(Idents) /\ v \in Seq(Idents)
  BY <1>1 DEF IsSpec
<1>3. Names(s.pre) \in Seq(Idents) /\ Names(s.post) \in Seq(Idents)
  BY NamesFacts DEF IsSpec
<1>4. NamesOf(s) = ((u \o v) \o Names(s.pre)) \o Names(s.post)
  BY DEF NamesOf
<1> HIDE DEF u, v
<1>5. u \o v \in Seq(Idents)
  BY <1>2, ConcatProperties
<1>6. (u \o v) \o Names(s.pre) \in Seq(Idents)
  BY <1>3, <1>5, ConcatProperties
<1> QED BY <1>3, <1>4, <1>6, ConcatProperties

(* A token is a sequence of one id.                                        *)
LEMMA MarkFacts ==
  /\ \A k \in Marks : <<tok(k)>> \in Seq(Int) /\ Len(<<tok(k)>>) = 1 /\ <<tok(k)>>[1] = tok(k)
  /\ <<tok("cls"), tok("inp(")>> \in Seq(Int) /\ Len(<<tok("cls"), tok("inp(")>>) = 2
  /\ tok(")inp") \in Stops /\ tok("pre(") \in Stops /\ tok("post(") \in Stops
  /\ tok("pre(") # tok("post(")
<1>1. \A k \in Marks : tok(k) \in Int
  <2> TAKE k \in Marks
  <2>1. tok(k) \in 0..28 BY TokFacts
  <2> QED BY <2>1
<1>2. {"cls", "inp(", ")inp", "pre(", ")pre", "post(", ")post"} \subseteq Marks
  BY DEF Marks
<1>3. tok("cls") \in Int /\ tok("inp(") \in Int
  BY <1>1, <1>2
<1>4. tok("pre(") # tok("post(")
  BY <1>2, TokFacts
<1> QED BY <1>1, <1>3, <1>4 DEF Stops

(* A mark, a sequence, and what follows it.                                *)
LEMMA Marked ==
  \A k \in Marks : \A u \in Seq(Int) :
    <<tok(k)>> \o u \in Seq(Int) /\ Len(<<tok(k)>> \o u) # 0 /\ (<<tok(k)>> \o u)[1] = tok(k)
<1> TAKE k \in Marks
<1> TAKE u \in Seq(Int)
<1> DEFINE m == <<tok(k)>>
<1>1. m \in Seq(Int) /\ Len(m) = 1 /\ m[1] = tok(k)
  BY MarkFacts
<1>2. Len(u) \in Nat
  BY LenProperties
<1> HIDE DEF m
<1>3. m \o u \in Seq(Int) /\ Len(m \o u) = 1 + Len(u)
  <2>1. m \o u \in Seq(Int) /\ Len(m \o u) = Len(m) + Len(u)
    BY <1>1, ConcatProperties
  <2> QED BY <1>1, <2>1
<1>4. (m \o u)[1] = m[1]
  BY <1>1, FirstOfConcat
<1>5. Len(m \o u) # 0
  BY <1>2, <1>3
<1> QED BY <1>1, <1>3, <1>4, <1>5 DEF m

(* A mark can be taken off.                                                *)
LEMMA Unmark ==
  \A k \in Marks : \A u, v \in Seq(Int) : <<tok(k)>> \o u = <<tok(k)>> \o v => u = v
<1> TAKE k \in Marks
<1> TAKE u \in Seq(Int), v \in Seq(Int)
<1>1. <<tok(k)>> \in Seq(Int)
  BY MarkFacts
<1> QED BY <1>1, CancelHeads

(* All of them are sequences of ids, of which the first is a mark.         *)
LEMMA TailTypes ==
  ASSUME NEW s, IsSpec(s), NEW na \in Seq(Idents)
  PROVE  /\ Emit(s.post, na) \o <<tok(")post")>> \in Seq(Int)
         /\ FromPost(s, na) \in Seq(Int) /\ Len(FromPost(s, na)) # 0 /\ FromPost(s, na)[1] = tok("post(")
         /\ <<tok(")pre")>> \o FromPost(s, na) \in Seq(Int)
         /\ Emit(s.pre, na) \o (<<tok(")pre")>> \o FromPost(s, na)) \in Seq(Int)
         /\ FromPre(s, na) \in Seq(Int) /\ Len(FromPre(s, na)) # 0
         /\ FromPre(s, na)[1] = IF s.pre.k = "true" THEN tok("post(") ELSE tok("pre(")
         /\ FromOutputs(s, na) \in Seq(Int)
         /\ <<tok(")inp")>> \o FromOutputs(s, na) \in Seq(Int)
         /\ FromInputs(s, na) \in Seq(Int)
<1>0. {"cls", "inp(", ")inp", "pre(", ")pre", "post(", ")post"} \subseteq Marks
  BY DEF Marks
<1>1. /\ Emit(s.post, na) \in Seq(Int) /\ Emit(s.pre, na) \in Seq(Int)
      /\ Params(s.inputs, na) \in Seq(Int) /\ Params(s.outputs, na) \in Seq(Int)
  BY EmitFacts, ParamsFacts DEF IsSpec
<1>2. Emit(s.post, na) \o <<tok(")post")>> \in Seq(Int)
  <2>1. <<tok(")post")>> \in Seq(Int) BY <1>0, MarkFacts
  <2> QED BY <1>1, <2>1, ConcatProperties
<1>3. FromPost(s, na) \in Seq(Int) /\ Len(FromPost(s, na)) # 0 /\ FromPost(s, na)[1] = tok("post(")
  BY <1>0, <1>2, Marked, Zenon DEF FromPost
<1>4. <<tok(")pre")>> \o FromPost(s, na) \in Seq(Int)
  BY <1>0, <1>3, Marked
<1>5. Emit(s.pre, na) \o (<<tok(")pre")>> \o FromPost(s, na)) \in Seq(Int)
  BY <1>1, <1>4, ConcatProperties
<1>6. /\ FromPre(s, na) \in Seq(Int) /\ Len(FromPre(s, na)) # 0
      /\ FromPre(s, na)[1] = IF s.pre.k = "true" THEN tok("post(") ELSE tok("pre(")
  <2>1. CASE s.pre.k = "true"
    <3>1. FromPre(s, na) = FromPost(s, na) BY <2>1 DEF FromPre
    <3> QED BY <1>3, <2>1, <3>1
  <2>2. CASE s.pre.k # "true"
    <3> DEFINE x == Emit(s.pre, na) \o (<<tok(")pre")>> \o FromPost(s, na))
    <3>1. FromPre(s, na) = <<tok("pre(")>> \o x BY <2>2 DEF FromPre
    <3>2. x \in Seq(Int) BY <1>5
    <3> HIDE DEF x
    <3>3. <<tok("pre(")>> \o x \in Seq(Int) /\ Len(<<tok("pre(")>> \o x) # 0 /\ (<<tok("pre(")>> \o x)[1] = tok("pre(")
      BY <1>0, <3>2, Marked, Zenon
    <3> QED BY <2>2, <3>1, <3>3
  <2> QED BY <2>1, <2>2
<1>7. FromOutputs(s, na) \in Seq(Int)
  BY <1>1, <1>6, ConcatProperties DEF FromOutputs
<1>8. <<tok(")inp")>> \o FromOutputs(s, na) \in Seq(Int)
  BY <1>0, <1>7, Marked
<1>9. FromInputs(s, na) \in Seq(Int)
  BY <1>1, <1>8, ConcatProperties DEF FromInputs
<1> QED BY <1>2, <1>3, <1>4, <1>5, <1>6, <1>7, <1>8, <1>9

(* tokenize_spec's tokens, as the parts are told from what follows them.   *)
Apart(u, v, w) == (u \o v) \o w = u \o (v \o w)

LEMMA TokensInTurn ==
  ASSUME NEW s, IsSpec(s)
  PROVE  TokenizeSpec(s) = <<tok("cls"), tok("inp(")>> \o FromInputs(s, NamesOf(s))
<1> DEFINE na == NamesOf(s)
           x1 == <<tok("cls"), tok("inp(")>>
           x2 == Params(s.inputs, na)
           x3 == <<tok(")inp")>>
           x4 == Params(s.outputs, na)
           x5 == IF s.pre.k = "true" THEN <<>> ELSE <<tok("pre(")>> \o Emit(s.pre, na) \o <<tok(")pre")>>
           x6 == <<tok("post(")>>
           x7 == Emit(s.post, na)
           x8 == <<tok(")post")>>
           t7 == x7 \o x8
           t6 == x6 \o t7
           t5 == x5 \o t6
           t4 == x4 \o t5
           t3 == x3 \o t4
           l2 == x1 \o x2
           l3 == l2 \o x3
           l4 == l3 \o x4
           l5 == l4 \o x5
           l6 == l5 \o x6
<1>0. na \in Seq(Idents)
  BY NamesOfFacts
<1>1. TokenizeSpec(s) = (l6 \o x7) \o x8
  BY DEF TokenizeSpec
<1>2. {"cls", "inp(", ")inp", "pre(", ")pre", "post(", ")post"} \subseteq Marks
  BY DEF Marks
<1> DEFINE p1 == <<tok("pre(")>>  p2 == Emit(s.pre, na)  p3 == <<tok(")pre")>>
<1>3. p1 \in Seq(Int) /\ p2 \in Seq(Int) /\ p3 \in Seq(Int)
  BY <1>0, <1>2, MarkFacts, EmitFacts DEF IsSpec
<1>4. x5 = IF s.pre.k = "true" THEN <<>> ELSE (p1 \o p2) \o p3
  OBVIOUS
<1>5. FromPost(s, na) = t6
  BY DEF FromPost
<1>6. FromPre(s, na) = IF s.pre.k = "true" THEN t6 ELSE p1 \o (p2 \o (p3 \o t6))
  BY <1>5 DEF FromPre
<1>7. FromInputs(s, na) = x2 \o (x3 \o (x4 \o FromPre(s, na)))
  BY DEF FromInputs, FromOutputs
<1>8. /\ x1 \in Seq(Int) /\ x2 \in Seq(Int) /\ x3 \in Seq(Int) /\ x4 \in Seq(Int)
      /\ x6 \in Seq(Int) /\ x7 \in Seq(Int) /\ x8 \in Seq(Int)
  BY <1>0, <1>2, MarkFacts, EmitFacts, ParamsFacts DEF IsSpec
<1> HIDE DEF x1, x2, x3, x4, x5, x6, x7, x8, p1, p2, p3, na
<1>9. x5 \in Seq(Int)
  <2>1. p1 \o p2 \in Seq(Int) BY <1>3, ConcatProperties
  <2>2. (p1 \o p2) \o p3 \in Seq(Int) BY <1>3, <2>1, ConcatProperties
  <2> QED BY <1>4, <2>2, EmptySeq
<1>10. t7 \in Seq(Int) BY <1>8, ConcatProperties
<1>11. t6 \in Seq(Int)
  <2> HIDE DEF t7
  <2> QED BY <1>8, <1>10, ConcatProperties
<1>12. t5 \in Seq(Int)
  <2> HIDE DEF t6
  <2> QED BY <1>9, <1>11, ConcatProperties
<1>13. t4 \in Seq(Int)
  <2> HIDE DEF t5
  <2> QED BY <1>8, <1>12, ConcatProperties
<1>14. t3 \in Seq(Int)
  <2> HIDE DEF t4
  <2> QED BY <1>8, <1>13, ConcatProperties
<1>15. l2 \in Seq(Int) BY <1>8, ConcatProperties
<1>16. l3 \in Seq(Int)
  <2> HIDE DEF l2
  <2> QED BY <1>8, <1>15, ConcatProperties
<1>17. l4 \in Seq(Int)
  <2> HIDE DEF l3
  <2> QED BY <1>8, <1>16, ConcatProperties
<1>18. l5 \in Seq(Int)
  <2> HIDE DEF l4
  <2> QED BY <1>9, <1>17, ConcatProperties
<1>19. l6 \in Seq(Int)
  <2> HIDE DEF l5
  <2> QED BY <1>8, <1>18, ConcatProperties
<1>20. \A u, v, w \in Seq(Int) : Apart(u, v, w)
  BY Regroup, Zenon DEF Apart
<1>21. t5 = FromPre(s, na)
  <2>1. CASE s.pre.k = "true"
    <3> HIDE DEF t6
    <3>1. x5 = <<>> /\ FromPre(s, na) = t6 BY <1>4, <1>6, <2>1
    <3>2. <<>> \o t6 = t6 BY <1>11, ConcatEmptySeq
    <3> QED BY <3>1, <3>2
  <2>2. CASE s.pre.k # "true"
    <3> HIDE DEF t6
    <3>1. x5 = (p1 \o p2) \o p3 /\ FromPre(s, na) = p1 \o (p2 \o (p3 \o t6)) BY <1>4, <1>6, <2>2, Zenon
    <3>2. ThreeApart(p1, p2, p3, t6) BY <1>3, <1>11, RegroupThree, Zenon
    <3> QED BY <3>1, <3>2, Zenon DEF ThreeApart
  <2> QED BY <2>1, <2>2
<1>22. TokenizeSpec(s) = l6 \o t7
  <2> HIDE DEF l6
  <2>1. Apart(l6, x7, x8) BY <1>8, <1>19, <1>20, Zenon
  <2> QED BY <1>1, <2>1, Zenon DEF Apart
<1>23. l6 \o t7 = l5 \o t6
  <2> HIDE DEF l5, t7
  <2>1. Apart(l5, x6, t7) BY <1>8, <1>10, <1>18, <1>20, Zenon
  <2> QED BY <2>1, Zenon DEF Apart
<1>24. l5 \o t6 = l4 \o t5
  <2> HIDE DEF l4, t6
  <2>1. Apart(l4, x5, t6) BY <1>9, <1>11, <1>17, <1>20, Zenon
  <2> QED BY <2>1, Zenon DEF Apart
<1>25. l4 \o t5 = l3 \o t4
  <2> HIDE DEF l3, t5
  <2>1. Apart(l3, x4, t5) BY <1>8, <1>12, <1>16, <1>20, Zenon
  <2> QED BY <2>1, Zenon DEF Apart
<1>26. l3 \o t4 = l2 \o t3
  <2> HIDE DEF l2, t4
  <2>1. Apart(l2, x3, t4) BY <1>8, <1>13, <1>15, <1>20, Zenon
  <2> QED BY <2>1, Zenon DEF Apart
<1>27. l2 \o t3 = x1 \o (x2 \o t3)
  <2> HIDE DEF t3
  <2>1. Apart(x1, x2, t3) BY <1>8, <1>14, <1>20, Zenon
  <2> QED BY <2>1, Zenon DEF Apart
<1>28. x2 \o t3 = FromInputs(s, na)
  <2> HIDE DEF t5
  <2> QED BY <1>7, <1>21, Zenon
<1>29. TokenizeSpec(s) = x1 \o FromInputs(s, na)
  <2> HIDE DEF l6, l5, l4, l3, l2, t7, t6, t5, t4, t3
  <2> QED BY <1>22, <1>23, <1>24, <1>25, <1>26, <1>27, <1>28, Zenon
<1> QED BY <1>29 DEF x1, na

(* If one of the parts raises an exception, so does tokenize_spec.         *)
LEMMA RaiseShows ==
  ASSUME NEW s, IsSpec(s), Raise \notin Range(TokenizeSpec(s))
  PROVE  /\ Raise \notin Range(Emit(s.post, NamesOf(s)))
         /\ s.pre.k # "true" => Raise \notin Range(Emit(s.pre, NamesOf(s)))
<1> DEFINE na == NamesOf(s)  x1 == <<tok("cls"), tok("inp(")>>
<1>0. na \in Seq(Idents)
  BY NamesOfFacts
<1>1. {"cls", "inp(", ")inp", "pre(", ")pre", "post(", ")post"} \subseteq Marks
  BY DEF Marks
<1>2. /\ x1 \in Seq(Int) /\ <<tok(")inp")>> \in Seq(Int) /\ <<tok("pre(")>> \in Seq(Int)
      /\ <<tok(")pre")>> \in Seq(Int) /\ <<tok("post(")>> \in Seq(Int) /\ <<tok(")post")>> \in Seq(Int)
      /\ Params(s.inputs, na) \in Seq(Int) /\ Params(s.outputs, na) \in Seq(Int)
      /\ Emit(s.pre, na) \in Seq(Int) /\ Emit(s.post, na) \in Seq(Int)
  BY <1>0, <1>1, MarkFacts, ParamsFacts, EmitFacts DEF IsSpec
<1>3. TokenizeSpec(s) = x1 \o FromInputs(s, na)
  BY TokensInTurn
<1> HIDE DEF na, x1
<1>4. Raise \notin Range(FromInputs(s, na))
  BY <1>0, <1>2, <1>3, TailTypes, ConcatHas
<1>5. Raise \notin Range(<<tok(")inp")>> \o FromOutputs(s, na))
  BY <1>0, <1>2, <1>4, TailTypes, ConcatHas DEF FromInputs
<1>6. Raise \notin Range(FromOutputs(s, na))
  BY <1>0, <1>2, <1>5, TailTypes, ConcatHas
<1>7. Raise \notin Range(FromPre(s, na))
  BY <1>0, <1>2, <1>6, TailTypes, ConcatHas DEF FromOutputs
<1>8. ASSUME s.pre.k # "true"
      PROVE  Raise \notin Range(Emit(s.pre, na)) /\ Raise \notin Range(FromPost(s, na))
  <2> DEFINE y == <<tok(")pre")>> \o FromPost(s, na)
             x == Emit(s.pre, na) \o y
  <2>1. FromPre(s, na) = <<tok("pre(")>> \o x
    BY <1>8 DEF FromPre
  <2>2. x \in Seq(Int) /\ y \in Seq(Int) /\ FromPost(s, na) \in Seq(Int)
    BY <1>0, TailTypes
  <2>3. Raise \notin Range(x)
    <3> HIDE DEF x
    <3> QED BY <1>2, <1>7, <2>1, <2>2, ConcatHas
  <2>4. Raise \notin Range(Emit(s.pre, na)) /\ Raise \notin Range(y)
    <3> HIDE DEF y
    <3> QED BY <1>2, <2>2, <2>3, ConcatHas
  <2> QED BY <1>2, <2>2, <2>4, ConcatHas
<1>9. Raise \notin Range(FromPost(s, na))
  BY <1>7, <1>8 DEF FromPre
<1>10. Raise \notin Range(Emit(s.post, na) \o <<tok(")post")>>)
  BY <1>0, <1>2, <1>9, TailTypes, ConcatHas DEF FromPost
<1>11. Raise \notin Range(Emit(s.post, na))
  BY <1>2, <1>10, ConcatHas
<1> QED BY <1>8, <1>11 DEF na

(* Two specs that are the same have the same tokens.                       *)
LEMMA SameTokens ==
  ASSUME NEW a, NEW b, IsSpec(a), IsSpec(b), SameSpec(a, b)
  PROVE  TokenizeSpec(a) = TokenizeSpec(b)
<1> DEFINE na == NamesOf(a)  nb == NamesOf(b)
<1>1. na \in Seq(Idents) /\ nb \in Seq(Idents)
  BY NamesOfFacts
<1>2. /\ SameParams(a.inputs, na, b.inputs, nb) /\ SameParams(a.outputs, na, b.outputs, nb)
      /\ SameTree(a.pre, na, b.pre, nb) /\ SameTree(a.post, na, b.post, nb)
  BY DEF SameSpec
<1>3. TokenizeSpec(a) = <<tok("cls"), tok("inp(")>> \o FromInputs(a, na)
  BY TokensInTurn
<1>4. TokenizeSpec(b) = <<tok("cls"), tok("inp(")>> \o FromInputs(b, nb)
  BY TokensInTurn
<1> HIDE DEF na, nb
<1>5. Params(a.inputs, na) = Params(b.inputs, nb) /\ Params(a.outputs, na) = Params(b.outputs, nb)
  BY <1>1, <1>2, ParamsDecide DEF IsSpec
<1>6. Emit(a.pre, na) = Emit(b.pre, nb) /\ Emit(a.post, na) = Emit(b.post, nb)
  BY <1>1, <1>2, EmitFollows DEF IsSpec
<1>7. a.pre.k = b.pre.k
  <2>1. a.pre \in Exprs /\ b.pre \in Exprs BY DEF IsSpec
  <2>2. Node(a.pre, na) = Node(b.pre, nb) BY <1>2, <2>1, SameMeans
  <2> QED BY <2>1, <2>2, NodeKind
<1>8. FromPost(a, na) = FromPost(b, nb)
  BY <1>6 DEF FromPost
<1>9. FromPre(a, na) = FromPre(b, nb)
  BY <1>6, <1>7, <1>8 DEF FromPre
<1>10. FromInputs(a, na) = FromInputs(b, nb)
  BY <1>5, <1>9 DEF FromInputs, FromOutputs
<1> QED BY <1>3, <1>4, <1>10

(* And two specs with the same tokens are the same.                        *)
LEMMA TokensTell ==
  ASSUME NEW a, NEW b, IsSpec(a), IsSpec(b), Raise \notin Range(TokenizeSpec(a)),
         TokenizeSpec(a) = TokenizeSpec(b)
  PROVE  SameSpec(a, b)
<1> DEFINE na == NamesOf(a)  nb == NamesOf(b)  x1 == <<tok("cls"), tok("inp(")>>
<1>0. {"cls", "inp(", ")inp", "pre(", ")pre", "post(", ")post"} \subseteq Marks
  BY DEF Marks
<1>1. na \in Seq(Idents) /\ nb \in Seq(Idents) /\ x1 \in Seq(Int)
  BY NamesOfFacts, MarkFacts
<1>2. Raise \notin Range(Emit(a.post, na)) /\ (a.pre.k # "true" => Raise \notin Range(Emit(a.pre, na)))
  BY RaiseShows
<1>3. x1 \o FromInputs(a, na) = x1 \o FromInputs(b, nb)
  <2>1. TokenizeSpec(a) = x1 \o FromInputs(a, na) BY TokensInTurn
  <2>2. TokenizeSpec(b) = x1 \o FromInputs(b, nb) BY TokensInTurn
  <2> QED BY <2>1, <2>2
<1>g. SameParams(a.inputs, na, b.inputs, nb) /\ SameParams(a.outputs, na, b.outputs, nb)
      /\ SameTree(a.pre, na, b.pre, nb) /\ SameTree(a.post, na, b.post, nb) => SameSpec(a, b)
  BY DEF SameSpec
<1> HIDE DEF na, nb, x1
<1>4. FromInputs(a, na) = FromInputs(b, nb)
  <2>1. FromInputs(a, na) \in Seq(Int) /\ FromInputs(b, nb) \in Seq(Int) BY <1>1, TailTypes
  <2> QED BY <1>1, <1>3, <2>1, CancelHeads
<1>5. /\ a.inputs \in Parameters /\ a.outputs \in Parameters /\ a.pre \in Exprs /\ a.post \in Exprs
      /\ b.inputs \in Parameters /\ b.outputs \in Parameters /\ b.pre \in Exprs /\ b.post \in Exprs
  BY DEF IsSpec
<1>6. SameParams(a.inputs, na, b.inputs, nb) /\ FromOutputs(a, na) = FromOutputs(b, nb)
  <2> DEFINE oa == FromOutputs(a, na)  ob == FromOutputs(b, nb)
             ua == <<tok(")inp")>> \o oa  ub == <<tok(")inp")>> \o ob
  <2>1. oa \in Seq(Int) /\ ob \in Seq(Int)
    BY <1>1, TailTypes
  <2>2. Alike(a.inputs, na, ua, b.inputs, nb, ub)
    BY <1>4 DEF FromInputs, Alike
  <2> HIDE DEF oa, ob
  <2>3. ua \in Seq(Int) /\ Len(ua) # 0 /\ ua[1] = tok(")inp") /\ ub \in Seq(Int) /\ Len(ub) # 0 /\ ub[1] = tok(")inp")
    BY <1>0, <2>1, Marked, Zenon
  <2>4. Follows(ua) /\ Follows(ub)
    BY <2>3, MarkFacts DEF Follows
  <2>5. SameParams(a.inputs, na, b.inputs, nb) /\ ua = ub
    <3>1. a.inputs \in Parameters /\ b.inputs \in Parameters BY <1>5
    <3> HIDE DEF ua, ub
    <3> QED BY <1>1, <2>2, <2>4, <3>1, ParamsTell, Zenon
  <2>6. oa = ob
    BY <1>0, <2>1, <2>5, Unmark, Zenon
  <2> QED BY <2>5, <2>6 DEF oa, ob
<1>7. SameParams(a.outputs, na, b.outputs, nb) /\ FromPre(a, na) = FromPre(b, nb)
  <2> DEFINE ua == FromPre(a, na)  ub == FromPre(b, nb)
  <2>1. /\ ua \in Seq(Int) /\ Len(ua) # 0 /\ ua[1] \in {tok("post("), tok("pre(")}
        /\ ub \in Seq(Int) /\ Len(ub) # 0 /\ ub[1] \in {tok("post("), tok("pre(")}
    BY <1>1, TailTypes
  <2>2. Follows(ua) /\ Follows(ub)
    BY <2>1, MarkFacts DEF Follows
  <2>3. Alike(a.outputs, na, ua, b.outputs, nb, ub)
    BY <1>6 DEF FromOutputs, Alike
  <2> HIDE DEF ua, ub
  <2>4. SameParams(a.outputs, na, b.outputs, nb) /\ ua = ub
    <3>1. a.outputs \in Parameters /\ b.outputs \in Parameters BY <1>5
    <3> QED BY <1>1, <2>2, <2>3, <3>1, ParamsTell, Zenon
  <2> QED BY <2>4 DEF ua, ub
<1>8. a.pre.k = "true" <=> b.pre.k = "true"
  BY <1>1, <1>7, TailTypes, MarkFacts
<1>9. SameTree(a.pre, na, b.pre, nb) /\ FromPost(a, na) = FromPost(b, nb)
  <2>1. CASE a.pre.k = "true"
    <3>1. FromPost(a, na) = FromPost(b, nb) BY <1>7, <1>8, <2>1 DEF FromPre
    <3>2. Node(a.pre, na) = Node(b.pre, nb) BY <1>5, <1>8, <2>1, NodeCases
    <3>3. Arity(a.pre.k) = 0 BY <2>1 DEF Arity, Connectives, Quantifiers
    <3>4. \A i \in 1..Arity(a.pre.k) : SameTree(Parts(a.pre)[i], na, Parts(b.pre)[i], nb) BY <3>3
    <3>5. SameTree(a.pre, na, b.pre, nb) BY <1>5, <3>2, <3>4, SameMeans, Zenon
    <3> QED BY <3>1, <3>5
  <2>2. CASE a.pre.k # "true"
    <3> DEFINE sa == <<tok(")pre")>> \o FromPost(a, na)  sb == <<tok(")pre")>> \o FromPost(b, nb)
               ea == Emit(a.pre, na)  eb == Emit(b.pre, nb)
               ra == ea \o sa  rb == eb \o sb
    <3>1. FromPre(a, na) = <<tok("pre(")>> \o ra /\ FromPre(b, nb) = <<tok("pre(")>> \o rb
      BY <1>8, <2>2 DEF FromPre
    <3>2. ra \in Seq(Int) /\ rb \in Seq(Int) /\ sa \in Seq(Int) /\ sb \in Seq(Int)
      BY <1>1, TailTypes
    <3>3. ra = rb
      <4> HIDE DEF ra, rb
      <4>1. <<tok("pre(")>> \o ra = <<tok("pre(")>> \o rb BY <1>7, <3>1
      <4> QED BY <1>0, <3>2, <4>1, Unmark, Zenon
    <3>4. SameTree(a.pre, na, b.pre, nb) /\ sa = sb
      <4>1. TellsTree(a.pre, na, nb) BY <1>1, <1>5, EmitTells
      <4>2. Raise \notin Range(ea) BY <1>2, <2>2
      <4> HIDE DEF sa, sb
      <4> QED BY <1>5, <3>2, <3>3, <4>1, <4>2, Zenon DEF TellsTree
    <3>5. FromPost(a, na) \in Seq(Int) /\ FromPost(b, nb) \in Seq(Int)
      BY <1>1, TailTypes
    <3>6. FromPost(a, na) = FromPost(b, nb)
      BY <1>0, <3>4, <3>5, Unmark, Zenon
    <3> QED BY <3>4, <3>6
  <2> QED BY <2>1, <2>2
<1>10. SameTree(a.post, na, b.post, nb)
  <2> DEFINE s == <<tok(")post")>>
             ra == Emit(a.post, na) \o s  rb == Emit(b.post, nb) \o s
  <2>1. ra \in Seq(Int) /\ rb \in Seq(Int) /\ s \in Seq(Int)
    BY <1>0, <1>1, TailTypes, MarkFacts
  <2>2. <<tok("post(")>> \o ra = <<tok("post(")>> \o rb
    BY <1>9 DEF FromPost
  <2>3. ra = rb
    <3> HIDE DEF ra, rb
    <3> QED BY <1>0, <2>1, <2>2, Unmark, Zenon
  <2>4. TellsTree(a.post, na, nb)
    BY <1>1, <1>5, EmitTells
  <2> HIDE DEF s
  <2> QED BY <1>2, <1>5, <2>1, <2>3, <2>4, Zenon DEF TellsTree
<1> QED BY <1>6, <1>7, <1>9, <1>10, <1>g

(* The two specs of a state are among the specs.                           *)
PairInv == job = "spec" => first \in SpecIds /\ second \in SpecIds

LEMMA PairInvariance == VocabulariesSpec => []PairInv
<1>1. VocabulariesInit => PairInv
  BY DEF VocabulariesInit, PairInv
<1>2. PairInv /\ [VocabulariesNext]_vvars => PairInv'
  BY DEF PairInv, VocabulariesNext, NextConst, AddLine, AddToken, vvars
<1> QED BY <1>1, <1>2, PTL DEF VocabulariesSpec

(* tokenize_spec: any two specs it takes have the same tokens exactly if   *)
(* they have the same tree up to the names of variables and the constants  *)
(* of one bucket (src/model/vocab.py:188-320).                             *)
THEOREM SpecTokensAreFaithful == VocabulariesSpec => []SpecTokensFaithful
<1>1. \A i \in SpecIds : IsSpec(SpecAt(i))
  BY VocabulariesAssumption DEF IsSpec, Parameters
<1>2. PairInv => SpecTokensFaithful
  <2> SUFFICES ASSUME first \in SpecIds, second \in SpecIds, Raise \notin Range(TokenizeSpec(SpecAt(first)))
               PROVE  TokenizeSpec(SpecAt(first)) = TokenizeSpec(SpecAt(second)) <=>
                        SameSpec(SpecAt(first), SpecAt(second))
    BY DEF PairInv, SpecTokensFaithful
  <2>1. IsSpec(SpecAt(first)) /\ IsSpec(SpecAt(second))
    BY <1>1
  <2>2. TokenizeSpec(SpecAt(first)) = TokenizeSpec(SpecAt(second)) => SameSpec(SpecAt(first), SpecAt(second))
    BY <2>1, TokensTell
  <2>3. SameSpec(SpecAt(first), SpecAt(second)) => TokenizeSpec(SpecAt(first)) = TokenizeSpec(SpecAt(second))
    BY <2>1, SameTokens
  <2> QED BY <2>2, <2>3
<1> QED BY <1>2, PairInvariance, PTL

-----------------------------------------------------------------------------
(* The detokenizer.                                                        *)

(* What the detokenizer keeps: lines with the operands written on them, a  *)
(* pending opcode, operands not yet written.                               *)
Ids     == AsmVocab
Written == Ids \cup {imm(0)}
Args    == {t[2] : t \in Ids}
OutLine == [k : {"label"}, name : Args] \cup [k : {"insn"}, op : Args, buf : Seq(Written)]
DState  == [out : Seq(OutLine), op : {NoOp} \cup {<<n>> : n \in Args}, buf : Seq(Written)]

NameOn    == [l \in OutLine |-> IF l.k = "label" THEN l.name ELSE l.op]
OperandsOn == [l \in OutLine |-> IF l.k = "label" THEN <<>> ELSE l.buf]
Spelled(d) == Mapped(d.out, NameOn) \o d.op
Spent(d)   == FlattenSeq(Mapped(d.out, OperandsOn)) \o d.buf

(* Both are lists, and grow with a line.                                   *)
LEMMA OutGrows ==
  ASSUME NEW out \in Seq(OutLine), NEW l \in OutLine
  PROVE  /\ Mapped(out, NameOn) \in Seq(Args)
         /\ FlattenSeq(Mapped(out, OperandsOn)) \in Seq(Written)
         /\ Append(out, l) \in Seq(OutLine)
         /\ Mapped(Append(out, l), NameOn) = Append(Mapped(out, NameOn), NameOn[l])
         /\ FlattenSeq(Mapped(Append(out, l), OperandsOn)) = FlattenSeq(Mapped(out, OperandsOn)) \o OperandsOn[l]
<1>1. NameOn \in [OutLine -> Args]
  BY DEF NameOn, OutLine
<1>2. OperandsOn \in [OutLine -> Seq(Written)]
  BY EmptySeq DEF OperandsOn, OutLine
<1>3. Mapped(out, NameOn) \in Seq(Args) /\ Grown(out, NameOn, l)
  BY <1>1, MappedAppend, Zenon
<1>4. Mapped(out, OperandsOn) \in Seq(Seq(Written)) /\ Grown(out, OperandsOn, l)
  BY <1>2, MappedAppend, Zenon
<1>5. OperandsOn[l] \in Seq(Written)
  BY <1>2
<1>6. /\ FlattenSeq(Mapped(out, OperandsOn)) \in Seq(Written)
      /\ FlattenSeq(Append(Mapped(out, OperandsOn), OperandsOn[l])) = FlattenSeq(Mapped(out, OperandsOn)) \o OperandsOn[l]
  BY <1>4, <1>5, FlattenAppend
<1>7. Append(out, l) \in Seq(OutLine)
  BY AppendProperties
<1> QED BY <1>3, <1>4, <1>6, <1>7 DEF Grown

(* flush_line writes the pending line, and changes neither what is spelled *)
(* nor what operands there are.                                            *)
LEMMA FlushFacts ==
  ASSUME NEW d \in DState
  PROVE  /\ Flush(d) \in DState /\ Flush(d).op = NoOp
         /\ Spelled(Flush(d)) = Spelled(d) /\ Spent(Flush(d)) = Spent(d)
<1>1. d.out \in Seq(OutLine) /\ d.buf \in Seq(Written)
  BY DEF DState
<1>2. CASE d.op = NoOp
  BY <1>2 DEF Flush
<1>3. CASE d.op # NoOp
  <2>1. PICK n \in Args : d.op = <<n>>
    BY <1>3 DEF DState
  <2> DEFINE l == [k |-> "insn", op |-> n, buf |-> d.buf]
             e == [out |-> Append(d.out, l), op |-> NoOp, buf |-> <<>>]
  <2>2. Flush(d) = e
    BY <1>3, <2>1 DEF Flush, EmptyBuf
  <2>3. l \in OutLine /\ NameOn[l] = n /\ OperandsOn[l] = d.buf
    <3>1. l \in [k : {"insn"}, op : Args, buf : Seq(Written)] /\ l.k # "label" /\ l.op = n /\ l.buf = d.buf
      BY <1>1
    <3>2. l \in OutLine
      BY <3>1 DEF OutLine
    <3> HIDE DEF l
    <3> QED BY <3>1, <3>2 DEF NameOn, OperandsOn
  <2>4. e \in DState /\ e.out = Append(d.out, l) /\ e.op = <<>> /\ e.buf = <<>>
    <3>1. Append(d.out, l) \in Seq(OutLine)
      BY <1>1, <2>3, OutGrows
    <3> HIDE DEF l
    <3> QED BY <3>1, EmptySeq DEF DState, NoOp
  <2> DEFINE names == Mapped(d.out, NameOn)
             flat  == FlattenSeq(Mapped(d.out, OperandsOn))
  <2>5. /\ names \in Seq(Args) /\ flat \in Seq(Written)
        /\ Mapped(e.out, NameOn) = Append(names, n)
        /\ FlattenSeq(Mapped(e.out, OperandsOn)) = flat \o d.buf
    BY <1>1, <2>3, <2>4, OutGrows
  <2>6. Append(names, n) \in Seq(Args) /\ flat \o d.buf \in Seq(Written)
    BY <1>1, <2>5, AppendProperties, ConcatProperties
  <2> HIDE DEF l, e, names, flat
  <2>7. Spelled(e) = Append(names, n)
    BY <2>4, <2>5, <2>6, ConcatEmptySeq DEF Spelled
  <2>8. Spelled(d) = Append(names, n)
    <3>1. Spelled(d) = names \o <<n>>
      BY <2>1 DEF Spelled, names
    <3> QED BY <2>5, <3>1
  <2>9. Spent(e) = flat \o d.buf
    BY <2>4, <2>5, <2>6, ConcatEmptySeq DEF Spent
  <2>10. Spent(d) = flat \o d.buf
    BY DEF Spent, flat
  <2> QED BY <2>2, <2>4, <2>7, <2>8, <2>9, <2>10 DEF NoOp
<1> QED BY <1>2, <1>3

(* The tokens that stand for themselves differ from the others in their    *)
(* first component.                                                        *)
LEMMA Firsts ==
  /\ BOS[1] = "bos" /\ Pad[1] = "pad" /\ EOL[1] = "eol" /\ OOV[1] = "oov"
  /\ COMMA[1] = "," /\ LPAREN[1] = "(" /\ RPAREN[1] = ")" /\ COLON[1] = ":"
BY DEF BOS, Pad, EOL, OOV, COMMA, LPAREN, RPAREN, COLON

(* A token is a line's name, an operand, or nothing that is written, and   *)
(* detokenize_asm has a branch for each.                                   *)
LineToks    == {t \in Ids : t[1] \in {"op", "def"}}
OperandToks == {t \in Ids : IsOperand(t)}
Meaning     == [t \in Ids |-> IF t = OOV THEN imm(0) ELSE t]
ArgOf       == [t \in Ids |-> t[2]]
LEMMA TokenKinds ==
  ASSUME NEW t \in Ids \ {EOS}
  PROVE  \/ t \in {BOS, Pad, EOL} /\ t \notin LineToks /\ t \notin OperandToks
         \/ t[1] \in {"op", "def"} /\ t \in LineToks /\ t \notin OperandToks
         \/ IsOperand(t) /\ t \notin LineToks /\ t \in OperandToks
<1>1. t \in {BOS, Pad, EOL, OOV} \cup Punctuation \/ t[1] \in {"op", "def"} \cup Operands
  <2>1. t \in {BOS, Pad, EOL, OOV} \cup Punctuation \/ t[1] \in {"op", "reg", "imm", "ref", "def"}
    BY DEF Ids, AsmVocab
  <2> QED BY <2>1 DEF Operands
<1>2. CASE t \in {BOS, Pad, EOL}
  <2>1. t[1] \in {"bos", "pad", "eol"}
    BY <1>2, Firsts
  <2>2. t \notin {OOV} \cup Punctuation
    BY <2>1, Firsts DEF Punctuation
  <2>3. t[1] \notin Operands /\ t[1] \notin {"op", "def"}
    BY <2>1 DEF Operands
  <2> QED BY <1>2, <2>2, <2>3 DEF LineToks, OperandToks, IsOperand
<1>3. CASE t \in {OOV} \cup Punctuation
  <2>1. t[1] \notin {"op", "def"}
    BY <1>3, Firsts DEF Punctuation
  <2> QED BY <1>3, <2>1 DEF LineToks, OperandToks, IsOperand
<1>4. CASE t[1] \in {"op", "def"}
  <2>1. t \notin {OOV} \cup Punctuation
    BY <1>4, Firsts DEF Punctuation
  <2>2. t[1] \notin Operands
    BY <1>4 DEF Operands
  <2> QED BY <1>4, <2>1, <2>2 DEF LineToks, OperandToks, IsOperand
<1>5. CASE t[1] \in Operands
  BY <1>5 DEF LineToks, OperandToks, IsOperand, Operands
<1> QED BY <1>1, <1>2, <1>3, <1>4, <1>5

(* What a branch does, by the kind of token.                               *)
LEMMA DetokCases ==
  ASSUME NEW t \in Ids \ {EOS}, NEW d
  PROVE  /\ t \in {BOS, Pad} => Detok(d, t) = d
         /\ t = EOL => Detok(d, t) = Flush(d)
         /\ t[1] = "op" => Detok(d, t) = [Flush(d) EXCEPT !.op = <<t[2]>>]
         /\ t[1] = "def" => Detok(d, t) = [Flush(d) EXCEPT !.out = Append(@, [k |-> "label", name |-> t[2]])]
         /\ IsOperand(t) => Detok(d, t) = [d EXCEPT !.buf = Append(@, Meaning[t])]
<1>2. CASE t \in {BOS, Pad}
  <2>1. t[1] \in {"bos", "pad"} /\ t # EOL /\ t # OOV
    BY Firsts, <1>2
  <2>2. ~IsOperand(t) /\ t[1] # "op" /\ t[1] # "def"
    BY Firsts, <2>1 DEF IsOperand, Operands, Punctuation
  <2>3. Detok(d, t) = d
    BY <1>2, <2>1, <2>2 DEF Detok
  <2> QED BY <1>2, <2>1, <2>2, <2>3
<1>3. CASE t = EOL
  <2>1. t[1] = "eol" /\ t \notin {BOS, Pad} /\ t # OOV
    BY Firsts, <1>3
  <2>2. ~IsOperand(t) /\ t[1] # "op" /\ t[1] # "def"
    BY Firsts, <2>1 DEF IsOperand, Operands, Punctuation
  <2>3. Detok(d, t) = Flush(d)
    BY <1>3, <2>1, <2>2 DEF Detok
  <2> QED BY <1>3, <2>1, <2>2, <2>3
<1>4. CASE t[1] \in {"op", "def"}
  <2>1. t # EOL /\ t \notin {BOS, Pad} /\ t # OOV
    BY Firsts, <1>4
  <2>2. ~IsOperand(t)
    BY Firsts, <1>4 DEF IsOperand, Operands, Punctuation
  <2>3. t[1] = "op" => Detok(d, t) = [Flush(d) EXCEPT !.op = <<t[2]>>]
    BY <2>1, <2>2 DEF Detok
  <2>4. t[1] = "def" => Detok(d, t) = [Flush(d) EXCEPT !.out = Append(@, [k |-> "label", name |-> t[2]])]
    BY <2>1, <2>2 DEF Detok
  <2> QED BY <1>4, <2>1, <2>2, <2>3, <2>4
<1>5. CASE IsOperand(t)
  <2>1. t[1] \in {"oov", ",", "(", ")", ":", "reg", "imm", "ref"}
    BY Firsts, <1>5 DEF IsOperand, Operands, Punctuation
  <2>2. t # EOL /\ t \notin {BOS, Pad} /\ t[1] # "op" /\ t[1] # "def"
    BY Firsts, <2>1
  <2>3. imm(0) = <<"imm", 0>>
    BY AsmVocabAssumption DEF imm
  <2>4. t = OOV => Detok(d, t) = [d EXCEPT !.buf = Append(@, <<"imm", 0>>)]
    BY <1>5, <2>2 DEF Detok
  <2>5. t # OOV => Detok(d, t) = [d EXCEPT !.buf = Append(@, t)]
    BY <1>5, <2>2 DEF Detok
  <2>6. Meaning[t] = IF t = OOV THEN <<"imm", 0>> ELSE t
    BY <2>3 DEF Meaning
  <2> QED BY <1>5, <2>2, <2>4, <2>5, <2>6
<1> QED BY <1>2, <1>3, <1>4, <1>5, TokenKinds

(* One token adds to what is spelled if it names a line, to the operands   *)
(* if it is one.                                                           *)
Advances(d, t, e) ==
  /\ e \in DState
  /\ Spelled(e) = IF t \in LineToks THEN Append(Spelled(d), ArgOf[t]) ELSE Spelled(d)
  /\ Spent(e) = IF t \in OperandToks THEN Append(Spent(d), Meaning[t]) ELSE Spent(d)
LEMMA DetokStep ==
  ASSUME NEW d \in DState, NEW t \in Ids \ {EOS}
  PROVE  Advances(d, t, Detok(d, t))
<1> DEFINE f == Flush(d)
           names == Mapped(f.out, NameOn)
           flat  == FlattenSeq(Mapped(f.out, OperandsOn))
           n == t[2]
<1>1. f \in DState /\ f.op = NoOp /\ Spelled(f) = Spelled(d) /\ Spent(f) = Spent(d)
  BY FlushFacts
<1>2. /\ f = [out |-> f.out, op |-> f.op, buf |-> f.buf]
      /\ f.out \in Seq(OutLine) /\ f.buf \in Seq(Written)
  BY <1>1 DEF DState
<1>3. n \in Args /\ ArgOf[t] = n
  BY DEF Args, ArgOf
<1>4. [k |-> "label", name |-> n] \in OutLine
  BY <1>3 DEF OutLine
<1>5. names \in Seq(Args) /\ flat \in Seq(Written)
  BY <1>2, <1>4, OutGrows
<1>6. Spelled(f) = names /\ Spent(f) = flat \o f.buf
  <2>1. Spelled(f) = names \o <<>>
    BY <1>1 DEF Spelled, NoOp
  <2>2. names \o <<>> = names
    BY <1>5, ConcatEmptySeq
  <2> QED BY <2>1, <2>2 DEF Spent
<1>7. CASE t \in {BOS, Pad, EOL} /\ t \notin LineToks /\ t \notin OperandToks
  <2>1. Detok(d, t) \in {d, f}
    BY <1>7, DetokCases
  <2> QED BY <1>1, <1>7, <2>1 DEF Advances
<1>8. CASE t[1] = "op" /\ t \in LineToks /\ t \notin OperandToks
  <2> DEFINE e == [out |-> f.out, op |-> <<n>>, buf |-> f.buf]
  <2>1. Detok(d, t) = e
    <3>1. Detok(d, t) = [f EXCEPT !.op = <<n>>]
      BY <1>8, DetokCases
    <3> HIDE DEF f, n
    <3> QED BY <1>2, <3>1
  <2>2. e \in DState /\ e.out = f.out /\ e.op = <<n>> /\ e.buf = f.buf
    BY <1>2, <1>3 DEF DState
  <2> HIDE DEF e, f, n
  <2>3. Spelled(e) = names \o <<n>> /\ Spent(e) = flat \o f.buf
    BY <2>2 DEF Spelled, Spent
  <2> HIDE DEF names, flat
  <2>4. names \o <<n>> = Append(names, n)
    BY <1>5, <1>3
  <2> QED BY <1>1, <1>3, <1>6, <1>8, <2>1, <2>2, <2>3, <2>4 DEF Advances
<1>9. CASE t[1] = "def" /\ t \in LineToks /\ t \notin OperandToks
  <2> DEFINE l == [k |-> "label", name |-> n]
             e == [out |-> Append(f.out, l), op |-> f.op, buf |-> f.buf]
  <2>1. Detok(d, t) = e
    <3>1. Detok(d, t) = [f EXCEPT !.out = Append(@, l)]
      BY <1>9, DetokCases
    <3> HIDE DEF f, n, l
    <3> QED BY <1>2, <3>1
  <2>2. l \in OutLine /\ NameOn[l] = n /\ OperandsOn[l] = <<>>
    <3>1. l.k = "label" /\ l.name = n
      OBVIOUS
    <3> QED BY <1>4, <3>1 DEF NameOn, OperandsOn
  <2>3. e \in DState /\ e.out = Append(f.out, l) /\ e.op = NoOp /\ e.buf = f.buf
    <3>1. Append(f.out, l) \in Seq(OutLine)
      BY <1>2, <2>2, OutGrows
    <3> HIDE DEF l, f
    <3> QED BY <1>1, <1>2, <3>1 DEF DState
  <2>4. /\ Mapped(e.out, NameOn) = Append(names, n)
        /\ FlattenSeq(Mapped(e.out, OperandsOn)) = flat \o <<>>
    BY <1>2, <2>2, <2>3, OutGrows
  <2>5. Append(names, n) \o <<>> = Append(names, n) /\ flat \o <<>> = flat
    <3>1. Append(names, n) \in Seq(Args)
      BY <1>3, <1>5, AppendProperties
    <3> QED BY <1>5, <3>1, ConcatEmptySeq
  <2> HIDE DEF e, f, n, l, names, flat
  <2>6. Spelled(e) = Append(names, n)
    BY <2>3, <2>4, <2>5 DEF Spelled, NoOp
  <2>7. Spent(e) = flat \o f.buf
    BY <2>3, <2>4, <2>5 DEF Spent
  <2> QED BY <1>1, <1>3, <1>6, <1>9, <2>1, <2>3, <2>6, <2>7 DEF Advances
<1>10. CASE IsOperand(t) /\ t \notin LineToks /\ t \in OperandToks
  <2> DEFINE x == Meaning[t]
             e == [out |-> d.out, op |-> d.op, buf |-> Append(d.buf, x)]
             flatd == FlattenSeq(Mapped(d.out, OperandsOn))
  <2>1. d = [out |-> d.out, op |-> d.op, buf |-> d.buf] /\ d.out \in Seq(OutLine) /\ d.buf \in Seq(Written)
    BY DEF DState
  <2>2. Detok(d, t) = e
    <3>1. Detok(d, t) = [d EXCEPT !.buf = Append(@, x)]
      BY <1>10, DetokCases
    <3> HIDE DEF x
    <3> QED BY <2>1, <3>1
  <2>3. x \in Written
    BY DEF Meaning, Written
  <2>4. e \in DState /\ e.out = d.out /\ e.op = d.op /\ e.buf = Append(d.buf, x)
    <3>1. Append(d.buf, x) \in Seq(Written)
      BY <2>1, <2>3, AppendProperties
    <3> HIDE DEF x
    <3> QED BY <3>1 DEF DState
  <2>5. flatd \in Seq(Written)
    BY <1>4, <2>1, OutGrows
  <2> HIDE DEF x, e
  <2>6. Spelled(e) = Spelled(d)
    BY <2>4 DEF Spelled
  <2>7. Spent(e) = flatd \o Append(d.buf, x) /\ Spent(d) = flatd \o d.buf
    BY <2>4 DEF Spent
  <2> HIDE DEF flatd
  <2>8. flatd \o Append(d.buf, x) = Append(flatd \o d.buf, x)
    BY <2>1, <2>3, <2>5, ConcatAppend
  <2> QED BY <1>10, <2>2, <2>4, <2>6, <2>7, <2>8 DEF Advances, x
<1> QED BY <1>7, <1>8, <1>9, <1>10, TokenKinds

(* What a state says of the tokens read so far.                            *)
Accounts(d, s) ==
  /\ d \in DState
  /\ Spelled(d) = Mapped(Among(s, LineToks), ArgOf)
  /\ Spent(d) = Mapped(Among(s, OperandToks), Meaning)
LEMMA AccountsMore ==
  ASSUME NEW s \in Seq(Ids), NEW t \in Ids, NEW d, NEW e, Accounts(d, s), Advances(d, t, e)
  PROVE  Accounts(e, Append(s, t))
<1> DEFINE u == Append(s, t)
           a == Among(s, LineToks)
           b == Among(s, OperandToks)
<1>1. ArgOf \in [Ids -> Args] /\ Meaning \in [Ids -> Written]
  BY DEF ArgOf, Args, Meaning, Written
<1>2. a \in Seq(Ids) /\ Among(u, LineToks) = IF t \in LineToks THEN Append(a, t) ELSE a
  BY AmongAppend
<1>3. b \in Seq(Ids) /\ Among(u, OperandToks) = IF t \in OperandToks THEN Append(b, t) ELSE b
  BY AmongAppend
<1> HIDE DEF u, a, b
<1>4. Grown(a, ArgOf, t) /\ Grown(b, Meaning, t)
  BY <1>1, <1>2, <1>3, MappedAppend, Zenon
<1>5. Spelled(e) = Mapped(Among(u, LineToks), ArgOf)
  <2>1. Spelled(d) = Mapped(a, ArgOf)
    BY DEF Accounts, a
  <2>2. Spelled(e) = IF t \in LineToks THEN Append(Spelled(d), ArgOf[t]) ELSE Spelled(d)
    BY DEF Advances
  <2> QED BY <1>2, <1>4, <2>1, <2>2 DEF Grown
<1>6. Spent(e) = Mapped(Among(u, OperandToks), Meaning)
  <2>1. Spent(d) = Mapped(b, Meaning)
    BY DEF Accounts, b
  <2>2. Spent(e) = IF t \in OperandToks THEN Append(Spent(d), Meaning[t]) ELSE Spent(d)
    BY DEF Advances
  <2> QED BY <1>3, <1>4, <2>1, <2>2 DEF Grown
<1>7. e \in DState
  BY DEF Advances
<1> QED BY <1>5, <1>6, <1>7 DEF Accounts, u

(* Before the first token nothing is spelled and there are no operands.    *)
LEMMA AccountsNothing == Accounts(Empty, <<>>)
<1>1. <<>> \in Seq(OutLine) /\ <<>> \in Seq(Written) /\ <<>> \in Seq(Args)
  BY EmptySeq
<1>2. Empty.out = <<>> /\ Empty.op = <<>> /\ Empty.buf = <<>> /\ Empty \in DState
  BY <1>1 DEF Empty, DState, NoOp
<1>3. \A F : Mapped(<<>>, F) = <<>>
  BY DEF Mapped
<1>4. FlattenSeq(<<>>) = <<>>
  BY DEF FlattenSeq
<1>5. <<>> \o <<>> = <<>>
  OBVIOUS
<1> QED BY <1>2, <1>3, <1>4, <1>5, AmongEmpty DEF Accounts, Spelled, Spent

(* What is read of a sequence: all of it, or what comes before the first   *)
(* EOS.                                                                    *)
LEMMA UpToEosFacts ==
  ASSUME NEW s \in Seq(Ids)
  PROVE  UpToEos(s) \in Seq(Ids \ {EOS})
<1> DEFINE n == Len(s)
           ends == {i \in DOMAIN s : s[i] = EOS}
           m == Least(ends, n + 1)
<1>1. n \in Nat /\ DOMAIN s = 1..n /\ \A i \in 1..n : s[i] \in Ids
  BY LenProperties, ElementOfSeq
<1>2. ends \in SUBSET (1..n)
  BY <1>1
<1>3. m \in 1..n+1 /\ \A i \in 1..m-1 : i \in 1..n /\ i \notin ends
  <2> HIDE DEF n, ends
  <2> QED BY <1>1, <1>2, LeastFacts
<1>4. UpToEos(s) = SubSeq(s, 1, m - 1)
  BY DEF UpToEos
<1>5. \A i \in 1..m-1 : s[i] \in Ids \ {EOS}
  BY <1>1, <1>3
<1> HIDE DEF m
<1>6. m - 1 \in Nat /\ m - 1 <= n
  BY <1>1, <1>3
<1>7. SubSeq(s, 1, m - 1) = [i \in 1..m-1 |-> s[i]]
  BY <1>1, <1>6
<1>8. [i \in 1..m-1 |-> s[i]] \in [1..m-1 -> Ids \ {EOS}]
  BY <1>5
<1> QED BY <1>4, <1>6, <1>7, <1>8, FunctionIsSeq

(* The loop: what the state is after each token.                           *)
StateWith(read, i, V) == IF i = 0 THEN Empty ELSE Detok(V[i-1], read[i])
LEMMA AfterMeans ==
  ASSUME NEW read \in Seq(Ids \ {EOS})
  PROVE  \E V \in [0..Len(read) -> DState] :
           /\ V[0] = Empty /\ \A i \in 1..Len(read) : V[i] = Detok(V[i-1], read[i])
           /\ After(read) = V[Len(read)]
<1> DEFINE n == Len(read)
           D == 0..n
           F == [D -> DState]
           h == [i \in D |-> i]
           G == [p \in D \X F |-> StateWith(read, p[1], p[2])]
           IsTable(V) == V = [i \in D |-> StateWith(read, i, V)]
           after == CHOOSE V : IsTable(V)
<1>1. n \in Nat /\ \A i \in 1..n : read[i] \in Ids \ {EOS}
  BY LenProperties, ElementOfSeq
<1>2. Empty \in DState
  BY AccountsNothing DEF Accounts
<1>3. After(read) = after[n]
  BY DEF After, StateWith
<1>4. ASSUME NEW i \in D, NEW V, i # 0 => V[i-1] \in DState PROVE StateWith(read, i, V) \in DState
  <2>1. CASE i = 0
    BY <1>2, <2>1 DEF StateWith
  <2>2. CASE i # 0
    <3>1. read[i] \in Ids \ {EOS} /\ V[i-1] \in DState
      BY <1>1, <1>4, <2>2
    <3>2. Detok(V[i-1], read[i]) \in DState
      BY <3>1, DetokStep DEF Advances
    <3> QED BY <2>2, <3>2 DEF StateWith
  <2> QED BY <2>1, <2>2
<1>5. \A i \in D : i # 0 => i - 1 \in D /\ i - 1 < i
  BY <1>1
<1>6. G \in [D \X F -> DState]
  BY <1>4, <1>5
<1>7. \A i \in D : \A U, V \in F : (\A j \in D : h[j] < h[i] => U[j] = V[j]) => G[<<i, U>>] = G[<<i, V>>]
  BY <1>5 DEF StateWith
<1>8. \A i \in D : \A V \in F : G[<<i, V>>] = StateWith(read, i, V)
  OBVIOUS
<1>9. h \in [D -> Nat] /\ DState # {}
  BY <1>1, <1>2
<1> HIDE DEF G, h
<1>10. Descends(D, DState, h, G)
  BY <1>6, <1>7, <1>9 DEF Descends
<1>11. PICK V : Solves(V, D, DState, G)
  BY <1>10, Recursion
<1>12. IsTable(V)
  BY <1>8, <1>11 DEF Solves
<1>13. IsTable(after)
  BY <1>12
<1> HIDE DEF after
<1>14. after[0] = Empty /\ \A i \in 1..n : after[i] = Detok(after[i-1], read[i])
  BY <1>1, <1>13 DEF StateWith
<1>15. \A i \in D : after[i] \in DState
  <2> DEFINE Good == {i \in 1..n : after[i] \in DState}
  <2>1. ASSUME NEW i \in 1..n, i # 1 => i - 1 \in Good PROVE i \in Good
    <3>1. after[i-1] \in DState
      BY <1>2, <1>14, <2>1
    <3> QED BY <1>1, <1>14, <3>1, DetokStep DEF Advances
  <2> HIDE DEF Good
  <2>2. 1..n \subseteq Good
    BY <1>1, <2>1, OneByOne
  <2> QED BY <1>1, <1>2, <1>14, <2>2 DEF Good
<1>16. after \in [D -> DState]
  BY <1>13, <1>15
<1> QED BY <1>3, <1>14, <1>16

(* The state after a list, and after one token more.                       *)
LEMMA AfterAppend ==
  ASSUME NEW read \in Seq(Ids \ {EOS}), NEW t \in Ids \ {EOS}
  PROVE  After(read) \in DState /\ After(Append(read, t)) = Detok(After(read), t)
<1> DEFINE n == Len(read)
           u == Append(read, t)
<1>1. /\ n \in Nat /\ u \in Seq(Ids \ {EOS}) /\ Len(u) = n + 1 /\ u[n+1] = t
      /\ \A i \in 1..n : u[i] = read[i]
  BY LenProperties, AppendProperties
<1>2. PICK V \in [0..n -> DState] :
        /\ V[0] = Empty /\ \A i \in 1..n : V[i] = Detok(V[i-1], read[i])
        /\ After(read) = V[n]
  BY AfterMeans
<1> HIDE DEF u
<1>3. PICK U \in [0..n+1 -> DState] :
        /\ U[0] = Empty /\ \A i \in 1..n+1 : U[i] = Detok(U[i-1], u[i])
        /\ After(u) = U[n+1]
  <2>1. \E U \in [0..Len(u) -> DState] :
        /\ U[0] = Empty /\ \A i \in 1..Len(u) : U[i] = Detok(U[i-1], u[i])
        /\ After(u) = U[Len(u)]
    BY <1>1, AfterMeans
  <2> QED BY <1>1, <2>1
<1>4. \A i \in 1..n : U[i] = V[i]
  <2> DEFINE Good == {i \in 1..n : U[i] = V[i]}
  <2>1. ASSUME NEW i \in 1..n, i # 1 => i - 1 \in Good PROVE i \in Good
    <3>1. U[i-1] = V[i-1]
      BY <1>2, <1>3, <2>1
    <3>2. i \in 1..n+1
      BY <1>1
    <3> QED BY <1>1, <1>2, <1>3, <3>1, <3>2
  <2> HIDE DEF Good
  <2>2. 1..n \subseteq Good
    BY <1>1, <2>1, OneByOne
  <2> QED BY <2>2 DEF Good
<1>5. U[n] = V[n]
  BY <1>1, <1>2, <1>3, <1>4
<1>6. n + 1 \in 1..n+1 /\ (n + 1) - 1 = n /\ n \in 0..n
  BY <1>1
<1>7. After(u) = Detok(After(read), t)
  BY <1>1, <1>2, <1>3, <1>5, <1>6
<1>8. After(read) \in DState
  BY <1>2, <1>6
<1> QED BY <1>7, <1>8 DEF u

(* Before any token.                                                       *)
LEMMA AfterNothing == After(<<>>) = Empty
<1>1. <<>> \in Seq(Ids \ {EOS}) /\ Len(<<>>) = 0
  BY EmptySeq
<1>2. \E V \in [0..Len(<<>>) -> DState] : V[0] = Empty /\ After(<<>>) = V[Len(<<>>)]
  BY <1>1, AfterMeans
<1> QED BY <1>1, <1>2

(* The loop accounts for all it has read, and the last flush keeps that.   *)
LEMMA DetokenizedAccounts ==
  ASSUME NEW tokens, UpToEos(tokens) \in Seq(Ids \ {EOS})
  PROVE  Accounts(Detokenized(tokens), UpToEos(tokens)) /\ Detokenized(tokens).op = NoOp
<1> DEFINE T == Ids \ {EOS}
           Good == {s \in Seq(T) : Accounts(After(s), s)}
<1>1. <<>> \in Good
  BY AfterNothing, AccountsNothing, EmptySeq
<1>2. ASSUME NEW s \in Seq(T), NEW t \in T, s \in Good PROVE Append(s, t) \in Good
  <2>1. After(s) \in DState /\ After(Append(s, t)) = Detok(After(s), t)
    BY AfterAppend
  <2>2. Advances(After(s), t, After(Append(s, t)))
    BY <2>1, DetokStep
  <2>3. s \in Seq(Ids) /\ Accounts(After(s), s)
    BY <1>2
  <2>4. Accounts(After(Append(s, t)), Append(s, t))
    BY <2>2, <2>3, AccountsMore
  <2> QED BY <2>4, AppendProperties
<1> HIDE DEF Good
<1>3. Seq(T) \subseteq Good
  BY <1>1, <1>2, ListInduction
<1>4. Accounts(After(UpToEos(tokens)), UpToEos(tokens))
  BY <1>3 DEF Good
<1>5. Detokenized(tokens) = Flush(After(UpToEos(tokens)))
  BY DEF Detokenized
<1> QED BY <1>4, <1>5, FlushFacts DEF Accounts

(* The invariant: what has been generated are tokens.                      *)
SeqInv == seq \in Seq(Ids)
LEMMA SeqInvariance == VocabulariesSpec => []SeqInv
<1>1. VocabulariesInit => SeqInv
  <2>1. BOS \in Ids
    BY DEF Ids, AsmVocab
  <2>2. <<BOS>> \in Seq(Ids)
    BY <2>1
  <2> QED BY <2>2 DEF VocabulariesInit, SeqInv
<1>2. SeqInv /\ [VocabulariesNext]_vvars => SeqInv'
  <2> SUFFICES ASSUME SeqInv, [VocabulariesNext]_vvars PROVE SeqInv'
    OBVIOUS
  <2>1. CASE AddToken
    <3>1. PICK t \in Tokens : seq' = Append(seq, t)
      BY <2>1 DEF AddToken, Generated
    <3>2. t \in Ids
      BY VocabulariesAssumption DEF Ids
    <3> QED BY <3>1, <3>2, AppendProperties DEF SeqInv
  <2>2. CASE UNCHANGED seq
    BY <2>2 DEF SeqInv
  <2> QED BY <2>1, <2>2 DEF VocabulariesNext, NextConst, AddLine, vvars
<1> QED BY <1>1, <1>2, PTL DEF VocabulariesSpec

(* Whatever the decoder generates, the detokenizer keeps the labels and    *)
(* opcodes in order, and the operands on their lines or still to come.     *)
THEOREM OperandsKeepTheirOrder == VocabulariesSpec => []OperandsInOrder
<1>1. SeqInv => OperandsInOrder
  <2> DEFINE d == Detokenized(seq)
             read == UpToEos(seq)
             lines    == Among(read, {t \in Range(read) : t[1] \in {"op", "def"}})
             operands == Among(read, {t \in Range(read) : IsOperand(t)})
             outNames == Mapped(d.out, NameOn)
             flat     == FlattenSeq([i \in DOMAIN d.out |-> IF d.out[i].k = "label" THEN <<>> ELSE d.out[i].buf])
  <2> SUFFICES ASSUME SeqInv
               PROVE  /\ Len(d.out) = Len(lines)
                      /\ \A i \in DOMAIN lines :
                           lines[i][2] = IF d.out[i].k = "label" THEN d.out[i].name ELSE d.out[i].op
                      /\ flat \o d.buf = [i \in DOMAIN operands |-> IF operands[i] = OOV THEN imm(0) ELSE operands[i]]
    BY DEF OperandsInOrder
  <2>1. read \in Seq(Ids \ {EOS})
    BY UpToEosFacts DEF SeqInv
  <2>2. Accounts(d, read) /\ d.op = NoOp
    BY <2>1, DetokenizedAccounts
  <2>3. d \in DState /\ d.out \in Seq(OutLine) /\ d.buf \in Seq(Written)
    BY <2>2 DEF Accounts, DState
  <2> HIDE DEF d, read
  <2>4. Len(read) \in Nat /\ \A i \in 1..Len(read) : read[i] \in Ids /\ read[i] \in Range(read)
    <3>1. Len(read) \in Nat /\ DOMAIN read = 1..Len(read) /\ \A i \in 1..Len(read) : read[i] \in Ids
      BY <2>1, LenProperties, ElementOfSeq
    <3> QED BY <3>1 DEF Range
  <2>5. lines = Among(read, LineToks) /\ operands = Among(read, OperandToks)
    <3>1. {i \in 1..Len(read) : read[i] \in {t \in Range(read) : t[1] \in {"op", "def"}}}
            = {i \in 1..Len(read) : read[i] \in LineToks}
      BY <2>4 DEF LineToks
    <3>2. {i \in 1..Len(read) : read[i] \in {t \in Range(read) : IsOperand(t)}}
            = {i \in 1..Len(read) : read[i] \in OperandToks}
      BY <2>4 DEF OperandToks
    <3> QED BY <3>1, <3>2 DEF Among
  <2>6. outNames = Mapped(lines, ArgOf)
    <3>1. outNames \o <<>> = Mapped(lines, ArgOf)
      BY <2>2, <2>5 DEF Accounts, Spelled, NoOp
    <3>2. outNames \in Seq(Args)
      <4>1. NameOn \in [OutLine -> Args]
        BY DEF NameOn, OutLine
      <4> QED BY <2>3, <4>1, MappedTypes, Zenon
    <3> QED BY <3>1, <3>2, ConcatEmptySeq
  <2>7. lines \in Seq(Ids)
    BY <2>1, <2>5, AmongTypes, Zenon
  <2>8. operands \in Seq(Ids)
    BY <2>1, <2>5, AmongTypes, Zenon
  <2> HIDE DEF lines, operands
  <2>9. DOMAIN d.out = DOMAIN lines /\ Len(d.out) = Len(lines)
    <3>1. DOMAIN outNames = DOMAIN d.out /\ DOMAIN Mapped(lines, ArgOf) = DOMAIN lines
      BY DEF Mapped
    <3> HIDE DEF outNames
    <3>2. DOMAIN d.out = DOMAIN lines
      BY <2>6, <3>1
    <3>3. Len(d.out) \in Nat /\ Len(lines) \in Nat /\ DOMAIN d.out = 1..Len(d.out) /\ DOMAIN lines = 1..Len(lines)
      BY <2>3, <2>7, LenProperties
    <3>4. \A a, b \in Nat : 1..a = 1..b => a = b
      <4> SUFFICES ASSUME NEW a \in Nat, NEW b \in Nat, 1..a = 1..b PROVE a = b
        OBVIOUS
      <4>1. \A j \in Nat : 1 <= j /\ j <= a <=> 1 <= j /\ j <= b
        <5>1. \A j \in Nat : j \in 1..a <=> j \in 1..b
          OBVIOUS
        <5> QED BY <5>1
      <4> QED BY <4>1
    <3> QED BY <3>2, <3>3, <3>4
  <2>10. ASSUME NEW i \in DOMAIN lines
         PROVE  lines[i][2] = IF d.out[i].k = "label" THEN d.out[i].name ELSE d.out[i].op
    <3>1. lines[i] \in Ids /\ d.out[i] \in OutLine
      BY <2>3, <2>7, <2>9, LenProperties, ElementOfSeq
    <3>2. outNames[i] = NameOn[d.out[i]] /\ Mapped(lines, ArgOf)[i] = ArgOf[lines[i]]
      BY <2>9 DEF Mapped
    <3> HIDE DEF outNames
    <3>3. NameOn[d.out[i]] = ArgOf[lines[i]]
      BY <2>6, <3>2
    <3> QED BY <3>1, <3>3 DEF NameOn, ArgOf
  <2>11. flat = FlattenSeq(Mapped(d.out, OperandsOn))
    <3>1. \A i \in DOMAIN d.out : d.out[i] \in OutLine
      BY <2>3, LenProperties, ElementOfSeq
    <3>2. \A i \in DOMAIN d.out : OperandsOn[d.out[i]] = IF d.out[i].k = "label" THEN <<>> ELSE d.out[i].buf
      BY <3>1 DEF OperandsOn
    <3>3. Mapped(d.out, OperandsOn) = [i \in DOMAIN d.out |-> IF d.out[i].k = "label" THEN <<>> ELSE d.out[i].buf]
      BY <3>2 DEF Mapped
    <3> QED BY <3>3
  <2>12. flat \o d.buf = Mapped(operands, Meaning)
    <3> HIDE DEF flat
    <3> QED BY <2>2, <2>5, <2>11 DEF Accounts, Spent
  <2>13. Mapped(operands, Meaning) = [i \in DOMAIN operands |-> IF operands[i] = OOV THEN imm(0) ELSE operands[i]]
    <3>1. \A i \in DOMAIN operands : operands[i] \in Ids
      BY <2>8, LenProperties, ElementOfSeq
    <3> QED BY <3>1 DEF Mapped, Meaning
  <2> HIDE DEF flat
  <2> QED BY <2>9, <2>10, <2>12, <2>13
<1> QED BY <1>1, SeqInvariance, PTL

-----------------------------------------------------------------------------
(* What tokenize_asm makes of the operands on a line: one piece between    *)
(* commas.                                                                 *)
Commas(buf) == {i \in DOMAIN buf : buf[i] = COMMA}
Ends(buf)   == Ascending(Commas(buf) \cup {Len(buf) + 1})
Piece(buf, k) == LET from == IF k = 1 THEN 1 ELSE Ends(buf)[k-1] + 1 IN Reread(SubSeq(buf, from, Ends(buf)[k] - 1))
PiecesOf(buf) == [k \in 1..Cardinality(Commas(buf)) + 1 |-> Piece(buf, k)]

LEMMA EndsFacts ==
  ASSUME NEW T, NEW buf \in Seq(T)
  PROVE  /\ Commas(buf) \in SUBSET (1..Len(buf)) /\ IsFiniteSet(Commas(buf)) /\ Cardinality(Commas(buf)) \in Nat
         /\ DOMAIN Ends(buf) = 1..Cardinality(Commas(buf)) + 1
         /\ Ends(buf)[Cardinality(Commas(buf)) + 1] = Len(buf) + 1
         /\ \A k \in 1..Cardinality(Commas(buf)) + 1 : Ends(buf)[k] \in 1..Len(buf) + 1
         /\ buf # <<>> => Pieces(buf) = PiecesOf(buf)
<1> DEFINE n == Len(buf)
           C == Commas(buf)
           c == Cardinality(C)
<1>1. n \in Nat /\ DOMAIN buf = 1..n
  BY LenProperties
<1>2. C \in SUBSET (1..n)
  BY <1>1 DEF Commas
<1>3. IsFiniteSet(C)
  <2>1. IsFiniteSet(1..n)
    BY <1>1, FS_Interval
  <2> HIDE DEF C, n
  <2> QED BY <1>2, <2>1, FS_Subset
<1> HIDE DEF C
<1>4. c \in Nat /\ C \subseteq Nat /\ \A r \in C : r < n + 1
  BY <1>1, <1>2, <1>3, FS_CardinalityType
<1>5. /\ Cardinality(C \cup {n+1}) = c + 1
      /\ \A i \in 1..c : Ascending(C \cup {n+1})[i] = Ascending(C)[i]
      /\ Ascending(C \cup {n+1})[c+1] = n + 1
  <2>1. n + 1 \in Nat
    BY <1>1
  <2> HIDE DEF n
  <2> QED BY <1>3, <1>4, <2>1, AscendingLast
<1>6. Ends(buf) = Ascending(C \cup {n+1})
  BY DEF Ends, C
<1>7. DOMAIN Ends(buf) = 1..c+1
  BY <1>5, <1>6 DEF Ascending
<1>8. Ascending(C) \in [1..c -> C]
  BY <1>3, <1>4, AscendingEnumerates
<1>9. \A k \in 1..c+1 : Ends(buf)[k] \in 1..n+1
  <2> TAKE k \in 1..c+1
  <2>1. CASE k = c + 1
    BY <1>1, <1>5, <1>6, <2>1
  <2>2. CASE k # c + 1
    <3>1. k \in 1..c
      BY <1>4, <2>2
    <3>2. Ascending(C)[k] \in C
      BY <1>8, <3>1
    <3>3. Ascending(C)[k] \in 1..n+1
      <4>1. \A r \in 1..n : r \in 1..n+1
        BY <1>1
      <4> HIDE DEF n
      <4> QED BY <1>2, <3>2, <4>1
    <3>4. Ends(buf)[k] = Ascending(C)[k]
      BY <1>5, <1>6, <3>1
    <3> QED BY <3>3, <3>4
  <2> QED BY <2>1, <2>2
<1>10. ASSUME buf # <<>> PROVE Pieces(buf) = PiecesOf(buf)
  <2>1. Pieces(buf) = [k \in DOMAIN Ends(buf) |-> Piece(buf, k)]
    BY <1>10 DEF Pieces, Ends, Commas, Piece
  <2> QED BY <1>7, <2>1 DEF PiecesOf, C
<1> QED BY <1>2, <1>3, <1>4, <1>5, <1>6, <1>7, <1>9, <1>10 DEF C

(* Operands without a comma are one piece.                                 *)
LEMMA OnePiece ==
  ASSUME NEW T, NEW g \in Seq(T \ {COMMA}), g # <<>>
  PROVE  Pieces(g) = <<Reread(g)>>
<1>1. Len(g) \in Nat /\ DOMAIN g = 1..Len(g) /\ \A i \in 1..Len(g) : g[i] # COMMA
  BY LenProperties, ElementOfSeq
<1>2. Commas(g) = {}
  BY <1>1 DEF Commas
<1>3. Cardinality(Commas(g)) = 0
  BY <1>2, FS_EmptySet
<1>4. Pieces(g) = PiecesOf(g) /\ Ends(g)[1] = Len(g) + 1
  BY <1>3, EndsFacts
<1>5. Piece(g, 1) = Reread(SubSeq(g, 1, Len(g)))
  <2>1. (Len(g) + 1) - 1 = Len(g)
    BY <1>1
  <2> QED BY <1>4, <2>1 DEF Piece
<1>6. SubSeq(g, 1, Len(g)) = g
  OBVIOUS
<1>7. PiecesOf(g) = <<Piece(g, 1)>>
  BY <1>3 DEF PiecesOf
<1> QED BY <1>4, <1>5, <1>6, <1>7

(* Operands without a comma after one are one piece more.                  *)
LEMMA PieceMore ==
  ASSUME NEW T, COMMA \in T, NEW b \in Seq(T), b # <<>>, NEW g \in Seq(T \ {COMMA})
  PROVE  Pieces((b \o <<COMMA>>) \o g) = Append(Pieces(b), Reread(g))
<1> DEFINE n == Len(b)
           l == Len(g)
           u == (b \o <<COMMA>>) \o g
           m == n + 1 + l
           C == Commas(b)
           c == Cardinality(C)
<1>1. /\ n \in Nat /\ l \in Nat /\ DOMAIN b = 1..n /\ DOMAIN g = 1..l
      /\ \A i \in 1..l : g[i] \in T /\ g[i] # COMMA
  BY LenProperties, ElementOfSeq
<1>2. /\ u \in Seq(T) /\ Len(u) = m /\ DOMAIN u = 1..m
      /\ \A i \in 1..n : u[i] = b[i]
      /\ u[n+1] = COMMA
      /\ \A i \in 1..l : u[n+1+i] = g[i]
  <2> DEFINE v == b \o <<COMMA>>
  <2>1. v = Append(b, COMMA)
    OBVIOUS
  <2>2. v \in Seq(T) /\ Len(v) = n + 1 /\ v[n+1] = COMMA /\ \A i \in 1..n : v[i] = b[i]
    <3> HIDE DEF v
    <3> QED BY <1>1, <2>1, AppendProperties
  <2> HIDE DEF v
  <2>3. g \in Seq(T)
    OBVIOUS
  <2>4. v \o g \in Seq(T) /\ Len(v \o g) = (n + 1) + l
        /\ \A i \in 1..(n+1)+l : (v \o g)[i] = IF i <= n + 1 THEN v[i] ELSE g[i - (n + 1)]
    <3>1. v \o g \in Seq(T) /\ Len(v \o g) = Len(v) + Len(g)
          /\ \A i \in 1..Len(v) + Len(g) : (v \o g)[i] = IF i <= Len(v) THEN v[i] ELSE g[i - Len(v)]
      BY <2>2, <2>3, ConcatProperties, Zenon
    <3> QED BY <2>2, <3>1
  <2>5. u = v \o g
    BY DEF v
  <2> HIDE DEF u
  <2>6. (n + 1) + l = m
    BY <1>1
  <2>7. \A i \in 1..n+1 : i \in 1..(n+1)+l /\ i <= n + 1
    BY <1>1
  <2>8. \A i \in 1..l : n+1+i \in 1..(n+1)+l /\ ~(n+1+i <= n + 1) /\ (n+1+i) - (n+1) = i
    BY <1>1
  <2>9. n + 1 \in 1..n+1 /\ \A i \in 1..n : i \in 1..n+1
    BY <1>1
  <2>10. DOMAIN u = 1..m
    BY <2>4, <2>5, <2>6, LenProperties
  <2> QED BY <2>2, <2>4, <2>5, <2>6, <2>7, <2>8, <2>9, <2>10
<1> HIDE DEF u
<1>3. /\ C \in SUBSET (1..n) /\ IsFiniteSet(C) /\ c \in Nat
      /\ Ends(b)[c+1] = n + 1 /\ \A k \in 1..c+1 : Ends(b)[k] \in 1..n+1
      /\ Pieces(b) = PiecesOf(b)
  BY EndsFacts
<1>4. Commas(u) = C \cup {n+1}
  <2>1. \A i \in 1..m : i \in 1..n \/ i = n + 1 \/ (i - (n+1) \in 1..l /\ n+1+(i-(n+1)) = i)
    BY <1>1
  <2>2. ASSUME NEW i \in 1..m, u[i] = COMMA PROVE i \in C \cup {n+1}
    <3>1. CASE i \in 1..n
      BY <1>1, <1>2, <2>2, <3>1 DEF Commas
    <3>2. CASE i = n + 1
      BY <3>2
    <3>3. CASE i - (n+1) \in 1..l /\ n+1+(i-(n+1)) = i
      <4>1. u[i] = g[i-(n+1)]
        BY <1>2, <3>3
      <4> QED BY <1>1, <2>2, <3>3, <4>1
    <3> QED BY <2>1, <3>1, <3>2, <3>3
  <2>3. ASSUME NEW i \in C \cup {n+1} PROVE i \in 1..m /\ u[i] = COMMA
    <3>1. CASE i \in C
      <4>1. i \in 1..n /\ b[i] = COMMA
        BY <1>1, <3>1 DEF Commas
      <4> QED BY <1>1, <1>2, <4>1
    <3>2. CASE i = n + 1
      BY <1>1, <1>2, <3>2
    <3> QED BY <3>1, <3>2
  <2> QED BY <1>2, <2>2, <2>3 DEF Commas
<1> HIDE DEF C
<1>5. Cardinality(Commas(u)) = c + 1
  <2>1. n + 1 \notin C
    BY <1>1, <1>3
  <2> QED BY <1>3, <1>4, <2>1, FS_AddElement
<1> DEFINE S == C \cup {n+1}
<1>6. /\ Ends(u)[c+2] = m + 1
      /\ \A k \in 1..c+1 : Ends(u)[k] = Ends(b)[k]
  <2>1. IsFiniteSet(S) /\ S \subseteq Nat /\ \A r \in S : r < m + 1
    <3>1. IsFiniteSet(S)
      BY <1>3, FS_AddElement
    <3>2. \A r \in S : r \in Nat /\ r < m + 1
      BY <1>1, <1>3
    <3> QED BY <3>1, <3>2
  <2>2. m + 1 \in Nat
    BY <1>1
  <2>3. Ends(u) = Ascending(S \cup {m+1}) /\ Ends(b) = Ascending(S)
    BY <1>2, <1>4 DEF Ends, C
  <2>4. Cardinality(S) = c + 1
    BY <1>4, <1>5
  <2> HIDE DEF S, m
  <2>5. /\ \A i \in 1..Cardinality(S) : Ascending(S \cup {m+1})[i] = Ascending(S)[i]
        /\ Ascending(S \cup {m+1})[Cardinality(S) + 1] = m + 1
    BY <2>1, <2>2, AscendingLast
  <2>6. (c + 1) + 1 = c + 2
    BY <1>3
  <2> QED BY <2>3, <2>4, <2>5, <2>6
<1>7. ASSUME NEW k \in 1..c+1 PROVE Piece(u, k) = Piece(b, k)
  <2> DEFINE from == IF k = 1 THEN 1 ELSE Ends(b)[k-1] + 1
             to == Ends(b)[k] - 1
  <2>1. k = 1 \/ k - 1 \in 1..c+1
    BY <1>3
  <2>2. from \in Nat \ {0} /\ to \in Nat /\ to <= n
    <3>1. Ends(b)[k] \in 1..n+1 /\ (k # 1 => Ends(b)[k-1] \in 1..n+1)
      BY <1>3, <2>1
    <3> QED BY <1>1, <3>1
  <2>3. Piece(b, k) = Reread(SubSeq(b, from, to))
    BY DEF Piece
  <2>4. Piece(u, k) = Reread(SubSeq(u, from, to))
    <3>1. Ends(u)[k] = Ends(b)[k] /\ (k # 1 => Ends(u)[k-1] = Ends(b)[k-1])
      BY <1>6, <2>1
    <3> QED BY <3>1 DEF Piece
  <2> HIDE DEF from, to
  <2>5. SubSeq(u, from, to) = SubSeq(b, from, to)
    <3> DEFINE d == to - from + 1
    <3>1. /\ SubSeq(b, from, to) = [j \in 1..d |-> b[from + j - 1]]
          /\ SubSeq(u, from, to) = [j \in 1..d |-> u[from + j - 1]]
      BY <2>2
    <3>2. \A j \in 1..d : from + j - 1 \in 1..n
      BY <1>1, <2>2
    <3>3. \A j \in 1..d : u[from + j - 1] = b[from + j - 1]
      BY <1>2, <3>2
    <3> QED BY <3>1, <3>3
  <2> QED BY <2>3, <2>4, <2>5
<1>8. Piece(u, c+2) = Reread(g)
  <2>1. c + 2 # 1 /\ (c + 2) - 1 = c + 1 /\ c + 1 \in 1..c+1 /\ (m + 1) - 1 = m
    BY <1>1, <1>3
  <2>2. Ends(u)[c+1] + 1 = n + 2
    <3>1. Ends(u)[c+1] = n + 1
      BY <1>3, <1>6, <2>1
    <3> QED BY <1>1, <3>1
  <2>3. Piece(u, c+2) = Reread(SubSeq(u, n+2, m))
    BY <1>6, <2>1, <2>2 DEF Piece
  <2>4. SubSeq(u, n+2, m) = [j \in 1..l |-> u[n+1+j]]
    <3>1. SubSeq(u, n+2, m) = [j \in 1..(m - (n+2) + 1) |-> u[(n+2) + j - 1]]
      BY <1>1
    <3>2. m - (n+2) + 1 = l
      BY <1>1
    <3>3. \A j \in 1..l : (n+2) + j - 1 = n+1+j
      BY <1>1
    <3> HIDE DEF m
    <3> QED BY <3>1, <3>2, <3>3
  <2>5. g = [j \in 1..l |-> g[j]]
    BY <1>1
  <2>6. SubSeq(u, n+2, m) = g
    BY <1>2, <2>4, <2>5
  <2> QED BY <2>3, <2>6
<1>9. Pieces(u) = [k \in 1..c+2 |-> Piece(u, k)]
  <2>1. u # <<>>
    <3>1. m # 0
      BY <1>1
    <3> QED BY <1>2, <3>1, EmptySeq
  <2>2. Pieces(u) = PiecesOf(u)
    BY <1>2, <2>1, EndsFacts
  <2>3. (c + 1) + 1 = c + 2
    BY <1>3
  <2> QED BY <1>5, <2>2, <2>3 DEF PiecesOf
<1>10. Pieces(b) = [k \in 1..c+1 |-> Piece(b, k)]
  BY <1>3 DEF PiecesOf, C
<1> DEFINE p == Pieces(b)
           q == Append(p, Reread(g))
           U == Range(p) \cup {Reread(g)}
<1>11. p \in Seq(U) /\ Len(p) = c + 1
  <2>1. c + 1 \in Nat /\ p \in [1..c+1 -> U]
    BY <1>3, <1>10 DEF Range
  <2> HIDE DEF p, U
  <2> QED BY <2>1, FunctionIsSeq
<1>12. q \in Seq(U) /\ Len(q) = (c + 1) + 1 /\ q[(c+1)+1] = Reread(g) /\ \A k \in 1..c+1 : q[k] = p[k]
  <2>1. Reread(g) \in U
    OBVIOUS
  <2> HIDE DEF p, U
  <2> QED BY <1>11, <2>1, AppendProperties
<1> HIDE DEF q
<1>13. q = [k \in 1..c+2 |-> q[k]]
  <2>1. DOMAIN q = 1..c+2
    BY <1>3, <1>12, LenProperties
  <2> HIDE DEF U
  <2>2. q \in [1..Len(q) -> U]
    BY <1>12, LenProperties
  <2> QED BY <2>1, <2>2
<1>14. \A k \in 1..c+2 : q[k] = Piece(u, k)
  <2> TAKE k \in 1..c+2
  <2>1. CASE k = c + 2
    <3>1. (c + 1) + 1 = c + 2
      BY <1>3
    <3> QED BY <1>8, <1>12, <2>1, <3>1
  <2>2. CASE k # c + 2
    <3>1. k \in 1..c+1
      BY <1>3, <2>2
    <3> QED BY <1>7, <1>10, <1>12, <3>1
  <2> QED BY <2>1, <2>2
<1>15. q = Pieces(u)
  BY <1>9, <1>13, <1>14
<1> QED BY <1>15 DEF q, u

-----------------------------------------------------------------------------
(* The operands of the function's instructions, and its labels.            *)
PieceSet  == UNION {Range(l.args) : l \in {h \in Lines : h.k = "insn"}}
BodyLines == {l \in Lines : l.k \in {"label", "insn"}}
LabelSet  == {l.name : l \in {h \in Lines : h.k = "label"}} \cup {p[2] : p \in PieceSet}
Raw       == Ids \cup {Failed}

(* What the ids are.                                                       *)
LEMMA IdKinds ==
  /\ \A v : imm(v) \in OperandToks \ {COMMA} /\ Meaning[imm(v)] = <<"imm", IF v \in Buckets THEN v ELSE 0>>
  /\ \A n : IsReg(n) => reg(n) \in OperandToks \ {COMMA} /\ Meaning[reg(n)] = <<"reg", Alias(n)>>
  /\ \A slot \in Nat : slot < LabelMax => /\ lbl_ref(slot) = <<"ref", slot>> /\ lbl_def(slot) = <<"def", slot>>
                                          /\ lbl_ref(slot) \in OperandToks \ {COMMA} /\ lbl_def(slot) \in LineToks
                                          /\ Meaning[lbl_ref(slot)] = <<"ref", slot>>
                                          /\ Meaning[lbl_def(slot)] = <<"def", slot>>
  /\ \A slot \in Nat : lbl_ref(slot) \in Ids /\ lbl_def(slot) \in Ids
  /\ \A o \in Opcodes : <<"op", o>> \in LineToks /\ Meaning[<<"op", o>>] = <<"op", o>>
  /\ \A t \in {LPAREN, RPAREN, COMMA} : t \in OperandToks /\ Meaning[t] = t
  /\ \A t \in {BOS, EOS, EOL} : t \in Ids /\ Meaning[t] = t
  /\ LPAREN # COMMA /\ RPAREN # COMMA /\ EOS \notin OperandToks \cup LineToks
  /\ EOS # BOS /\ EOS # EOL /\ Failed \notin Ids
<1>1. \A t \in Ids : Meaning[t] = IF t = OOV THEN imm(0) ELSE t
  BY DEF Meaning
<1>2. imm(0) = <<"imm", 0>>
  BY AsmVocabAssumption DEF imm
<1>3. EOS[1] = "eos" /\ Failed[1] = "fail"
  BY DEF EOS, Failed
<1>4. ASSUME NEW v
      PROVE  imm(v) \in OperandToks \ {COMMA} /\ Meaning[imm(v)] = <<"imm", IF v \in Buckets THEN v ELSE 0>>
  <2>1. CASE v \in Buckets
    <3>1. imm(v) = <<"imm", v>> /\ imm(v)[1] = "imm"
      BY <2>1 DEF imm
    <3>2. imm(v) \in Ids
      BY <2>1, <3>1 DEF Ids, AsmVocab
    <3>3. imm(v) # COMMA /\ imm(v) # OOV
      BY <3>1, Firsts
    <3>4. IsOperand(imm(v))
      BY <3>1 DEF IsOperand, Operands
    <3> QED BY <1>1, <2>1, <3>1, <3>2, <3>3, <3>4 DEF OperandToks
  <2>2. CASE v \notin Buckets
    <3>1. imm(v) = OOV /\ OOV # COMMA
      BY <2>2, Firsts DEF imm
    <3>2. OOV \in OperandToks
      BY DEF OperandToks, IsOperand, Ids, AsmVocab
    <3> QED BY <1>1, <1>2, <2>2, <3>1, <3>2 DEF OperandToks
  <2> QED BY <2>1, <2>2
<1>5. ASSUME NEW n, IsReg(n) PROVE reg(n) \in OperandToks \ {COMMA} /\ Meaning[reg(n)] = <<"reg", Alias(n)>>
  <2>1. reg(n) = <<"reg", Alias(n)>> /\ reg(n)[1] = "reg"
    BY DEF reg
  <2>2. reg(n) \in Ids
    BY <1>5, <2>1 DEF Ids, AsmVocab, IsReg
  <2>3. reg(n) # COMMA /\ reg(n) # OOV
    BY <2>1, Firsts
  <2>4. IsOperand(reg(n))
    BY <2>1 DEF IsOperand, Operands
  <2> QED BY <1>1, <2>1, <2>2, <2>3, <2>4 DEF OperandToks
<1>6. ASSUME NEW slot \in Nat, slot < LabelMax
      PROVE  /\ lbl_ref(slot) = <<"ref", slot>> /\ lbl_def(slot) = <<"def", slot>>
             /\ lbl_ref(slot) \in OperandToks \ {COMMA} /\ lbl_def(slot) \in LineToks
             /\ Meaning[lbl_ref(slot)] = <<"ref", slot>> /\ Meaning[lbl_def(slot)] = <<"def", slot>>
             /\ lbl_ref(slot) \in Ids /\ lbl_def(slot) \in Ids
  <2>1. slot \in 0..LabelMax-1
    BY <1>6, AsmVocabAssumption
  <2>2. <<"ref", slot>> \in Ids /\ <<"def", slot>> \in Ids
    BY <2>1 DEF Ids, AsmVocab
  <2>3. lbl_ref(slot) = <<"ref", slot>> /\ lbl_def(slot) = <<"def", slot>>
    BY <1>6 DEF lbl_ref, lbl_def
  <2>4. <<"ref", slot>>[1] = "ref" /\ <<"def", slot>>[1] = "def"
    OBVIOUS
  <2>5. <<"ref", slot>> # COMMA /\ <<"ref", slot>> # OOV /\ <<"def", slot>> # OOV
    BY <2>4, Firsts
  <2>6. <<"ref", slot>> \in OperandToks /\ <<"def", slot>> \in LineToks
    BY <2>2, <2>4 DEF OperandToks, LineToks, IsOperand, Operands
  <2> QED BY <1>1, <2>2, <2>3, <2>5, <2>6
<1>7. \A slot \in Nat : lbl_ref(slot) \in Ids /\ lbl_def(slot) \in Ids
  <2> TAKE slot \in Nat
  <2>1. CASE slot < LabelMax
    BY <1>6, <2>1
  <2>2. CASE ~(slot < LabelMax)
    <3>1. lbl_ref(slot) = OOV /\ lbl_def(slot) = OOV
      BY <2>2 DEF lbl_ref, lbl_def
    <3> QED BY <3>1 DEF Ids, AsmVocab
  <2> QED BY <2>1, <2>2
<1>8. ASSUME NEW o \in Opcodes PROVE <<"op", o>> \in LineToks /\ Meaning[<<"op", o>>] = <<"op", o>>
  <2>1. <<"op", o>> \in Ids /\ <<"op", o>>[1] = "op"
    BY DEF Ids, AsmVocab
  <2>2. <<"op", o>> # OOV
    BY <2>1, Firsts
  <2> QED BY <1>1, <2>1, <2>2 DEF LineToks
<1>9. ASSUME NEW t \in {LPAREN, RPAREN, COMMA} PROVE t \in OperandToks /\ Meaning[t] = t
  <2>1. t # OOV
    BY Firsts
  <2>2. t \in Ids /\ IsOperand(t)
    BY DEF Ids, AsmVocab, IsOperand, Punctuation
  <2> QED BY <1>1, <2>1, <2>2 DEF OperandToks
<1>10. ASSUME NEW t \in {BOS, EOS, EOL} PROVE t \in Ids /\ Meaning[t] = t
  <2>1. t # OOV
    BY <1>3, Firsts
  <2>2. t \in Ids
    BY DEF Ids, AsmVocab
  <2> QED BY <1>1, <2>1, <2>2
<1>11. LPAREN # COMMA /\ RPAREN # COMMA /\ EOS # BOS /\ EOS # EOL
  BY <1>3, Firsts
<1>12. EOS \notin OperandToks \cup LineToks
  <2>1. EOS \notin {OOV} \cup Punctuation
    BY <1>3, Firsts DEF Punctuation
  <2> QED BY <1>3, <2>1 DEF OperandToks, LineToks, IsOperand, Operands
<1>13. Failed \notin Ids
  <2>1. \A t \in Ids : t \in {BOS, EOS, EOL, Pad, OOV} \cup Punctuation \/ t[1] \in {"op", "reg", "imm", "ref", "def"}
    BY DEF Ids, AsmVocab
  <2>2. Failed \notin {BOS, EOS, EOL, Pad, OOV} \cup Punctuation
    BY <1>3, Firsts DEF Punctuation
  <2> QED BY <1>3, <2>1, <2>2
<1> QED BY <1>4, <1>5, <1>6, <1>7, <1>8, <1>9, <1>10, <1>11, <1>12, <1>13, Zenon

(* The branches of _emit_operand, and what is left of an operand.          *)
LEMMA PieceCases ==
  ASSUME NEW p, NEW labels
  PROVE  /\ p[1] = "mem" => /\ PieceTokens(p, labels)
                                 = <<imm(p[2]), LPAREN, IF IsReg(p[3]) THEN reg(p[3]) ELSE Failed, RPAREN>>
                            /\ Known(p, labels) = <<"mem", IF p[2] \in Buckets THEN p[2] ELSE 0, Alias(p[3])>>
         /\ p[1] = "reg" => PieceTokens(p, labels) = <<reg(p[2])>> /\ Known(p, labels) = reg(p[2])
         /\ p[1] = "imm" => /\ PieceTokens(p, labels) = <<imm(p[2])>>
                            /\ Known(p, labels) = IF p[2] \in Buckets THEN p ELSE <<"imm", 0>>
         /\ p[1] = ".L" => /\ PieceTokens(p, labels) = <<lbl_ref(Slot(p[2], labels))>>
                           /\ Known(p, labels) = <<".L", Slot(p[2], labels)>>
         /\ p[1] = "sym" => PieceTokens(p, labels) = <<OOV>> /\ Known(p, labels) = <<"imm", 0>>
         /\ p[1] = "junk" => PieceTokens(p, labels) = <<Failed>>
  BY DEF PieceTokens, Known

LEMMA PieceKinds ==
  ASSUME NEW p \in PieceSet
  PROVE  /\ p[1] \in {"mem", "reg", "imm", ".L", "sym", "junk"}
         /\ p[1] = "reg" => IsReg(p[2])
         /\ p[1] = "imm" => p = <<"imm", p[2]>>
<1>1. PICK l \in Lines : l.k = "insn" /\ p \in Range(l.args)
  BY DEF PieceSet
<1>2. IsLine(l)
  BY VocabulariesAssumption
<1>3. IsPiece(p)
  BY <1>1, <1>2 DEF IsLine
<1> QED BY <1>3 DEF IsPiece

(* Every operand is written, or fails.                                     *)
LEMMA PieceRaw ==
  ASSUME NEW p \in PieceSet, NEW labels \in Seq(LabelSet)
  PROVE  PieceTokens(p, labels) \in Seq(Raw)
<1>1. Slot(p[2], labels) \in Nat
  <2>1. Cardinality(Earlier(p[2], labels)) \in Nat
    BY EarlierFacts
  <2> QED BY <2>1 DEF Slot, Rank, Earlier, Prior
<1>2. ASSUME NEW a \in Raw, NEW b \in Raw, NEW c \in Raw, NEW d \in Raw PROVE <<a>> \in Seq(Raw) /\ <<a, b, c, d>> \in Seq(Raw)
  OBVIOUS
<1>3. \A v : imm(v) \in Raw
  BY IdKinds DEF Raw, OperandToks
<1>4. \A n : IsReg(n) => reg(n) \in Raw
  BY IdKinds DEF Raw, OperandToks
<1>5. {LPAREN, RPAREN, OOV, Failed, lbl_ref(Slot(p[2], labels))} \subseteq Raw
  <2>1. OOV \in Ids
    BY DEF Ids, AsmVocab
  <2> QED BY <1>1, <2>1, IdKinds DEF Raw, OperandToks
<1>6. CASE p[1] = "mem"
  <2> DEFINE r == IF IsReg(p[3]) THEN reg(p[3]) ELSE Failed
  <2>1. r \in Raw /\ imm(p[2]) \in Raw /\ LPAREN \in Raw /\ RPAREN \in Raw
    BY <1>3, <1>4, <1>5
  <2>2. PieceTokens(p, labels) = <<imm(p[2]), LPAREN, r, RPAREN>>
    BY <1>6, PieceCases
  <2> HIDE DEF r
  <2> QED BY <1>2, <2>1, <2>2
<1>7. CASE p[1] \in {"reg", "imm"}
  <2>1. PieceTokens(p, labels) = <<imm(p[2])>> \/ (IsReg(p[2]) /\ PieceTokens(p, labels) = <<reg(p[2])>>)
    BY <1>7, PieceKinds, PieceCases
  <2> QED BY <1>2, <1>3, <1>4, <2>1
<1>8. CASE p[1] \in {".L", "sym", "junk"}
  BY <1>2, <1>5, <1>8, PieceCases
<1> QED BY <1>6, <1>7, <1>8, PieceKinds

(* The operands that can be written when the slots are enough.             *)
Enough(labels) == labels \in Seq(LabelSet) /\ Cardinality(Range(labels)) <= LabelMax
GoodPieces(labels) ==
  {p \in PieceSet : Failed \notin Range(PieceTokens(p, labels)) /\ (p[1] = ".L" => p[2] \in Range(labels))}

(* A second list of labels in which the slots are those of the first.      *)
SameSlots(labels, again) == \A x \in Range(labels) : Slot(Slot(x, labels), again) = Slot(x, labels)

(* An operand becomes tokens without a comma, which read back as what is   *)
(* known of it, and that becomes the same tokens.                          *)
Survives(p, labels, again) ==
  LET ts == PieceTokens(p, labels)  ms == Mapped(ts, Meaning) IN
  /\ ts \in Seq(OperandToks \ {COMMA}) /\ ts # <<>>
  /\ ms \in Seq(Written \ {COMMA}) /\ ms # <<>>
  /\ Reread(ms) = Known(p, labels)
  /\ SameSlots(labels, again) => PieceTokens(Known(p, labels), again) = ms
LEMMA PieceSurvives ==
  ASSUME NEW labels, Enough(labels), NEW p \in GoodPieces(labels), NEW again
  PROVE  Survives(p, labels, again)
<1> DEFINE T == OperandToks \ {COMMA}
           W == Written \ {COMMA}
           ts == PieceTokens(p, labels)
           ms == Mapped(ts, Meaning)
           known == Known(p, labels)
<1>1. p \in PieceSet /\ Failed \notin Range(ts) /\ (p[1] = ".L" => p[2] \in Range(labels))
  BY DEF GoodPieces
<1>2. ASSUME NEW a, NEW b, NEW c, NEW d
      PROVE  /\ Mapped(<<a>>, Meaning) = <<Meaning[a]>>
             /\ Mapped(<<a, b, c, d>>, Meaning) = <<Meaning[a], Meaning[b], Meaning[c], Meaning[d]>>
  BY DEF Mapped
<1>3. ASSUME NEW a \in T PROVE <<a>> \in Seq(T) /\ <<a>> # <<>>
  OBVIOUS
<1>4. ASSUME NEW a \in W PROVE <<a>> \in Seq(W) /\ <<a>> # <<>>
  OBVIOUS
<1>5. \A t \in T : Meaning[t] \in W
  <2> TAKE t \in T
  <2>1. t \in Ids /\ t # COMMA
    BY DEF OperandToks
  <2>2. imm(0) # COMMA
    BY IdKinds
  <2> QED BY <2>1, <2>2 DEF Meaning, Written
<1>6. CASE p[1] = "mem"
  <2> DEFINE v == p[2]
             n == p[3]
             w == IF v \in Buckets THEN v ELSE 0
             r == Alias(n)
  <2>1. IsReg(n)
    <3> SUFFICES ASSUME ~IsReg(n) PROVE FALSE
      OBVIOUS
    <3>1. ts = <<imm(v), LPAREN, Failed, RPAREN>>
      BY <1>6, PieceCases
    <3>2. ts[3] = Failed /\ 3 \in DOMAIN ts
      BY <3>1
    <3> HIDE DEF ts
    <3> QED BY <1>1, <3>2 DEF Range
  <2>2. ts = <<imm(v), LPAREN, reg(n), RPAREN>> /\ known = <<"mem", w, r>>
    BY <1>6, <2>1, PieceCases
  <2>3. imm(v) \in T /\ reg(n) \in T /\ LPAREN \in T /\ RPAREN \in T
    BY <2>1, IdKinds
  <2>4. /\ Meaning[imm(v)] = <<"imm", w>> /\ Meaning[reg(n)] = <<"reg", r>>
        /\ Meaning[LPAREN] = LPAREN /\ Meaning[RPAREN] = RPAREN
    BY <2>1, IdKinds
  <2>5. ms = <<<<"imm", w>>, LPAREN, <<"reg", r>>, RPAREN>>
    <3>1. Mapped(<<imm(v), LPAREN, reg(n), RPAREN>>, Meaning)
            = <<Meaning[imm(v)], Meaning[LPAREN], Meaning[reg(n)], Meaning[RPAREN]>>
      BY <1>2
    <3> HIDE DEF v, n, w, r
    <3> QED BY <2>2, <2>4, <3>1
  <2>6. <<"imm", w>> \in W /\ <<"reg", r>> \in W /\ LPAREN \in W /\ RPAREN \in W
    BY <1>5, <2>3, <2>4
  <2>7. Reread(ms) = <<"mem", w, r>>
    <3>1. Len(ms) = 4 /\ ms[1] = <<"imm", w>> /\ ms[2] = LPAREN /\ ms[3] = <<"reg", r>> /\ ms[4] = RPAREN
      BY <2>5
    <3>2. ms[1][1] = "imm" /\ ms[3][1] = "reg" /\ ms[1][2] = w /\ ms[3][2] = r
      BY <3>1
    <3> HIDE DEF ms, w, r
    <3> QED BY <3>1, <3>2 DEF Reread
  <2>8. PieceTokens(known, again) = ms
    <3>1. known[1] = "mem" /\ known[2] = w /\ known[3] = r
      BY <2>2
    <3>2. r \in Regs /\ Alias(r) = r
      BY <2>1, AsmVocabAssumption DEF IsReg
    <3>3. IsReg(r) /\ reg(r) = <<"reg", r>>
      BY <3>2 DEF IsReg, reg
    <3>4. imm(w) = <<"imm", w>>
      BY AsmVocabAssumption DEF imm
    <3>5. PieceTokens(known, again) = <<imm(w), LPAREN, reg(r), RPAREN>>
      <4> HIDE DEF known, w, r
      <4> QED BY <3>1, <3>3, PieceCases
    <3> QED BY <2>5, <3>3, <3>4, <3>5
  <2>9. ts \in Seq(T) /\ ts # <<>>
    <3> HIDE DEF T
    <3> QED BY <2>2, <2>3
  <2>10. ms \in Seq(W) /\ ms # <<>>
    <3> HIDE DEF W
    <3> QED BY <2>5, <2>6
  <2> QED BY <2>2, <2>7, <2>8, <2>9, <2>10 DEF Survives
<1>7. ASSUME NEW a \in T, NEW m, ts = <<a>>, Meaning[a] = m, Reread(<<m>>) = known,
             SameSlots(labels, again) => PieceTokens(known, again) = <<m>>
      PROVE  Survives(p, labels, again)
  <2>1. ms = <<m>> /\ m \in W
    BY <1>2, <1>5, <1>7
  <2>2. ts \in Seq(T) /\ ts # <<>>
    <3> HIDE DEF T
    <3> QED BY <1>3, <1>7
  <2>3. ms \in Seq(W) /\ ms # <<>>
    <3> HIDE DEF W
    <3> QED BY <1>4, <2>1
  <2> QED BY <1>7, <2>1, <2>2, <2>3 DEF Survives
<1>8. /\ \A k, x : k \in {"imm", "reg"} => Reread(<<<<k, x>>>>) = <<k, x>>
      /\ \A x : Reread(<<<<"ref", x>>>>) = <<".L", x>>
  BY DEF Reread
<1>9. CASE p[1] = "reg"
  <2> DEFINE r == Alias(p[2])
  <2>1. IsReg(p[2]) /\ ts = <<reg(p[2])>> /\ known = <<"reg", r>>
    BY <1>1, <1>9, PieceKinds, PieceCases DEF reg
  <2>2. reg(p[2]) \in T /\ Meaning[reg(p[2])] = <<"reg", r>>
    BY <2>1, IdKinds
  <2>3. PieceTokens(known, again) = <<<<"reg", r>>>>
    <3>1. r \in Regs /\ Alias(r) = r
      BY <2>1, AsmVocabAssumption DEF IsReg
    <3>2. known[1] = "reg" /\ known[2] = r
      BY <2>1
    <3> HIDE DEF known
    <3> QED BY <3>1, <3>2, PieceCases DEF reg
  <2>4. Reread(<<<<"reg", r>>>>) = known
    BY <1>8, <2>1
  <2> HIDE DEF T, ts, known, r
  <2> QED BY <1>7, <2>1, <2>2, <2>3, <2>4
<1>10. CASE p[1] = "imm"
  <2> DEFINE w == IF p[2] \in Buckets THEN p[2] ELSE 0
  <2>1. ts = <<imm(p[2])>> /\ known = <<"imm", w>>
    BY <1>1, <1>10, PieceKinds, PieceCases
  <2>2. imm(p[2]) \in T /\ Meaning[imm(p[2])] = <<"imm", w>>
    BY IdKinds
  <2>3. PieceTokens(known, again) = <<<<"imm", w>>>>
    <3>1. imm(w) = <<"imm", w>>
      BY AsmVocabAssumption DEF imm
    <3>2. known[1] = "imm" /\ known[2] = w
      BY <2>1
    <3> HIDE DEF known, w
    <3> QED BY <3>1, <3>2, PieceCases
  <2>4. Reread(<<<<"imm", w>>>>) = known
    BY <1>8, <2>1
  <2> HIDE DEF T, ts, known, w
  <2> QED BY <1>7, <2>1, <2>2, <2>3, <2>4
<1>11. CASE p[1] = ".L"
  <2> DEFINE s == Slot(p[2], labels)
  <2>1. ts = <<lbl_ref(s)>> /\ known = <<".L", s>>
    BY <1>11, PieceCases
  <2>2. s \in Nat /\ s < LabelMax
    <3> DEFINE c == Cardinality(Range(labels))
    <3>1. p[2] \in Range(labels) /\ labels \in Seq(LabelSet) /\ c <= LabelMax
      BY <1>1, <1>11 DEF Enough
    <3>2. s \in Nat /\ s < c
      BY <3>1, RankDecides DEF Slot
    <3>3. c \in Nat
      BY <3>1, EarlierFacts
    <3> HIDE DEF s, c
    <3> QED BY <3>1, <3>2, <3>3, AsmVocabAssumption
  <2>3. lbl_ref(s) \in T /\ Meaning[lbl_ref(s)] = <<"ref", s>> /\ lbl_ref(s) = <<"ref", s>>
    BY <2>2, IdKinds
  <2>4. ASSUME SameSlots(labels, again) PROVE PieceTokens(known, again) = <<<<"ref", s>>>>
    <3>1. Slot(s, again) = s
      BY <1>1, <1>11, <2>4 DEF SameSlots
    <3>2. known[1] = ".L" /\ known[2] = s
      BY <2>1
    <3> HIDE DEF known, s
    <3> QED BY <2>3, <3>1, <3>2, PieceCases
  <2>5. Reread(<<<<"ref", s>>>>) = known
    BY <1>8, <2>1
  <2> HIDE DEF T, ts, known, s
  <2> QED BY <1>7, <2>1, <2>3, <2>4, <2>5
<1>12. CASE p[1] = "sym"
  <2>1. ts = <<OOV>> /\ known = <<"imm", 0>>
    BY <1>12, PieceCases
  <2>2. OOV \in T /\ Meaning[OOV] = <<"imm", 0>>
    <3>1. OOV # COMMA
      BY Firsts
    <3>2. OOV \in OperandToks
      BY DEF OperandToks, IsOperand, Ids, AsmVocab
    <3> QED BY <3>1, <3>2, AsmVocabAssumption DEF Meaning, OperandToks, imm
  <2>3. PieceTokens(known, again) = <<<<"imm", 0>>>>
    <3>1. known[1] = "imm" /\ known[2] = 0 /\ imm(0) = <<"imm", 0>>
      BY <2>1, AsmVocabAssumption DEF imm
    <3> HIDE DEF known
    <3> QED BY <3>1, PieceCases
  <2>4. Reread(<<<<"imm", 0>>>>) = known
    BY <1>8, <2>1
  <2> HIDE DEF T, ts, known
  <2> QED BY <1>7, <2>1, <2>2, <2>3, <2>4
<1>13. CASE p[1] = "junk"
  <2>1. ts = <<Failed>>
    BY <1>13, PieceCases
  <2>2. Failed \in Range(ts)
    <3>1. ts[1] = Failed /\ 1 \in DOMAIN ts
      BY <2>1
    <3> HIDE DEF ts
    <3> QED BY <3>1 DEF Range
  <2> QED BY <1>1, <2>2
<1> QED BY <1>1, <1>6, <1>9, <1>10, <1>11, <1>12, <1>13, PieceKinds

-----------------------------------------------------------------------------
(* One operand more on a line: its tokens, behind a comma if it is not the *)
(* first.                                                                  *)
Comma(args) == IF args = <<>> THEN <<>> ELSE <<COMMA>>
ArgsMore(args, p, labels) ==
  ArgTokens(Append(args, p), labels) = (ArgTokens(args, labels) \o Comma(args)) \o PieceTokens(p, labels)
LEMMA ArgTokensMore ==
  ASSUME NEW T, COMMA \in T, NEW A, NEW labels, \A q \in A : PieceTokens(q, labels) \in Seq(T),
         NEW args \in Seq(A), NEW p \in A
  PROVE  ArgTokens(args, labels) \in Seq(T) /\ ArgsMore(args, p, labels)
<1> DEFINE n == Len(args)
           u == Append(args, p)
           Sep(i) == IF i > 1 THEN <<COMMA>> ELSE <<>>
           ss == [i \in 1..n |-> Sep(i) \o PieceTokens(args[i], labels)]
           s == Comma(args) \o PieceTokens(p, labels)
           rs == Append(ss, s)
           L == Seq(T)
<1>1. n \in Nat /\ DOMAIN args = 1..n /\ \A i \in 1..n : args[i] \in A
  BY LenProperties, ElementOfSeq
<1>2. /\ u \in Seq(A) /\ Len(u) = n + 1 /\ DOMAIN u = 1..n+1 /\ u[n+1] = p
      /\ \A i \in 1..n : u[i] = args[i]
  BY <1>1, AppendProperties, LenProperties
<1> HIDE DEF u
<1>3. /\ ArgTokens(args, labels) = FlattenSeq(ss)
      /\ ArgTokens(u, labels) = FlattenSeq([i \in 1..n+1 |-> Sep(i) \o PieceTokens(u[i], labels)])
  BY <1>1, <1>2 DEF ArgTokens
<1>4. <<COMMA>> \in L /\ <<>> \in L /\ \A i : Sep(i) \in L
  BY EmptySeq
<1>5. \A x, y \in L : x \o y \in L
  BY ConcatProperties
<1>6. \A i \in 1..n : Sep(i) \o PieceTokens(args[i], labels) \in L
  <2> HIDE DEF L, Sep
  <2> QED BY <1>1, <1>4, <1>5 DEF L
<1>7. ss \in Seq(L) /\ Len(ss) = n
  <2>1. ss \in [1..n -> L]
    BY <1>6
  <2> HIDE DEF L, ss
  <2> QED BY <1>1, <2>1, FunctionIsSeq
<1>8. s \in L /\ Comma(args) \in L /\ PieceTokens(p, labels) \in L
  <2>1. Comma(args) \in L /\ PieceTokens(p, labels) \in L
    BY <1>4 DEF Comma
  <2> QED BY <1>5, <2>1
<1>9. FlattenSeq(ss) \in L /\ FlattenSeq(rs) = FlattenSeq(ss) \o s
  <2> HIDE DEF ss, s
  <2> QED BY <1>7, <1>8, FlattenAppend
<1>10. rs \in Seq(L) /\ Len(rs) = n + 1 /\ rs[n+1] = s /\ \A i \in 1..n : rs[i] = ss[i]
  <2> HIDE DEF ss, s, L
  <2> QED BY <1>7, <1>8, AppendProperties
<1>11. rs = [i \in 1..n+1 |-> rs[i]]
  <2> HIDE DEF rs, L
  <2>1. DOMAIN rs = 1..n+1 /\ rs \in [1..n+1 -> L]
    BY <1>10, LenProperties
  <2> QED BY <2>1
<1>12. ASSUME NEW i \in 1..n+1 PROVE rs[i] = Sep(i) \o PieceTokens(u[i], labels)
  <2>1. CASE i = n + 1
    <3>1. Comma(args) = Sep(n+1)
      <4>1. n = 0 <=> args = <<>>
        BY EmptySeq
      <4>2. n + 1 > 1 <=> n # 0
        BY <1>1
      <4> QED BY <4>1, <4>2 DEF Comma
    <3> HIDE DEF rs
    <3> QED BY <1>2, <1>10, <2>1, <3>1
  <2>2. CASE i # n + 1
    <3>1. i \in 1..n
      BY <1>1, <2>2
    <3>2. ss[i] = Sep(i) \o PieceTokens(args[i], labels)
      BY <3>1
    <3> HIDE DEF rs, ss, Sep
    <3> QED BY <1>2, <1>10, <3>1, <3>2
  <2> QED BY <2>1, <2>2
<1>13. rs = [i \in 1..n+1 |-> Sep(i) \o PieceTokens(u[i], labels)]
  <2> HIDE DEF rs, Sep
  <2> QED BY <1>11, <1>12
<1>14. ArgTokens(u, labels) = ArgTokens(args, labels) \o s
  <2> HIDE DEF rs, ss, s, Sep
  <2> QED BY <1>3, <1>9, <1>13
<1> DEFINE a == ArgTokens(args, labels)
           c == Comma(args)
           t == PieceTokens(p, labels)
<1>15. a \in L /\ c \in L /\ t \in L
  BY <1>3, <1>8, <1>9
<1>16. (a \o c) \o t = a \o (c \o t)
  <2> HIDE DEF a, c, t
  <2> QED BY <1>15, ConcatAssociative
<1> QED BY <1>14, <1>15, <1>16 DEF ArgsMore, u

(* What is known of a list of operands.                                    *)
KnownArgs(args, labels) == [j \in DOMAIN args |-> Known(args[j], labels)]

(* The operands on a line become tokens that read back as what is known of *)
(* them, and that becomes the same tokens.                                 *)
ArgsRead(args, labels, again) ==
  LET ts == ArgTokens(args, labels)  ms == Mapped(ts, Meaning) IN
  /\ ts \in Seq(OperandToks) /\ ms \in Seq(Written) /\ (ms = <<>> <=> args = <<>>)
  /\ Pieces(ms) = KnownArgs(args, labels)
  /\ SameSlots(labels, again) => ArgTokens(KnownArgs(args, labels), again) = ms
LEMMA ArgsSurvive ==
  ASSUME NEW labels, Enough(labels), NEW again, NEW args \in Seq(GoodPieces(labels))
  PROVE  ArgsRead(args, labels, again)
<1> DEFINE A == GoodPieces(labels)
           K == [p \in A |-> Known(p, labels)]
           B == {Known(p, labels) : p \in A}
           Good == {as \in Seq(A) : ArgsRead(as, labels, again)}
<1>1. \A p \in A : Survives(p, labels, again)
  BY PieceSurvives
<1>2. K \in [A -> B] /\ \A as \in Seq(A) : KnownArgs(as, labels) = Mapped(as, K)
  <2>1. K \in [A -> B]
    OBVIOUS
  <2>2. ASSUME NEW as \in Seq(A) PROVE KnownArgs(as, labels) = Mapped(as, K)
    <3>1. \A j \in DOMAIN as : as[j] \in A
      BY LenProperties, ElementOfSeq
    <3> HIDE DEF A
    <3> QED BY <3>1 DEF KnownArgs, Mapped
  <2> QED BY <2>1, <2>2
<1>3. /\ Meaning \in [Ids -> Written] /\ OperandToks \subseteq Ids
      /\ COMMA \in OperandToks /\ COMMA \in Written /\ Meaning[COMMA] = COMMA
  <2>1. Meaning \in [Ids -> Written] /\ OperandToks \subseteq Ids /\ Ids \subseteq Written
    BY DEF OperandToks, Meaning, Written
  <2> QED BY <2>1, IdKinds
<1>4. <<>> \in Good
  <2>1. ArgTokens(<<>>, labels) = <<>> /\ ArgTokens(<<>>, again) = <<>>
    BY DEF ArgTokens, FlattenSeq
  <2>2. Mapped(<<>>, Meaning) = <<>> /\ KnownArgs(<<>>, labels) = <<>> /\ Pieces(<<>>) = <<>>
    BY DEF Mapped, KnownArgs, Pieces
  <2>3. \A S : <<>> \in Seq(S)
    BY EmptySeq
  <2> QED BY <2>1, <2>2, <2>3 DEF ArgsRead
<1>5. ASSUME NEW as \in Seq(A), NEW p \in A, as \in Good PROVE Append(as, p) \in Good
  <2> DEFINE u  == Append(as, p)
             ts == ArgTokens(as, labels)
             ms == Mapped(ts, Meaning)
             pt == PieceTokens(p, labels)
             g  == Mapped(pt, Meaning)
             c  == Comma(as)
             k  == KnownArgs(as, labels)
             us == (ts \o c) \o pt
             vs == (ms \o c) \o g
             W  == Written \ {COMMA}
  <2>1. /\ pt \in Seq(OperandToks \ {COMMA}) /\ g \in Seq(W) /\ g # <<>>
        /\ Reread(g) = Known(p, labels)
        /\ SameSlots(labels, again) => PieceTokens(Known(p, labels), again) = g
    BY <1>1 DEF Survives
  <2>2. /\ ts \in Seq(OperandToks) /\ ms \in Seq(Written) /\ (ms = <<>> <=> as = <<>>)
        /\ Pieces(ms) = k
        /\ SameSlots(labels, again) => ArgTokens(k, again) = ms
    BY <1>5 DEF ArgsRead
  <2>3. c \in Seq(OperandToks) /\ c \in Seq(Written) /\ Mapped(c, Meaning) = c
    <3>1. CASE as = <<>>
      BY <3>1, EmptySeq DEF Comma, Mapped
    <3>2. CASE as # <<>>
      <4>1. c = <<COMMA>>
        BY <3>2 DEF Comma
      <4>2. Mapped(<<COMMA>>, Meaning) = <<Meaning[COMMA]>>
        BY DEF Mapped
      <4> HIDE DEF c
      <4> QED BY <1>3, <4>1, <4>2
    <3> QED BY <3>1, <3>2
  <2>4. ArgTokens(u, labels) = us
    <3>1. \A q \in A : PieceTokens(q, labels) \in Seq(OperandToks)
      <4>1. \A q \in A : PieceTokens(q, labels) \in Seq(OperandToks \ {COMMA})
        BY <1>1 DEF Survives
      <4>2. \A s \in Seq(OperandToks \ {COMMA}) : s \in Seq(OperandToks)
        OBVIOUS
      <4> QED BY <4>1, <4>2
    <3> HIDE DEF A
    <3>2. ArgsMore(as, p, labels)
      BY <1>3, <3>1, ArgTokensMore
    <3> QED BY <3>2 DEF ArgsMore
  <2>5. pt \in Seq(OperandToks) /\ g \in Seq(Written)
    <3> HIDE DEF pt, g
    <3> QED BY <2>1
  <2>6. us \in Seq(OperandToks) /\ vs \in Seq(Written)
    <3>1. ts \o c \in Seq(OperandToks) /\ ms \o c \in Seq(Written)
      <4> HIDE DEF ts, ms, c
      <4> QED BY <2>2, <2>3, ConcatProperties
    <3> HIDE DEF ts, ms, c, pt, g
    <3> QED BY <2>5, <3>1, ConcatProperties DEF us, vs
  <2>7. Mapped(us, Meaning) = vs
    <3> DEFINE d == ts \o c
    <3>1. ts \in Seq(Ids) /\ c \in Seq(Ids) /\ pt \in Seq(Ids) /\ d \in Seq(Ids)
      <4>1. \A s \in Seq(OperandToks) : s \in Seq(Ids)
        BY <1>3
      <4> HIDE DEF ts, c, pt
      <4> QED BY <2>2, <2>3, <2>5, <4>1, ConcatProperties
    <3> HIDE DEF d, pt, ts, c
    <3>2. JoinedImages(d, pt, Meaning) /\ JoinedImages(ts, c, Meaning)
      BY <1>3, <3>1, MappedConcat
    <3> QED BY <2>3, <3>2 DEF JoinedImages, d
  <2>8. vs = <<>> <=> u = <<>>
    <3>1. u # <<>>
      BY AppendProperties
    <3>2. vs # <<>>
      <4>1. ms \o c \in Seq(Written)
        <5> HIDE DEF ms, c
        <5> QED BY <2>2, <2>3, ConcatProperties
      <4> HIDE DEF ms, c, g
      <4>2. Len(vs) = Len(ms \o c) + Len(g) /\ Len(ms \o c) \in Nat /\ Len(g) \in Nat \ {0}
        BY <2>1, <2>5, <4>1, ConcatProperties, EmptySeq, LenProperties
      <4> QED BY <4>2, EmptySeq
    <3> QED BY <3>1, <3>2
  <2>9. KnownArgs(u, labels) = Append(k, Known(p, labels))
    <3>1. Grown(as, K, p) /\ K[p] = Known(p, labels)
      <4> HIDE DEF A
      <4>1. K[p] = Known(p, labels)
        OBVIOUS
      <4> HIDE DEF K, B
      <4> QED BY <1>2, <4>1, MappedAppend
    <3>2. u \in Seq(A)
      BY AppendProperties
    <3> HIDE DEF K, A, u
    <3> QED BY <1>2, <3>1, <3>2 DEF Grown, u
  <2>10. Pieces(vs) = Append(k, Known(p, labels))
    <3>1. CASE as = <<>>
      <4>1. ms = <<>> /\ c = <<>>
        BY <2>2, <3>1 DEF Comma
      <4>2. vs = g
        <5> HIDE DEF g
        <5>1. <<>> \o <<>> = <<>>
          OBVIOUS
        <5> QED BY <2>5, <4>1, <5>1, ConcatEmptySeq
      <4>3. Pieces(g) = <<Reread(g)>>
        <5> HIDE DEF g, W
        <5> QED BY <2>1, OnePiece DEF W
      <4>4. k = <<>>
        BY <3>1 DEF KnownArgs
      <4>5. Append(<<>>, Known(p, labels)) = <<Known(p, labels)>>
        OBVIOUS
      <4> HIDE DEF vs, g, k
      <4> QED BY <2>1, <4>2, <4>3, <4>4, <4>5
    <3>2. CASE as # <<>>
      <4>1. c = <<COMMA>>
        BY <3>2 DEF Comma
      <4>2. vs = (ms \o <<COMMA>>) \o g
        BY <4>1
      <4>3. Pieces((ms \o <<COMMA>>) \o g) = Append(Pieces(ms), Reread(g))
        <5> HIDE DEF ms, g, W
        <5> QED BY <1>3, <2>1, <2>2, <3>2, PieceMore DEF W
      <4> QED BY <2>1, <2>2, <4>2, <4>3
    <3> QED BY <3>1, <3>2
  <2>11. ASSUME SameSlots(labels, again) PROVE ArgTokens(KnownArgs(u, labels), again) = vs
    <3>1. \A q \in B : PieceTokens(q, again) \in Seq(Written)
      <4>1. \A q \in A : PieceTokens(Known(q, labels), again) \in Seq(W)
        BY <1>1, <2>11 DEF Survives
      <4>2. \A s \in Seq(W) : s \in Seq(Written)
        OBVIOUS
      <4> HIDE DEF A, W
      <4> QED BY <4>1, <4>2
    <3>2. k \in Seq(B) /\ Known(p, labels) \in B
      <4>1. Mapped(as, K) \in Seq(B)
        <5> HIDE DEF A, K, B
        <5> QED BY <1>2, MappedTypes
      <4> QED BY <1>2, <4>1
    <3>3. ArgsMore(k, Known(p, labels), again)
      <4> HIDE DEF B, k
      <4> QED BY <1>3, <3>1, <3>2, ArgTokensMore
    <3>4. Comma(k) = c
      <4>1. DOMAIN k = DOMAIN as
        BY DEF KnownArgs
      <4>2. k = <<>> <=> as = <<>>
        <5>1. Len(k) \in Nat /\ Len(as) \in Nat /\ DOMAIN k = 1..Len(k) /\ DOMAIN as = 1..Len(as)
          <6> HIDE DEF k, A, B
          <6> QED BY <3>2, LenProperties
        <5>2. Len(k) = 0 <=> Len(as) = 0
          <6> HIDE DEF k
          <6>1. 1 \in 1..Len(k) <=> 1 \in 1..Len(as)
            BY <4>1, <5>1
          <6>2. \A x \in Nat : x = 0 <=> 1 \notin 1..x
            OBVIOUS
          <6> QED BY <5>1, <6>1, <6>2
        <5> HIDE DEF k, A, B
        <5> QED BY <3>2, <5>2, EmptySeq
      <4> QED BY <4>2 DEF Comma
    <3> HIDE DEF k
    <3>5. ArgTokens(Append(k, Known(p, labels)), again) = (ArgTokens(k, again) \o c) \o PieceTokens(Known(p, labels), again)
      BY <3>3, <3>4 DEF ArgsMore
    <3> QED BY <2>1, <2>2, <2>9, <2>11, <3>5
  <2>12. ArgsRead(u, labels, again)
    <3> HIDE DEF u, us, vs, k
    <3> QED BY <2>4, <2>6, <2>7, <2>8, <2>9, <2>10, <2>11 DEF ArgsRead
  <2> QED BY <2>12, AppendProperties
<1>6. Seq(A) \subseteq Good
  <2> HIDE DEF Good, A
  <2> QED BY <1>4, <1>5, ListInduction
<1> QED BY <1>6

-----------------------------------------------------------------------------
(* What the branches change.                                               *)
AppendsOnly(out, op, buf, x) ==
  LET d == [out |-> out, op |-> op, buf |-> buf] IN
  /\ [d EXCEPT !.buf = Append(@, x)] = [out |-> out, op |-> op, buf |-> Append(buf, x)]
  /\ [d EXCEPT !.out = Append(@, x)] = [out |-> Append(out, x), op |-> op, buf |-> buf]
LEMMA Branches ==
  ASSUME NEW out, NEW op, NEW buf, NEW x
  PROVE  AppendsOnly(out, op, buf, x)
<1> DEFINE d == [out |-> out, op |-> op, buf |-> buf]
           b == Append(buf, x)
           o == Append(out, x)
<1>1. d.buf = buf /\ d.out = out
  OBVIOUS
<1>2. [d EXCEPT !.buf = Append(@, x)] = [d EXCEPT !.buf = b]
  <2>1. Append(d.buf, x) = b
    BY <1>1
  <2> HIDE DEF b, d
  <2> QED BY <2>1
<1>3. [d EXCEPT !.out = Append(@, x)] = [d EXCEPT !.out = o]
  <2>1. Append(d.out, x) = o
    BY <1>1
  <2> HIDE DEF o, d
  <2> QED BY <2>1
<1>4. [d EXCEPT !.buf = b] = [out |-> out, op |-> op, buf |-> b]
  <2> HIDE DEF b
  <2> QED OBVIOUS
<1>5. [d EXCEPT !.out = o] = [out |-> o, op |-> op, buf |-> buf]
  <2> HIDE DEF o
  <2> QED OBVIOUS
<1> QED BY <1>2, <1>3, <1>4, <1>5 DEF AppendsOnly

(* Operands read in a row stand behind those not written yet.              *)
Behind(d, ops) == [out |-> d.out, op |-> d.op, buf |-> d.buf \o ops]
LEMMA OperandRun ==
  ASSUME NEW s \in Seq(Ids \ {EOS}), NEW a \in Seq(OperandToks)
  PROVE  s \o a \in Seq(Ids \ {EOS}) /\ After(s \o a) = Behind(After(s), Mapped(a, Meaning))
<1> DEFINE R == Ids \ {EOS}
           d == After(s)
           Good == {b \in Seq(OperandToks) : s \o b \in Seq(R) /\ After(s \o b) = Behind(d, Mapped(b, Meaning))}
<1>1. /\ Meaning \in [Ids -> Written] /\ OperandToks \subseteq R /\ OperandToks \subseteq Ids
      /\ \A t \in OperandToks : IsOperand(t)
  BY IdKinds DEF OperandToks, Meaning, Written
<1>2. d \in DState
  <2>1. \E t \in R : TRUE
    BY IdKinds
  <2> QED BY <2>1, AfterAppend
<1>3. d.buf \in Seq(Written) /\ d = [out |-> d.out, op |-> d.op, buf |-> d.buf]
  BY <1>2 DEF DState
<1> HIDE DEF d
<1>4. <<>> \in Good
  <2>1. Mapped(<<>>, Meaning) = <<>> /\ s \o <<>> = s /\ d.buf \o <<>> = d.buf
    BY <1>3, ConcatEmptySeq DEF Mapped
  <2> QED BY <1>3, <2>1, EmptySeq DEF Behind, d
<1>5. ASSUME NEW b \in Seq(OperandToks), NEW t \in OperandToks, b \in Good PROVE Append(b, t) \in Good
  <2> DEFINE mb == Mapped(b, Meaning)
             sb == s \o b
             mt == Meaning[t]
  <2>1. b \in Seq(R) /\ b \in Seq(Ids) /\ t \in R
    BY <1>1
  <2>2. Append(b, t) \in Seq(OperandToks)
    BY AppendProperties
  <2>3. sb \in Seq(R) /\ s \o Append(b, t) = Append(sb, t)
    BY <2>1, ConcatAppend, ConcatProperties
  <2>4. After(sb) = Behind(d, mb) /\ After(sb) \in DState /\ After(Append(sb, t)) = Detok(After(sb), t)
    <3> HIDE DEF sb
    <3> QED BY <1>5, <2>1, <2>3, AfterAppend DEF sb
  <2>5. Detok(After(sb), t) = [After(sb) EXCEPT !.buf = Append(@, mt)]
    <3> HIDE DEF sb
    <3> QED BY <1>1, <2>1, DetokCases
  <2>6. mb \in Seq(Written) /\ Grown(b, Meaning, t) /\ mt \in Written
    BY <1>1, <2>1, MappedAppend
  <2>7. d.buf \o Append(mb, mt) = Append(d.buf \o mb, mt)
    <3> HIDE DEF mb, mt
    <3> QED BY <1>3, <2>6, ConcatAppend
  <2>8. [Behind(d, mb) EXCEPT !.buf = Append(@, mt)] = Behind(d, Append(mb, mt))
    <3> DEFINE b0 == d.buf \o mb
    <3> HIDE DEF mb, mt
    <3>1. Behind(d, mb) = [out |-> d.out, op |-> d.op, buf |-> b0]
      BY DEF Behind
    <3>2. Behind(d, Append(mb, mt)) = [out |-> d.out, op |-> d.op, buf |-> Append(b0, mt)]
      BY <2>7 DEF Behind
    <3>3. [[out |-> d.out, op |-> d.op, buf |-> b0] EXCEPT !.buf = Append(@, mt)]
            = [out |-> d.out, op |-> d.op, buf |-> Append(b0, mt)]
      <4> HIDE DEF b0
      <4>1. AppendsOnly(d.out, d.op, b0, mt)
        BY Branches, Zenon
      <4> QED BY <4>1, Zenon DEF AppendsOnly
    <3> HIDE DEF b0
    <3> QED BY <3>1, <3>2, <3>3
  <2>9. Mapped(Append(b, t), Meaning) = Append(mb, mt)
    BY <2>6 DEF Grown
  <2>10. After(s \o Append(b, t)) = Behind(d, Mapped(Append(b, t), Meaning))
    <3> HIDE DEF sb, mb, mt
    <3> QED BY <2>3, <2>4, <2>5, <2>8, <2>9
  <2>11. s \o Append(b, t) \in Seq(R)
    <3> HIDE DEF sb
    <3> QED BY <2>1, <2>3, AppendProperties
  <2> QED BY <2>2, <2>10, <2>11
<1>6. Seq(OperandToks) \subseteq Good
  <2> HIDE DEF Good
  <2> QED BY <1>4, <1>5, ListInduction
<1> QED BY <1>6 DEF d

-----------------------------------------------------------------------------
(* The lines that can be written when the slots are enough, what is known  *)
(* of one, and the line the detokenizer makes of it.                       *)
GoodLines(labels) ==
  {l \in BodyLines : IF l.k = "label" THEN l.name \in Range(labels)
                     ELSE l.op \in Opcodes /\ l.args \in Seq(GoodPieces(labels))}
KeptLine(l, labels) ==
  IF l.k = "label" THEN [k |-> "label", name |-> Slot(l.name, labels)]
  ELSE [k |-> "insn", op |-> l.op, args |-> KnownArgs(l.args, labels)]
Wrote(l, labels) ==
  IF l.k = "label" THEN [k |-> "label", name |-> Slot(l.name, labels)]
  ELSE [k |-> "insn", op |-> l.op, buf |-> Mapped(ArgTokens(l.args, labels), Meaning)]

(* Between lines: nothing pending.                                         *)
Quiet(out) == [out |-> out, op |-> NoOp, buf |-> <<>>]

(* A line's tokens are those of what is known of it, and the detokenizer   *)
(* makes one line of them.                                                 *)
LineSurvives(l, labels, again) ==
  LET ts == LineTokens(l, labels) IN
  /\ ts \in Seq(Ids \ {EOS})
  /\ SameSlots(labels, again) => LineTokens(KeptLine(l, labels), again) = Mapped(ts, Meaning)
  /\ \A s \in Seq(Ids \ {EOS}) : \A out : After(s) = Quiet(out) => After(s \o ts) = Quiet(Append(out, Wrote(l, labels)))
LEMMA LineSurvive ==
  ASSUME NEW labels, Enough(labels), NEW again, NEW l \in GoodLines(labels)
  PROVE  LineSurvives(l, labels, again)
<1> DEFINE R == Ids \ {EOS}
           ts == LineTokens(l, labels)
<1>1. l \in BodyLines /\ l.k \in {"label", "insn"}
  BY DEF GoodLines, BodyLines
<1>2. EOL \in R /\ Meaning[EOL] = EOL /\ Meaning \in [Ids -> Written]
  BY IdKinds DEF Meaning, Written
<1>3. \A out : Flush(Quiet(out)) = Quiet(out)
  BY DEF Flush, Quiet
<1>4. \A d : Detok(d, EOL) = Flush(d)
  <2>1. EOL[1] # "op" /\ EOL[1] # "def" /\ EOL # OOV /\ EOL \notin {BOS, Pad}
    BY Firsts
  <2>2. EOL \in Ids \ {EOS}
    BY IdKinds
  <2> QED BY <2>1, <2>2, DetokCases
<1>5. CASE l.k = "label"
  <2> DEFINE n == Slot(l.name, labels)
             t == <<"def", n>>
  <2>1. n \in Nat /\ n < LabelMax
    <3> DEFINE c == Cardinality(Range(labels))
    <3>1. l.name \in Range(labels) /\ labels \in Seq(LabelSet) /\ c <= LabelMax
      BY <1>5 DEF GoodLines, Enough
    <3>2. n \in Nat /\ n < c
      BY <3>1, RankDecides DEF Slot
    <3>3. c \in Nat
      BY <3>1, EarlierFacts
    <3> HIDE DEF n, c
    <3> QED BY <3>1, <3>2, <3>3, AsmVocabAssumption
  <2>2. lbl_def(n) = t /\ t \in LineToks /\ Meaning[t] = t
    <3>1. lbl_def(n) = t /\ lbl_def(n) \in LineToks /\ Meaning[lbl_def(n)] = t
      BY <2>1, IdKinds
    <3> HIDE DEF n, t
    <3> QED BY <3>1
  <2>3. t \in R /\ t[1] = "def" /\ t[2] = n
    <3>1. t \in R
      BY <2>2, IdKinds DEF LineToks
    <3> QED BY <3>1
  <2>4. ts = <<t, EOL>>
    BY <1>5, <2>2 DEF LineTokens
  <2> HIDE DEF R, t
  <2>5. ts \in Seq(R)
    BY <1>2, <2>3, <2>4
  <2>6. Mapped(ts, Meaning) = <<t, EOL>>
    <3>1. Mapped(<<t, EOL>>, Meaning) = <<Meaning[t], Meaning[EOL]>>
      BY DEF Mapped
    <3> HIDE DEF ts
    <3> QED BY <1>2, <2>2, <2>4, <3>1
  <2>7. ASSUME SameSlots(labels, again) PROVE LineTokens(KeptLine(l, labels), again) = <<t, EOL>>
    <3>1. Slot(n, again) = n
      BY <1>5, <2>7 DEF SameSlots, GoodLines
    <3>2. KeptLine(l, labels).k = "label" /\ KeptLine(l, labels).name = n
      BY <1>5 DEF KeptLine
    <3>3. LineTokens(KeptLine(l, labels), again) = <<lbl_def(Slot(n, again)), EOL>>
      BY <3>2 DEF LineTokens
    <3> HIDE DEF n
    <3> QED BY <2>2, <3>1, <3>3
  <2>8. ASSUME NEW s \in Seq(R), NEW out, After(s) = Quiet(out)
        PROVE  After(s \o ts) = Quiet(Append(out, Wrote(l, labels)))
    <3> DEFINE w == [k |-> "label", name |-> n]
               s1 == Append(s, t)
    <3>1. s \o <<t, EOL>> = Append(s1, EOL) /\ s1 \in Seq(R)
      BY <1>2, <2>3
    <3>2. After(s1) = Detok(Quiet(out), t)
      BY <2>3, <2>8, AfterAppend DEF R
    <3>3. Detok(Quiet(out), t) = [Flush(Quiet(out)) EXCEPT !.out = Append(@, w)]
      <4> HIDE DEF n
      <4> QED BY <2>3, DetokCases DEF R
    <3>4. [Quiet(out) EXCEPT !.out = Append(@, w)] = Quiet(Append(out, w))
      <4> HIDE DEF w
      <4>1. [[out |-> out, op |-> NoOp, buf |-> <<>>] EXCEPT !.out = Append(@, w)]
              = [out |-> Append(out, w), op |-> NoOp, buf |-> <<>>]
        <5>1. AppendsOnly(out, NoOp, <<>>, w)
          BY Branches, Zenon
        <5> QED BY <5>1, Zenon DEF AppendsOnly
      <4> QED BY <4>1 DEF Quiet
    <3>5. After(Append(s1, EOL)) = Detok(After(s1), EOL)
      <4> HIDE DEF s1
      <4> QED BY <1>2, <3>1, AfterAppend DEF R
    <3>6. Wrote(l, labels) = w
      BY <1>5 DEF Wrote
    <3> HIDE DEF ts, s1, w
    <3>7. After(s \o ts) = Detok(After(s1), EOL)
      BY <2>4, <3>1, <3>5
    <3>8. After(s1) = Quiet(Append(out, w))
      BY <1>3, <3>2, <3>3, <3>4
    <3> QED BY <1>3, <1>4, <3>6, <3>7, <3>8
  <2> QED BY <2>5, <2>6, <2>7, <2>8 DEF LineSurvives, R
<1>6. CASE l.k = "insn"
  <2> DEFINE o == l.op
             t == <<"op", o>>
             a == ArgTokens(l.args, labels)
             m == Mapped(a, Meaning)
             w == [k |-> "insn", op |-> o, buf |-> m]
             k == KnownArgs(l.args, labels)
  <2>1. o \in Opcodes /\ l.args \in Seq(GoodPieces(labels))
    BY <1>6 DEF GoodLines
  <2>2. /\ a \in Seq(OperandToks) /\ m \in Seq(Written)
        /\ SameSlots(labels, again) => ArgTokens(k, again) = m
    <3>1. ArgsRead(l.args, labels, again)
      BY <2>1, ArgsSurvive
    <3> QED BY <3>1 DEF ArgsRead
  <2>3. t \in R /\ t[1] = "op" /\ t[2] = o /\ Meaning[t] = t
    <3>1. t \in LineToks /\ Meaning[t] = t
      BY <2>1, IdKinds
    <3>2. t \in R
      BY <3>1, IdKinds DEF LineToks
    <3> QED BY <3>1, <3>2
  <2>4. ts = (<<t>> \o a) \o <<EOL>>
    BY <1>6, <2>1 DEF LineTokens
  <2>5. a \in Seq(R) /\ a \in Seq(Ids)
    <3>1. OperandToks \subseteq R /\ OperandToks \subseteq Ids
      BY IdKinds DEF OperandToks
    <3> HIDE DEF a, R
    <3> QED BY <2>2, <3>1
  <2>6. <<t>> \in Seq(R) /\ <<EOL>> \in Seq(R) /\ <<t>> \o a \in Seq(R)
    <3> HIDE DEF a, R, t
    <3> QED BY <1>2, <2>3, <2>5, ConcatProperties
  <2>7. ts \in Seq(R)
    <3> HIDE DEF a, R, t, ts
    <3> QED BY <2>4, <2>6, ConcatProperties
  <2>8. Mapped(ts, Meaning) = (<<t>> \o m) \o <<EOL>>
    <3> DEFINE ta == <<t>> \o a
    <3>1. ta \in Seq(Ids) /\ <<t>> \in Seq(Ids) /\ <<EOL>> \in Seq(Ids)
      <4>1. \A s \in Seq(R) : s \in Seq(Ids)
        OBVIOUS
      <4> HIDE DEF R, t, a
      <4> QED BY <2>6, <4>1
    <3> HIDE DEF ta, a, t
    <3>2. JoinedImages(ta, <<EOL>>, Meaning) /\ JoinedImages(<<t>>, a, Meaning)
      BY <1>2, <2>5, <3>1, MappedConcat
    <3>3. Mapped(<<t>>, Meaning) = <<t>> /\ Mapped(<<EOL>>, Meaning) = <<EOL>>
      <4>1. \A x : Mapped(<<x>>, Meaning) = <<Meaning[x]>>
        BY DEF Mapped
      <4> QED BY <1>2, <2>3, <4>1
    <3> HIDE DEF ts
    <3> QED BY <2>4, <3>2, <3>3 DEF JoinedImages, ta
  <2>9. ASSUME SameSlots(labels, again) PROVE LineTokens(KeptLine(l, labels), again) = (<<t>> \o m) \o <<EOL>>
    <3>1. KeptLine(l, labels).k = "insn" /\ KeptLine(l, labels).op = o /\ KeptLine(l, labels).args = k
      BY <1>6 DEF KeptLine
    <3>2. LineTokens(KeptLine(l, labels), again) = (<<t>> \o ArgTokens(k, again)) \o <<EOL>>
      <4> HIDE DEF k, o
      <4> QED BY <2>1, <3>1 DEF LineTokens
    <3> QED BY <2>2, <2>9, <3>2
  <2>10. ASSUME NEW s \in Seq(R), NEW out, After(s) = Quiet(out)
         PROVE  After(s \o ts) = Quiet(Append(out, Wrote(l, labels)))
    <3> DEFINE s1 == Append(s, t)
               s2 == s1 \o a
    <3>1. s1 \in Seq(R)
      <4> HIDE DEF t, R
      <4> QED BY <2>3, AppendProperties
    <3>2. After(s1) = [out |-> out, op |-> <<o>>, buf |-> <<>>]
      <4>1. After(s1) = Detok(Quiet(out), t)
        <5> HIDE DEF t
        <5> QED BY <2>3, <2>10, AfterAppend
      <4>2. Detok(Quiet(out), t) = [Flush(Quiet(out)) EXCEPT !.op = <<o>>]
        <5> HIDE DEF t, o
        <5> QED BY <2>3, DetokCases
      <4>3. [Quiet(out) EXCEPT !.op = <<o>>] = [out |-> out, op |-> <<o>>, buf |-> <<>>]
        BY DEF Quiet
      <4> HIDE DEF s1, t, o
      <4> QED BY <1>3, <4>1, <4>2, <4>3
    <3>3. s2 \in Seq(R) /\ After(s2) = [out |-> out, op |-> <<o>>, buf |-> m]
      <4>1. s2 \in Seq(R) /\ After(s2) = Behind(After(s1), m)
        <5> HIDE DEF s1, a
        <5> QED BY <2>2, <3>1, OperandRun
      <4>2. <<>> \o m = m
        <5> HIDE DEF m
        <5> QED BY <2>2, ConcatEmptySeq
      <4> HIDE DEF s1, s2, m
      <4> QED BY <3>2, <4>1, <4>2 DEF Behind
    <3>4. After(Append(s2, EOL)) = Flush(After(s2))
      <4> HIDE DEF s2
      <4> QED BY <1>2, <1>4, <3>3, AfterAppend
    <3>5. Flush([out |-> out, op |-> <<o>>, buf |-> m]) = Quiet(Append(out, w))
      <4> HIDE DEF o, m
      <4>1. <<o>> # NoOp /\ <<o>>[1] = o
        BY DEF NoOp
      <4> QED BY <4>1 DEF Flush, EmptyBuf, Quiet
    <3>6. s \o ts = Append(s2, EOL)
      <4> DEFINE ta == <<t>> \o a
      <4>1. s \o (ta \o <<EOL>>) = (s \o ta) \o <<EOL>>
        <5> HIDE DEF ta, R
        <5> QED BY <2>6, ConcatAssociative DEF ta
      <4>2. s \o ta = (s \o <<t>>) \o a
        <5> HIDE DEF a, t, R
        <5> QED BY <2>5, <2>6, ConcatAssociative
      <4>3. s \o <<t>> = s1
        <5> HIDE DEF t
        <5> QED BY <2>3
      <4>4. s2 \o <<EOL>> = Append(s2, EOL)
        <5> HIDE DEF s2
        <5> QED BY <1>2, <3>3
      <4> HIDE DEF s1, t, a, ts
      <4> QED BY <2>4, <4>1, <4>2, <4>3, <4>4 DEF s2
    <3>7. Wrote(l, labels) = w
      BY <1>6 DEF Wrote
    <3> HIDE DEF ts, s1, s2, w, m, o
    <3> QED BY <3>3, <3>4, <3>5, <3>6, <3>7
  <2> HIDE DEF ts, t, m, R
  <2> QED BY <2>7, <2>8, <2>9, <2>10 DEF LineSurvives, R, ts
<1> QED BY <1>1, <1>5, <1>6

-----------------------------------------------------------------------------
(* The labels an instruction mentions.                                     *)
RefsMore(args, p) == Refs(Append(args, p)) = IF p[1] = ".L" THEN Append(Refs(args), p[2]) ELSE Refs(args)
LEMMA RefsAppend ==
  ASSUME NEW A, NEW args \in Seq(A), NEW p \in A
  PROVE  Refs(args) \in Seq({q[2] : q \in A}) /\ RefsMore(args, p)
<1> DEFINE S == {q \in A : q[1] = ".L"}
           N == {q[2] : q \in A}
           F == [q \in A |-> q[2]]
           u == Append(args, p)
           a == Among(args, S)
<1>1. F \in [A -> N] /\ F[p] = p[2]
  OBVIOUS
<1>2. ASSUME NEW as \in Seq(A) PROVE Refs(as) = Mapped(Among(as, S), F)
  <2> DEFINE refs == Among(as, {q \in Range(as) : q[1] = ".L"})
  <2>1. Len(as) \in Nat /\ DOMAIN as = 1..Len(as) /\ \A i \in 1..Len(as) : as[i] \in A
    BY LenProperties, ElementOfSeq
  <2>2. {i \in 1..Len(as) : as[i] \in {q \in Range(as) : q[1] = ".L"}} = {i \in 1..Len(as) : as[i] \in S}
    BY <2>1 DEF Range
  <2>3. refs = Among(as, S)
    BY <2>2 DEF Among
  <2>4. refs \in Seq(A)
    <3>1. as \in Seq(A \ {})
      OBVIOUS
    <3> HIDE DEF S, refs
    <3> QED BY <2>3, <3>1, AmongTypes, Zenon
  <2>5. \A i \in DOMAIN refs : refs[i] \in A
    <3> HIDE DEF refs
    <3> QED BY <2>4, LenProperties, ElementOfSeq
  <2>6. Refs(as) = [i \in DOMAIN refs |-> refs[i][2]]
    BY DEF Refs
  <2> HIDE DEF refs
  <2>7. Mapped(refs, F) = [i \in DOMAIN refs |-> refs[i][2]]
    BY <2>5 DEF Mapped
  <2> QED BY <2>3, <2>6, <2>7
<1>3. u \in Seq(A)
  BY AppendProperties
<1>4. a \in Seq(A) /\ Among(u, S) = IF p \in S THEN Append(a, p) ELSE a
  <2> HIDE DEF S
  <2> QED BY AmongAppend
<1> HIDE DEF F, u, a, N
<1>5. Mapped(a, F) \in Seq(N) /\ Grown(a, F, p)
  BY <1>1, <1>4, MappedAppend
<1>6. Refs(args) = Mapped(a, F) /\ Refs(u) = Mapped(Among(u, S), F)
  BY <1>2, <1>3 DEF a
<1>7. p \in S <=> p[1] = ".L"
  OBVIOUS
<1> HIDE DEF S
<1> QED BY <1>1, <1>4, <1>5, <1>6, <1>7 DEF RefsMore, Grown, u, N

LEMMA RefsNothing == Refs(<<>>) = <<>>
<1> DEFINE S == {q \in Range(<<>>) : q[1] = ".L"}
           refs == Among(<<>>, S)
<1>1. refs = <<>>
  <2> HIDE DEF S
  <2> QED BY AmongEmpty
<1>2. Refs(<<>>) = [i \in DOMAIN refs |-> refs[i][2]]
  BY DEF Refs
<1> HIDE DEF refs
<1>3. DOMAIN refs = {}
  BY <1>1
<1> QED BY <1>2, <1>3

(* The slots of a function's labels.                                       *)
SlotOf(labels) == [x \in Range(labels) |-> Slot(x, labels)]

(* The labels mentioned by what is known of a list of operands are the     *)
(* slots of those the operands mention.                                    *)
LEMMA RefsKept ==
  ASSUME NEW labels, NEW args \in Seq(GoodPieces(labels))
  PROVE  /\ Refs(args) \in Seq(Range(labels))
         /\ Refs(KnownArgs(args, labels)) = Mapped(Refs(args), SlotOf(labels))
<1> DEFINE A == GoodPieces(labels)
           L == Range(labels)
           F == SlotOf(labels)
           R == {F[x] : x \in L}
           K == [p \in A |-> Known(p, labels)]
           B == {Known(p, labels) : p \in A}
           Good == {as \in Seq(A) : /\ Refs(as) \in Seq(L)
                                    /\ Refs(KnownArgs(as, labels)) = Mapped(Refs(as), F)}
<1>1. F \in [L -> R]
  BY DEF SlotOf
<1>2. K \in [A -> B] /\ \A as \in Seq(A) : KnownArgs(as, labels) = Mapped(as, K)
  <2>1. K \in [A -> B]
    OBVIOUS
  <2>2. ASSUME NEW as \in Seq(A) PROVE KnownArgs(as, labels) = Mapped(as, K)
    <3>1. \A j \in DOMAIN as : as[j] \in A
      BY LenProperties, ElementOfSeq
    <3> HIDE DEF A
    <3> QED BY <3>1 DEF KnownArgs, Mapped
  <2> QED BY <2>1, <2>2
<1>3. <<>> \in Good
  <2>1. KnownArgs(<<>>, labels) = <<>> /\ Mapped(<<>>, F) = <<>>
    BY DEF KnownArgs, Mapped
  <2> QED BY <2>1, RefsNothing, EmptySeq
<1>4. ASSUME NEW as \in Seq(A), NEW p \in A, as \in Good PROVE Append(as, p) \in Good
  <2> DEFINE u == Append(as, p)
             r == Refs(as)
             k == KnownArgs(as, labels)
             q == Known(p, labels)
  <2>1. r \in Seq(L) /\ Refs(k) = Mapped(r, F)
    BY <1>4
  <2>2. RefsMore(as, p)
    <3> HIDE DEF A
    <3> QED BY RefsAppend
  <2>3. k \in Seq(B) /\ q \in B /\ KnownArgs(u, labels) = Append(k, q)
    <3>1. K[p] = q /\ q \in B
      OBVIOUS
    <3>2. u \in Seq(A)
      BY AppendProperties
    <3>3. Mapped(as, K) \in Seq(B) /\ Grown(as, K, p)
      <4> HIDE DEF A, B, K
      <4> QED BY <1>2, MappedAppend
    <3>4. k = Mapped(as, K) /\ KnownArgs(u, labels) = Mapped(u, K)
      <4> HIDE DEF A, K, u
      <4> QED BY <1>2, <3>2
    <3> HIDE DEF A, B, K, k, u, q
    <3> QED BY <3>1, <3>3, <3>4 DEF Grown, u
  <2>4. RefsMore(k, q)
    <3> HIDE DEF B, k, q
    <3> QED BY <2>3, RefsAppend
  <2>5. p \in PieceSet /\ (p[1] = ".L" => p[2] \in L)
    BY DEF GoodPieces
  <2>6. /\ q[1] = ".L" <=> p[1] = ".L"
        /\ p[1] = ".L" => q[2] = F[p[2]]
    <3>1. CASE p[1] = ".L"
      <4>1. q = <<".L", Slot(p[2], labels)>>
        BY <3>1, PieceCases
      <4>2. F[p[2]] = Slot(p[2], labels)
        BY <2>5, <3>1 DEF SlotOf
      <4> HIDE DEF q
      <4> QED BY <3>1, <4>1, <4>2
    <3>2. CASE p[1] = "junk"
      <4>1. q = <<"imm", 0>>
        BY <3>2 DEF Known
      <4> HIDE DEF q
      <4> QED BY <3>2, <4>1
    <3>3. CASE p[1] \in {"mem", "reg", "imm", "sym"}
      <4>1. q[1] \in {"mem", "reg", "imm"}
        <5>1. CASE p[1] = "mem"
          <6>1. q = <<"mem", IF p[2] \in Buckets THEN p[2] ELSE 0, Alias(p[3])>>
            BY <5>1, PieceCases
          <6> HIDE DEF q
          <6> QED BY <6>1
        <5>2. CASE p[1] = "reg"
          <6>1. q = <<"reg", Alias(p[2])>>
            BY <5>2, PieceCases DEF reg
          <6> HIDE DEF q
          <6> QED BY <6>1
        <5>3. CASE p[1] \in {"imm", "sym"}
          <6>1. (q = p /\ p[1] = "imm") \/ q = <<"imm", 0>>
            BY <5>3, PieceCases
          <6> HIDE DEF q
          <6> QED BY <6>1
        <5> QED BY <3>3, <5>1, <5>2, <5>3
      <4> QED BY <3>3, <4>1
    <3> QED BY <2>5, <3>1, <3>2, <3>3, PieceKinds
  <2>7. CASE p[1] = ".L"
    <3>1. Refs(u) = Append(r, p[2]) /\ Refs(Append(k, q)) = Append(Refs(k), F[p[2]])
      BY <2>2, <2>4, <2>6, <2>7 DEF RefsMore
    <3>2. Grown(r, F, p[2])
      <4> HIDE DEF r, F, R, L
      <4> QED BY <1>1, <2>1, <2>5, <2>7, MappedAppend
    <3>3. Append(r, p[2]) \in Seq(L)
      <4> HIDE DEF r, L
      <4> QED BY <2>1, <2>5, <2>7, AppendProperties
    <3>4. Refs(KnownArgs(u, labels)) = Mapped(Refs(u), F)
      <4> HIDE DEF u, r, k, q, F
      <4> QED BY <2>1, <2>3, <3>1, <3>2 DEF Grown
    <3> HIDE DEF F
    <3> QED BY <3>1, <3>3, <3>4, AppendProperties
  <2>8. CASE p[1] # ".L"
    <3>1. Refs(u) = r /\ Refs(Append(k, q)) = Refs(k)
      BY <2>2, <2>4, <2>6, <2>8 DEF RefsMore
    <3> HIDE DEF F
    <3> QED BY <2>1, <2>3, <3>1, AppendProperties
  <2> QED BY <2>7, <2>8
<1>5. Seq(A) \subseteq Good
  <2> HIDE DEF Good, A
  <2> QED BY <1>3, <1>4, ListInduction
<1> QED BY <1>5

(* The labels of what is known of a function are the slots of its labels,  *)
(* and have the same slots.                                                *)
LEMMA LabelsKept ==
  ASSUME NEW labels \in Seq(LabelSet), NEW body \in Seq(GoodLines(labels)), labels = Labels(body)
  PROVE  SameSlots(labels, Labels([i \in DOMAIN body |-> KeptLine(body[i], labels)]))
<1> DEFINE A == GoodLines(labels)
           L == Range(labels)
           F == SlotOf(labels)
           R == {F[x] : x \in L}
           M == [l \in A |-> Mentions(l)]
           kept == [i \in DOMAIN body |-> KeptLine(body[i], labels)]
           again == Labels(kept)
           ss == [i \in DOMAIN body |-> Mentions(body[i])]
<1>1. F \in [L -> R]
  BY DEF SlotOf
<1>2. ASSUME NEW l \in A
      PROVE  Mentions(l) \in Seq(L) /\ Mentions(KeptLine(l, labels)) = Mapped(Mentions(l), F)
  <2>1. CASE l.k = "label"
    <3>1. Mentions(l) = <<l.name>> /\ l.name \in L
      BY <2>1 DEF Mentions, GoodLines
    <3>2. Mentions(KeptLine(l, labels)) = <<Slot(l.name, labels)>>
      BY <2>1 DEF Mentions, KeptLine
    <3>3. Mapped(<<l.name>>, F) = <<F[l.name]>>
      BY DEF Mapped
    <3>4. F[l.name] = Slot(l.name, labels)
      BY <3>1 DEF SlotOf
    <3> HIDE DEF F, L
    <3> QED BY <3>1, <3>2, <3>3, <3>4
  <2>2. CASE l.k # "label"
    <3>1. Mentions(l) = Refs(l.args) /\ l.args \in Seq(GoodPieces(labels))
      BY <2>2 DEF Mentions, GoodLines
    <3>2. Mentions(KeptLine(l, labels)) = Refs(KnownArgs(l.args, labels))
      <4>1. KeptLine(l, labels).k = "insn" /\ KeptLine(l, labels).args = KnownArgs(l.args, labels)
        BY <2>2 DEF KeptLine
      <4> QED BY <4>1 DEF Mentions
    <3> QED BY <3>1, <3>2, RefsKept
  <2> QED BY <2>1, <2>2
<1>3. Len(body) \in Nat /\ DOMAIN body = 1..Len(body) /\ \A i \in DOMAIN body : body[i] \in A
  BY LenProperties, ElementOfSeq
<1>4. ss \in Seq(Seq(L)) /\ DOMAIN ss = DOMAIN body
  <2>1. \A i \in DOMAIN body : Mentions(body[i]) \in Seq(L)
    <3> HIDE DEF A, L, F
    <3> QED BY <1>2, <1>3
  <2>2. ss \in [1..Len(body) -> Seq(L)]
    <3> HIDE DEF L
    <3> QED BY <1>3, <2>1
  <2> HIDE DEF L, A
  <2> QED BY <1>3, <2>2, FunctionIsSeq
<1>5. labels = FlattenSeq(ss)
  BY DEF Labels
<1>6. again = Mapped(labels, F)
  <2>1. again = FlattenSeq([i \in DOMAIN body |-> Mentions(kept[i])])
    BY DEF Labels
  <2>2. \A i \in DOMAIN body : Mentions(kept[i]) = Mapped(ss[i], F)
    <3> HIDE DEF A, F, L
    <3> QED BY <1>2, <1>3
  <2>3. ImageJoined(ss, F)
    <3> HIDE DEF ss, F, L, R
    <3> QED BY <1>1, <1>4, FlattenMapped
  <2>4. [i \in DOMAIN body |-> Mentions(kept[i])] = [i \in DOMAIN ss |-> Mapped(ss[i], F)]
    <3> HIDE DEF ss, F, kept
    <3> QED BY <1>4, <2>2
  <2>5. again = FlattenSeq([i \in DOMAIN ss |-> Mapped(ss[i], F)])
    <3> HIDE DEF ss, F, kept, again
    <3> QED BY <2>1, <2>4
  <2> HIDE DEF ss, F, again
  <2> QED BY <1>5, <2>3, <2>5 DEF ImageJoined
<1>7. labels \in Seq(L)
  <2>1. Len(labels) \in Nat /\ DOMAIN labels = 1..Len(labels) /\ labels = [i \in 1..Len(labels) |-> labels[i]]
    BY LenProperties
  <2>2. labels \in [1..Len(labels) -> L]
    BY <2>1 DEF Range
  <2> QED BY <2>1, <2>2, FunctionIsSeq
<1>8. \A x, y \in L : F[x] = F[y] => x = y
  <2>1. \A x, y \in L : Rank(x, labels) = Rank(y, labels) => x = y
    BY RankDecides
  <2> QED BY <2>1 DEF SlotOf, Slot
<1>9. ASSUME NEW x \in L PROVE Slot(Slot(x, labels), again) = Slot(x, labels)
  <2>1. F[x] = Slot(x, labels)
    BY DEF SlotOf
  <2>2. Rank(F[x], Mapped(labels, F)) = Rank(x, labels)
    <3> HIDE DEF F, L, R
    <3>1. RankKept(x, labels, F)
      BY <1>1, <1>7, <1>8, RankMapped, Zenon
    <3> QED BY <3>1 DEF RankKept
  <2> HIDE DEF F, again
  <2> QED BY <1>6, <2>1, <2>2 DEF Slot
<1> QED BY <1>9 DEF SameSlots

-----------------------------------------------------------------------------
(* The lines tokenize_asm reads are instructions and labels.               *)
LEMMA BodyTypes ==
  ASSUME NEW ls \in Seq(Lines), NEW fn, Starts(ls, fn) <= Len(ls)
  PROVE  Body(ls, fn) \in Seq(BodyLines)
<1> DEFINE n == Len(ls)
           start == Starts(ls, fn)
           ends == {i \in start+1..n : ls[i].k = "end"}
           e == Least(ends, n + 1)
           inside == SubSeq(ls, start + 1, e - 1)
           S == {l \in Range(inside) : l.k # "mark" /\ ~IsFn(l, fn)}
           T == {l \in Lines : l.k # "end"}
<1>1. n \in Nat /\ DOMAIN ls = 1..n /\ \A i \in 1..n : ls[i] \in Lines
  BY LenProperties, ElementOfSeq
<1>2. start \in 1..n
  <2> DEFINE A == {i \in DOMAIN ls : IsFn(ls[i], fn)}
  <2>1. A \in SUBSET (1..n)
    BY <1>1
  <2>2. start = Least(A, n + 1)
    BY DEF Starts
  <2> HIDE DEF A
  <2>3. Least(A, n + 1) \in 1..n+1
    BY <1>1, <2>1, LeastFacts
  <2> QED BY <1>1, <2>2, <2>3
<1> HIDE DEF start
<1>3. ends \in SUBSET (1..n) /\ \A i \in ends : start < i
  BY <1>1, <1>2
<1>4. /\ e \in 1..n+1 /\ (e \in ends \/ e = n + 1)
      /\ \A i \in 1..e-1 : i \in 1..n /\ i \notin ends
  <2> HIDE DEF ends
  <2> QED BY <1>1, <1>3, LeastFacts
<1>5. e \in Nat /\ start < e
  BY <1>1, <1>2, <1>3, <1>4
<1>6. \A i \in 1..e-1 : start < i => ls[i] \in T
  <2>1. \A i \in 1..n : i > start /\ i \notin ends => ls[i].k # "end"
    BY <1>1, <1>2
  <2> HIDE DEF ends, e
  <2> QED BY <1>1, <1>2, <1>4, <2>1
<1> HIDE DEF e
<1>7. inside \in Seq(T)
  <2> DEFINE d == (e - 1) - start
  <2>1. d \in Nat
    BY <1>2, <1>5
  <2>2. inside = [j \in 1..d |-> ls[start + j]]
    <3>1. inside = [j \in 1..((e - 1) - (start + 1) + 1) |-> ls[(start + 1) + j - 1]]
      BY <1>2, <1>5
    <3>2. (e - 1) - (start + 1) + 1 = d
      BY <1>2, <1>5
    <3>3. \A j \in 1..d : (start + 1) + j - 1 = start + j
      BY <1>2, <1>5
    <3> HIDE DEF d, inside
    <3> QED BY <3>1, <3>2, <3>3
  <2>3. \A j \in 1..d : start + j \in 1..e-1 /\ start < start + j
    BY <1>2, <1>5
  <2>4. [j \in 1..d |-> ls[start + j]] \in [1..d -> T]
    <3> HIDE DEF d, T
    <3> QED BY <1>6, <2>3
  <2> HIDE DEF d, inside, T
  <2> QED BY <2>1, <2>2, <2>4, FunctionIsSeq
<1>8. Body(ls, fn) = Among(inside, S)
  BY DEF Body, e, start
<1>9. T \cap S \subseteq BodyLines
  <2>1. \A l \in Lines : l.k \in {"mark", "end", "label", "insn"}
    BY VocabulariesAssumption DEF IsLine
  <2> QED BY <2>1 DEF BodyLines
<1> HIDE DEF inside, S, T
<1>10. Among(inside, S) \in Seq(T \cap S)
  BY <1>7, AmongOnly
<1> QED BY <1>8, <1>9, <1>10

-----------------------------------------------------------------------------
(* The parts of a line.                                                    *)
LEMMA LineParts ==
  ASSUME NEW l \in BodyLines
  PROVE  /\ l.k \in {"label", "insn"}
         /\ l.k = "label" => l = [k |-> "label", name |-> l.name] /\ l.name \in LabelSet
         /\ l.k = "insn" => l = [k |-> "insn", op |-> l.op, args |-> l.args] /\ l.args \in Seq(PieceSet)
<1>1. IsLine(l) /\ l \in Lines /\ l.k \in {"label", "insn"}
  BY VocabulariesAssumption DEF BodyLines
<1>2. ASSUME l.k = "insn" PROVE l.args \in Seq(PieceSet)
  <2>1. l.args \in Seq(Range(l.args)) /\ Range(l.args) \subseteq PieceSet
    BY <1>1, <1>2 DEF IsLine, PieceSet
  <2> QED BY <2>1
<1> QED BY <1>1, <1>2 DEF IsLine, LabelSet

(* The tokens of a list of operands have those of each, and its labels.    *)
LEMMA ArgsHave ==
  ASSUME NEW args \in Seq(PieceSet), NEW labels \in Seq(LabelSet)
  PROVE  /\ ArgTokens(args, labels) \in Seq(Raw)
         /\ Refs(args) \in Seq(LabelSet)
         /\ \A p \in Range(args) : /\ Range(PieceTokens(p, labels)) \subseteq Range(ArgTokens(args, labels))
                                   /\ p[1] = ".L" => p[2] \in Range(Refs(args))
<1> DEFINE Has(as) == /\ ArgTokens(as, labels) \in Seq(Raw)
                      /\ Refs(as) \in Seq(LabelSet)
                      /\ \A p \in Range(as) :
                           /\ Range(PieceTokens(p, labels)) \subseteq Range(ArgTokens(as, labels))
                           /\ p[1] = ".L" => p[2] \in Range(Refs(as))
           Good == {as \in Seq(PieceSet) : Has(as)}
<1>1. <<>> \in Good
  <2>1. ArgTokens(<<>>, labels) = <<>> /\ Range(<<>>) = {}
    BY DEF ArgTokens, FlattenSeq, Range
  <2> QED BY <2>1, RefsNothing, EmptySeq
<1>2. ASSUME NEW as \in Seq(PieceSet), NEW p \in PieceSet, as \in Good PROVE Append(as, p) \in Good
  <2> DEFINE u == Append(as, p)
             a == ArgTokens(as, labels)
             c == Comma(as)
             t == PieceTokens(p, labels)
             r == Refs(as)
  <2>1. /\ a \in Seq(Raw) /\ r \in Seq(LabelSet)
        /\ \A q \in Range(as) : Range(PieceTokens(q, labels)) \subseteq Range(a) /\ (q[1] = ".L" => q[2] \in Range(r))
    BY <1>2
  <2>2. COMMA \in Raw
    BY IdKinds DEF OperandToks, Raw
  <2>3. \A q \in PieceSet : PieceTokens(q, labels) \in Seq(Raw)
    BY PieceRaw
  <2>4. ArgTokens(u, labels) = (a \o c) \o t
    <3>1. ArgsMore(as, p, labels)
      BY <2>2, <2>3, ArgTokensMore
    <3> QED BY <3>1 DEF ArgsMore
  <2>5. c \in Seq(Raw) /\ t \in Seq(Raw)
    <3>1. <<COMMA>> \in Seq(Raw) /\ <<>> \in Seq(Raw)
      BY <2>2, EmptySeq
    <3> QED BY <2>3, <3>1 DEF Comma
  <2> HIDE DEF a, c, t
  <2>6. a \o c \in Seq(Raw) /\ Range(a \o c) = Range(a) \cup Range(c)
    BY <2>1, <2>5, ConcatProperties, RangeGrows
  <2>7. (a \o c) \o t \in Seq(Raw) /\ Range((a \o c) \o t) = Range(a \o c) \cup Range(t)
    <3> DEFINE ac == a \o c
    <3>1. ac \in Seq(Raw)
      BY <2>6
    <3> HIDE DEF ac
    <3>2. ac \o t \in Seq(Raw) /\ Range(ac \o t) = Range(ac) \cup Range(t)
      BY <2>5, <3>1, ConcatProperties, RangeGrows
    <3> QED BY <3>2 DEF ac
  <2>8. Refs(u) = IF p[1] = ".L" THEN Append(r, p[2]) ELSE r
    <3>1. RefsMore(as, p)
      BY RefsAppend
    <3> QED BY <3>1 DEF RefsMore
  <2>9. p[2] \in LabelSet
    BY DEF LabelSet
  <2> HIDE DEF r
  <2>10. /\ Refs(u) \in Seq(LabelSet)
         /\ Range(r) \subseteq Range(Refs(u)) /\ (p[1] = ".L" => p[2] \in Range(Refs(u)))
    <3>1. Append(r, p[2]) \in Seq(LabelSet) /\ Range(Append(r, p[2])) = Range(r) \cup {p[2]}
      BY <2>1, <2>9, AppendProperties, RangeGrows
    <3> HIDE DEF u
    <3> QED BY <2>1, <2>8, <3>1
  <2>11. Range(u) = Range(as) \cup {p} /\ u \in Seq(PieceSet)
    <3>1. GrownRange(as, p)
      BY RangeAppend, Zenon
    <3> QED BY <3>1, AppendProperties DEF GrownRange
  <2> HIDE DEF u
  <2>12. Has(u)
    <3>1. ASSUME NEW q \in Range(u)
          PROVE  /\ Range(PieceTokens(q, labels)) \subseteq Range(ArgTokens(u, labels))
                 /\ q[1] = ".L" => q[2] \in Range(Refs(u))
      <4>1. CASE q \in Range(as)
        BY <2>1, <2>4, <2>6, <2>7, <2>10, <4>1
      <4>2. CASE q = p
        BY <2>4, <2>7, <2>10, <4>2 DEF t
      <4> QED BY <2>11, <4>1, <4>2
    <3> QED BY <2>4, <2>7, <2>10, <3>1
  <2> QED BY <2>11, <2>12 DEF u
<1>3. Seq(PieceSet) \subseteq Good
  <2> HIDE DEF Good
  <2> QED BY <1>1, <1>2, ListInduction
<1> QED BY <1>3

(* Every line is written, or fails; one that does not can be written.      *)
LEMMA LineHas ==
  ASSUME NEW l \in BodyLines, NEW labels \in Seq(LabelSet)
  PROVE  /\ LineTokens(l, labels) \in Seq(Raw) /\ Mentions(l) \in Seq(LabelSet)
         /\ Failed \notin Range(LineTokens(l, labels)) /\ Range(Mentions(l)) \subseteq Range(labels)
              => l \in GoodLines(labels)
<1> DEFINE ts == LineTokens(l, labels)
<1>1. EOL \in Raw
  BY IdKinds DEF Raw
<1>2. CASE l.k = "label"
  <2> DEFINE t == lbl_def(Slot(l.name, labels))
  <2>1. ts = <<t, EOL>> /\ Mentions(l) = <<l.name>>
    BY <1>2 DEF LineTokens, Mentions
  <2>2. l.name \in LabelSet
    BY <1>2, LineParts
  <2>3. t \in Raw
    <3>1. Cardinality(Earlier(l.name, labels)) \in Nat
      BY EarlierFacts
    <3>2. Slot(l.name, labels) \in Nat
      BY <3>1 DEF Slot, Rank, Earlier, Prior
    <3> QED BY <3>2, IdKinds DEF Raw
  <2>4. Range(Mentions(l)) = {l.name}
    BY <2>1 DEF Range
  <2>5. <<t, EOL>> \in Seq(Raw)
    <3> HIDE DEF t
    <3> QED BY <1>1, <2>3
  <2> HIDE DEF t, ts
  <2> QED BY <1>2, <2>1, <2>2, <2>4, <2>5 DEF GoodLines, ts
<1>3. CASE l.k = "insn"
  <2> DEFINE o == IF l.op \in Opcodes THEN <<"op", l.op>> ELSE Failed
             a == ArgTokens(l.args, labels)
  <2>1. ts = (<<o>> \o a) \o <<EOL>> /\ Mentions(l) = Refs(l.args)
    BY <1>3 DEF LineTokens, Mentions
  <2>2. l.args \in Seq(PieceSet)
    BY <1>3, LineParts
  <2>3. /\ a \in Seq(Raw) /\ Refs(l.args) \in Seq(LabelSet)
        /\ \A p \in Range(l.args) : Range(PieceTokens(p, labels)) \subseteq Range(a) /\ (p[1] = ".L" => p[2] \in Range(Refs(l.args)))
    BY <2>2, ArgsHave
  <2>4. o \in Raw
    <3>1. l.op \in Opcodes => <<"op", l.op>> \in Raw
      BY IdKinds DEF Raw, LineToks
    <3> QED BY <3>1 DEF Raw
  <2> HIDE DEF o, a
  <2>5. <<o>> \in Seq(Raw) /\ <<EOL>> \in Seq(Raw) /\ Range(<<o>>) = {o}
    BY <1>1, <2>4 DEF Range
  <2>6. <<o>> \o a \in Seq(Raw) /\ Range(<<o>> \o a) = {o} \cup Range(a)
    <3> DEFINE x == <<o>>
    <3>1. x \in Seq(Raw)
      BY <2>5
    <3> HIDE DEF x
    <3>2. x \o a \in Seq(Raw) /\ Range(x \o a) = Range(x) \cup Range(a)
      BY <2>3, <3>1, ConcatProperties, RangeGrows
    <3> QED BY <2>5, <3>2 DEF x
  <2>7. ts \in Seq(Raw) /\ {o} \cup Range(a) \subseteq Range(ts)
    <3> DEFINE x == <<o>> \o a
               y == <<EOL>>
    <3>1. x \in Seq(Raw) /\ y \in Seq(Raw)
      BY <2>5, <2>6
    <3> HIDE DEF x, y
    <3>2. x \o y \in Seq(Raw) /\ Range(x \o y) = Range(x) \cup Range(y)
      BY <3>1, ConcatProperties, RangeGrows
    <3>3. ts = x \o y
      BY <2>1 DEF x, y
    <3> HIDE DEF ts
    <3> QED BY <2>6, <3>2, <3>3 DEF x
  <2>8. ASSUME Failed \notin Range(ts), Range(Mentions(l)) \subseteq Range(labels) PROVE l \in GoodLines(labels)
    <3>1. l.op \in Opcodes
      BY <2>7, <2>8 DEF o
    <3>2. Range(l.args) \subseteq GoodPieces(labels)
      <4>1. Range(l.args) \subseteq PieceSet
        BY <2>2, RangeGrows
      <4>2. ASSUME NEW p \in Range(l.args) PROVE p \in GoodPieces(labels)
        <5>1. Failed \notin Range(PieceTokens(p, labels))
          BY <2>3, <2>7, <2>8
        <5>2. p[1] = ".L" => p[2] \in Range(labels)
          BY <2>1, <2>3, <2>8
        <5> QED BY <4>1, <5>1, <5>2 DEF GoodPieces
      <4> QED BY <4>2
    <3>3. l.args \in Seq(GoodPieces(labels))
      <4>1. l.args \in Seq(Range(l.args))
        BY <1>3, VocabulariesAssumption DEF IsLine, BodyLines
      <4> QED BY <3>2, <4>1
    <3> QED BY <1>3, <3>1, <3>3 DEF GoodLines
  <2> QED BY <2>1, <2>3, <2>7, <2>8
<1> QED BY <1>2, <1>3, LineParts

(* The function's tokens but for the first and the last.                   *)
Flat(body, labels) == FlattenSeq([i \in DOMAIN body |-> LineTokens(body[i], labels)])

(* What a function whose tokens have no failure consists of.               *)
LEMMA BodyGood ==
  ASSUME NEW body \in Seq(BodyLines)
  PROVE  /\ Labels(body) \in Seq(LabelSet) /\ Flat(body, Labels(body)) \in Seq(Raw)
         /\ Failed \notin Range(Flat(body, Labels(body))) => body \in Seq(GoodLines(Labels(body)))
<1> DEFINE labels == Labels(body)
           ms == [i \in DOMAIN body |-> Mentions(body[i])]
           ts == [i \in DOMAIN body |-> LineTokens(body[i], labels)]
<1>1. Len(body) \in Nat /\ DOMAIN body = 1..Len(body) /\ \A i \in 1..Len(body) : body[i] \in BodyLines
  BY LenProperties, ElementOfSeq
<1>2. ms \in Seq(Seq(LabelSet)) /\ DOMAIN ms = 1..Len(body) /\ labels = FlattenSeq(ms)
  <2>1. <<>> \in Seq(LabelSet)
    BY EmptySeq
  <2>2. \A i \in 1..Len(body) : Mentions(body[i]) \in Seq(LabelSet)
    BY <1>1, <2>1, LineHas
  <2>3. ms \in [1..Len(body) -> Seq(LabelSet)]
    BY <1>1, <2>2
  <2>4. labels = FlattenSeq(ms)
    BY DEF Labels
  <2> HIDE DEF ms, labels
  <2> QED BY <1>1, <2>3, <2>4, FunctionIsSeq
<1>3. labels \in Seq(LabelSet) /\ \A i \in 1..Len(body) : Range(Mentions(body[i])) \subseteq Range(labels)
  <2>1. \A i \in 1..Len(body) : ms[i] = Mentions(body[i]) /\ ms[i] \in Range(ms)
    BY <1>1 DEF Range
  <2> HIDE DEF ms, labels
  <2>2. <<>> \in Seq(LabelSet)
    BY EmptySeq
  <2>3. FlattenSeq(ms) \in Seq(LabelSet)
    BY <1>2, <2>2, FlattenAppend
  <2>4. Range(FlattenSeq(ms)) = UNION {Range(s) : s \in Range(ms)}
    BY <1>2, FlattenHas
  <2> QED BY <1>2, <2>1, <2>3, <2>4
<1> HIDE DEF labels
<1>4. ts \in Seq(Seq(Raw)) /\ \A i \in 1..Len(body) : ts[i] = LineTokens(body[i], labels) /\ ts[i] \in Range(ts)
  <2>1. \A i \in 1..Len(body) : LineTokens(body[i], labels) \in Seq(Raw)
    BY <1>1, <1>3, LineHas
  <2>2. ts \in [1..Len(body) -> Seq(Raw)]
    BY <1>1, <2>1
  <2>3. \A i \in 1..Len(body) : ts[i] = LineTokens(body[i], labels) /\ ts[i] \in Range(ts)
    BY <1>1 DEF Range
  <2> HIDE DEF ts
  <2> QED BY <1>1, <2>2, <2>3, FunctionIsSeq
<1>5. Flat(body, labels) = FlattenSeq(ts)
  BY DEF Flat
<1> HIDE DEF ts
<1>6. FlattenSeq(ts) \in Seq(Raw) /\ Range(FlattenSeq(ts)) = UNION {Range(s) : s \in Range(ts)}
  <2>1. <<>> \in Seq(Raw)
    BY EmptySeq
  <2> QED BY <1>4, <2>1, FlattenHas, FlattenAppend
<1>7. ASSUME Failed \notin Range(Flat(body, labels)) PROVE body \in Seq(GoodLines(labels))
  <2>1. ASSUME NEW i \in 1..Len(body) PROVE body[i] \in GoodLines(labels)
    <3>1. Failed \notin Range(LineTokens(body[i], labels))
      BY <1>4, <1>5, <1>6, <1>7
    <3> QED BY <1>1, <1>3, <3>1, LineHas
  <2>2. body \in [1..Len(body) -> GoodLines(labels)]
    <3>1. body = [i \in 1..Len(body) |-> body[i]]
      BY <1>1
    <3> QED BY <2>1, <3>1
  <2> QED BY <1>1, <2>2, FunctionIsSeq
<1> QED BY <1>3, <1>5, <1>6, <1>7 DEF labels

-----------------------------------------------------------------------------
(* The detokenizer's run over a function: a line for each line.            *)
Outs(body, labels)   == [i \in DOMAIN body |-> Wrote(body[i], labels)]
KeptAll(body, labels) == [i \in DOMAIN body |-> KeptLine(body[i], labels)]
Runs(body, labels) ==
  /\ Flat(body, labels) \in Seq(Ids \ {EOS})
  /\ After(<<BOS>> \o Flat(body, labels)) = Quiet(Outs(body, labels))
LEMMA FlatRun ==
  ASSUME NEW labels, Enough(labels), NEW body \in Seq(GoodLines(labels))
  PROVE  Runs(body, labels)
<1> DEFINE A == GoodLines(labels)
           R == Ids \ {EOS}
           TF == [l \in A |-> LineTokens(l, labels)]
           WS == {Wrote(l, labels) : l \in A}
           WF == [l \in A |-> Wrote(l, labels)]
           Good == {b \in Seq(A) : Runs(b, labels)}
<1>1. ASSUME NEW l \in A PROVE LineSurvives(l, labels, labels)
  BY LineSurvive
<1>2. TF \in [A -> Seq(R)] /\ WF \in [A -> WS]
  <2>1. \A l \in A : LineTokens(l, labels) \in Seq(R)
    BY <1>1 DEF LineSurvives
  <2> QED BY <2>1
<1>3. \A b \in Seq(A) : Flat(b, labels) = FlattenSeq(Mapped(b, TF)) /\ Outs(b, labels) = Mapped(b, WF)
  <2> TAKE b \in Seq(A)
  <2>1. \A i \in DOMAIN b : b[i] \in A
    BY LenProperties, ElementOfSeq
  <2> HIDE DEF A
  <2>2. Mapped(b, TF) = [i \in DOMAIN b |-> LineTokens(b[i], labels)] /\ Mapped(b, WF) = Outs(b, labels)
    BY <2>1 DEF Mapped, Outs
  <2> HIDE DEF TF, WF
  <2> QED BY <2>2 DEF Flat
<1>4. BOS \in R /\ <<BOS>> \in Seq(R)
  BY IdKinds
<1>5. <<>> \in Good
  <2>1. Flat(<<>>, labels) = <<>> /\ Outs(<<>>, labels) = <<>>
    BY DEF Flat, Outs, FlattenSeq
  <2>2. <<BOS>> \o <<>> = Append(<<>>, BOS) /\ <<>> \in Seq(R) /\ <<>> \in Seq(A)
    BY EmptySeq
  <2>3. After(Append(<<>>, BOS)) = Detok(Empty, BOS)
    BY <1>4, <2>2, AfterAppend, AfterNothing
  <2>4. Detok(Empty, BOS) = Empty
    BY <1>4, DetokCases
  <2>5. Empty = Quiet(<<>>)
    BY DEF Empty, Quiet
  <2> QED BY <2>1, <2>2, <2>3, <2>4, <2>5 DEF Runs
<1>6. ASSUME NEW b \in Seq(A), NEW l \in A, b \in Good PROVE Append(b, l) \in Good
  <2> DEFINE u == Append(b, l)
             f == Flat(b, labels)
             t == LineTokens(l, labels)
             o == Outs(b, labels)
             s == <<BOS>> \o f
  <2>1. f \in Seq(R) /\ After(s) = Quiet(o)
    BY <1>6 DEF Runs
  <2>2. /\ t \in Seq(R)
        /\ \A r \in Seq(R) : \A out : After(r) = Quiet(out) => After(r \o t) = Quiet(Append(out, Wrote(l, labels)))
    BY <1>1 DEF LineSurvives
  <2>3. u \in Seq(A)
    BY AppendProperties
  <2>4. TF[l] = t /\ WF[l] = Wrote(l, labels)
    OBVIOUS
  <2>5. Mapped(b, TF) \in Seq(Seq(R)) /\ Grown(b, TF, l) /\ Grown(b, WF, l)
    <3> HIDE DEF A, TF, WF, WS, R
    <3> QED BY <1>2, MappedAppend, Zenon
  <2>6. Flat(u, labels) = f \o t
    <3> DEFINE ss == Mapped(b, TF)
    <3>1. Flat(u, labels) = FlattenSeq(Append(ss, t)) /\ f = FlattenSeq(ss)
      <4> HIDE DEF A, TF, WF, t, u
      <4> QED BY <1>3, <2>3, <2>4, <2>5 DEF Grown, u
    <3>2. FlattenSeq(Append(ss, t)) = FlattenSeq(ss) \o t
      <4> HIDE DEF ss, t, R
      <4> QED BY <2>2, <2>5, FlattenAppend DEF ss
    <3> HIDE DEF ss, t, f, u
    <3> QED BY <3>1, <3>2
  <2>7. Outs(u, labels) = Append(o, Wrote(l, labels))
    <3> HIDE DEF A, TF, WF, u
    <3> QED BY <1>3, <2>3, <2>4, <2>5 DEF Grown, u
  <2>8. s \in Seq(R) /\ f \o t \in Seq(R) /\ <<BOS>> \o (f \o t) = s \o t
    <3> DEFINE x == <<BOS>>
    <3>1. x \in Seq(R)
      BY <1>4
    <3> HIDE DEF x, f, t, R
    <3>2. x \o f \in Seq(R) /\ f \o t \in Seq(R) /\ (x \o f) \o t = x \o (f \o t)
      BY <2>1, <2>2, <3>1, ConcatProperties, ConcatAssociative
    <3> QED BY <3>2 DEF x
  <2>9. After(s \o t) = Quiet(Append(o, Wrote(l, labels)))
    <3> HIDE DEF s, t, o, R
    <3> QED BY <2>1, <2>2, <2>8
  <2>10. Runs(u, labels)
    <3> HIDE DEF s, t, o, f, u
    <3> QED BY <2>6, <2>7, <2>8, <2>9 DEF Runs
  <2> QED BY <2>3, <2>10
<1>7. Seq(A) \subseteq Good
  <2> HIDE DEF Good, A
  <2> QED BY <1>5, <1>6, ListInduction
<1> QED BY <1>7

(* What is read of a sequence that ends in its first EOS.                  *)
LEMMA UpToLast ==
  ASSUME NEW s \in Seq(Ids \ {EOS})
  PROVE  UpToEos(s \o <<EOS>>) = s
<1> DEFINE n == Len(s)
           u == Append(s, EOS)
           ends == {i \in DOMAIN u : u[i] = EOS}
<1>1. n \in Nat /\ DOMAIN s = 1..n /\ \A i \in 1..n : s[i] # EOS
  BY LenProperties, ElementOfSeq
<1>2. s \in Seq(Ids) /\ EOS \in Ids
  BY IdKinds
<1>3. /\ u \in Seq(Ids) /\ Len(u) = n + 1 /\ DOMAIN u = 1..n+1 /\ u[n+1] = EOS
      /\ \A i \in 1..n : u[i] = s[i]
  BY <1>2, AppendProperties, LenProperties
<1>4. s \o <<EOS>> = u
  BY <1>2
<1> HIDE DEF u
<1>5. ends = {n+1}
  BY <1>1, <1>3
<1>6. Least(ends, (n + 1) + 1) = n + 1
  <2>1. ends # {} /\ ends \in SUBSET (1..n+1) /\ n + 1 \in Nat
    BY <1>1, <1>5
  <2> DEFINE m == Least(ends, (n + 1) + 1)
  <2>2. m \in ends \/ m = (n + 1) + 1
    <3> HIDE DEF ends, n
    <3> QED BY <2>1, LeastFacts
  <2>3. \A i \in 1..m-1 : i \notin ends
    <3> HIDE DEF ends, n
    <3> QED BY <2>1, LeastFacts
  <2> HIDE DEF m
  <2>4. CASE m = (n + 1) + 1
    <3>1. n + 1 \in 1..m-1
      BY <1>1, <2>4
    <3> QED BY <1>5, <2>3, <3>1
  <2> QED BY <1>5, <2>2, <2>4 DEF m
<1>7. UpToEos(u) = SubSeq(u, 1, n)
  <2>1. UpToEos(u) = SubSeq(u, 1, Least(ends, Len(u) + 1) - 1)
    BY DEF UpToEos
  <2>2. (n + 1) - 1 = n
    BY <1>1
  <2> HIDE DEF ends, n
  <2> QED BY <1>3, <1>6, <2>1, <2>2
<1>8. SubSeq(u, 1, n) = [i \in 1..n |-> u[i]]
  BY <1>1
<1>9. [i \in 1..n |-> u[i]] = s
  <2>1. s = [i \in 1..n |-> s[i]]
    BY <1>1
  <2> QED BY <1>3, <2>1
<1> QED BY <1>4, <1>7, <1>8, <1>9

-----------------------------------------------------------------------------
(* The text detokenize_asm writes around lines, and what tokenize_asm      *)
(* reads of it: those lines.                                               *)
Framed(fn, ls) == <<[k |-> "mark"], [k |-> "label", name |-> fn]>> \o ls \o <<[k |-> "end"]>>
LEMMA BodyFramed ==
  ASSUME NEW fn, NEW T, \A l \in T : l.k \in {"label", "insn"} /\ ~IsFn(l, fn), NEW ls \in Seq(T)
  PROVE  /\ Body(Framed(fn, ls), fn) = ls
         /\ ~(Starts(Framed(fn, ls), fn) > Len(Framed(fn, ls)))
<1> DEFINE h == <<[k |-> "mark"], [k |-> "label", name |-> fn]>>
           z == [k |-> "end"]
           U == {h[1], h[2], z} \cup T
           v == h \o ls
           u == Append(v, z)
           n == Len(ls)
<1>1. n \in Nat /\ DOMAIN ls = 1..n /\ ls \in Seq(U) /\ \A i \in 1..n : ls[i] \in T
  BY LenProperties, ElementOfSeq
<1>2. h \in Seq(U) /\ Len(h) = 2 /\ h[1].k = "mark" /\ h[2] = [k |-> "label", name |-> fn]
  OBVIOUS
<1>3. z \in U /\ z.k = "end"
  OBVIOUS
<1> HIDE DEF h, z, U
<1>4. /\ v \in Seq(U) /\ Len(v) = 2 + n
      /\ v[1] = h[1] /\ v[2] = h[2] /\ \A i \in 1..n : v[2+i] = ls[i]
  <2>1. /\ v \in Seq(U) /\ Len(v) = Len(h) + Len(ls)
        /\ \A i \in 1..Len(h) + Len(ls) : v[i] = IF i <= Len(h) THEN h[i] ELSE ls[i - Len(h)]
    BY <1>1, <1>2, ConcatProperties
  <2>2. Len(v) = 2 + n /\ \A i \in 1..2+n : v[i] = IF i <= 2 THEN h[i] ELSE ls[i - 2]
    <3> HIDE DEF v
    <3> QED BY <1>2, <2>1
  <2>3. 1 \in 1..2+n /\ 2 \in 1..2+n /\ 1 <= 2
    BY <1>1
  <2>4. \A i \in 1..n : 2+i \in 1..2+n /\ ~(2+i <= 2) /\ (2+i) - 2 = i
    BY <1>1
  <2> HIDE DEF v
  <2> QED BY <2>1, <2>2, <2>3, <2>4
<1> HIDE DEF v
<1>5. /\ u \in Seq(U) /\ Len(u) = n + 3 /\ DOMAIN u = 1..n+3
      /\ u[1] = h[1] /\ u[2] = h[2] /\ u[n+3] = z /\ \A i \in 1..n : u[2+i] = ls[i]
  <2>1. u \in Seq(U) /\ Len(u) = Len(v) + 1 /\ u[Len(v)+1] = z /\ \A i \in 1..Len(v) : u[i] = v[i]
    BY <1>3, <1>4, AppendProperties
  <2>2. (2 + n) + 1 = n + 3 /\ 1 \in 1..2+n /\ 2 \in 1..2+n /\ \A i \in 1..n : 2+i \in 1..2+n
    BY <1>1
  <2> HIDE DEF u
  <2>3. Len(u) = n + 3 /\ u[n+3] = z
    BY <1>4, <2>1, <2>2
  <2>4. DOMAIN u = 1..n+3
    BY <2>1, <2>3, LenProperties
  <2> QED BY <1>4, <2>1, <2>2, <2>3, <2>4
<1>6. Framed(fn, ls) = u
  <2>1. <<z>> \in Seq(U) /\ v \o <<z>> = Append(v, z)
    BY <1>3, <1>4
  <2> QED BY <2>1 DEF Framed, v, h, z
<1> HIDE DEF u
<1>7. ASSUME NEW i \in 3..n+3 PROVE i = n + 3 \/ (i - 2 \in 1..n /\ u[i] = ls[i-2] /\ u[i] \in T)
  <2>1. CASE i # n + 3
    <3>1. i - 2 \in 1..n /\ 2 + (i - 2) = i
      BY <1>1, <2>1
    <3> QED BY <1>1, <1>5, <3>1
  <2> QED BY <2>1
<1>8. Starts(u, fn) = 2
  <2> DEFINE A == {i \in DOMAIN u : IsFn(u[i], fn)}
  <2>1. ASSUME NEW i \in 1..n+3 PROVE IsFn(u[i], fn) <=> i = 2
    <3>1. CASE i = 1
      BY <1>2, <1>5, <3>1 DEF IsFn
    <3>2. CASE i = 2
      BY <1>2, <1>5, <3>2 DEF IsFn
    <3>3. CASE i \in 3..n+3
      <4>1. ~IsFn(z, fn)
        BY <1>3 DEF IsFn
      <4>2. i # 2
        BY <3>3
      <4> QED BY <1>5, <1>7, <3>3, <4>1, <4>2
    <3>4. i = 1 \/ i = 2 \/ i \in 3..n+3
      BY <1>1
    <3> QED BY <3>1, <3>2, <3>3, <3>4
  <2>2. 2 \in 1..n+3
    BY <1>1
  <2>3. A = {2}
    BY <1>5, <2>1, <2>2
  <2>4. Starts(u, fn) = Least(A, Len(u) + 1)
    BY DEF Starts
  <2>5. Least({2}, Len(u) + 1) = 2
    BY DEF Least
  <2> HIDE DEF A
  <2> QED BY <2>3, <2>4, <2>5
<1> DEFINE ends == {i \in 2+1..Len(u) : u[i].k = "end"}
           e == Least(ends, Len(u) + 1)
           inside == SubSeq(u, 2 + 1, e - 1)
           S == {l \in Range(inside) : l.k # "mark" /\ ~IsFn(l, fn)}
<1>9. ends = {n+3}
  <2>1. 2+1..Len(u) = 3..n+3 /\ n + 3 \in 3..n+3
    BY <1>1, <1>5
  <2>2. ASSUME NEW i \in 3..n+3 PROVE u[i].k = "end" <=> i = n + 3
    BY <1>3, <1>5, <1>7, <2>2
  <2> QED BY <2>1, <2>2
<1>10. e = n + 3
  <2>1. \A x : n + 3 <= n + 3
    BY <1>1
  <2> HIDE DEF ends
  <2> QED BY <1>9, <2>1 DEF Least
<1>11. inside = ls
  <2>1. inside = SubSeq(u, 3, n + 2)
    <3>1. (n + 3) - 1 = n + 2 /\ 2 + 1 = 3
      BY <1>1
    <3> HIDE DEF e
    <3> QED BY <1>10, <3>1
  <2>2. SubSeq(u, 3, n + 2) = [j \in 1..n |-> u[2+j]]
    <3>1. SubSeq(u, 3, n + 2) = [j \in 1..((n+2) - 3 + 1) |-> u[3 + j - 1]]
      BY <1>1
    <3>2. (n+2) - 3 + 1 = n /\ \A j \in 1..n : 3 + j - 1 = 2 + j
      BY <1>1
    <3> HIDE DEF n
    <3> QED BY <3>1, <3>2
  <2>3. ls = [j \in 1..n |-> ls[j]]
    BY <1>1
  <2> HIDE DEF inside
  <2> QED BY <1>5, <2>1, <2>2, <2>3
<1>12. Body(u, fn) = Among(inside, S)
  BY <1>8 DEF Body
<1> HIDE DEF inside
<1>13. Range(ls) \subseteq S
  <2>1. Range(ls) \subseteq T
    BY RangeGrows
  <2> QED BY <1>11, <2>1
<1> HIDE DEF S
<1>14. Among(ls, S) = ls
  BY <1>13, AmongAll
<1>15. ~(Starts(u, fn) > Len(u))
  BY <1>1, <1>5, <1>8
<1> QED BY <1>6, <1>11, <1>12, <1>14, <1>15

-----------------------------------------------------------------------------
(* What is kept of a function, by the line.                                *)
LEMMA KeptIsKeptAll ==
  ASSUME NEW body \in Seq(BodyLines)
  PROVE  Kept(body) = KeptAll(body, Labels(body))
<1> DEFINE labels == Labels(body)
           K(l) == IF l.k = "label" THEN [l EXCEPT !.name = Slot(@, labels)]
                   ELSE [l EXCEPT !.args = [j \in DOMAIN @ |-> Known(@[j], labels)]]
<1>1. \A i \in DOMAIN body : body[i] \in BodyLines
  BY LenProperties, ElementOfSeq
<1>2. Kept(body) = [i \in DOMAIN body |-> K(body[i])]
  BY DEF Kept
<1>3. ASSUME NEW l \in BodyLines PROVE K(l) = KeptLine(l, labels)
  <2>1. CASE l.k = "label"
    <3> DEFINE n == l.name
    <3>1. l = [k |-> "label", name |-> n]
      BY <2>1, LineParts
    <3>2. K(l) = [l EXCEPT !.name = Slot(n, labels)]
      BY <2>1
    <3> HIDE DEF n, K, labels
    <3>3. [l EXCEPT !.name = Slot(n, labels)] = [k |-> "label", name |-> Slot(n, labels)]
      BY <3>1
    <3> QED BY <2>1, <3>2, <3>3 DEF KeptLine, n
  <2>2. CASE l.k = "insn"
    <3> DEFINE o == l.op
               a == l.args
    <3>1. l = [k |-> "insn", op |-> o, args |-> a]
      BY <2>2, LineParts
    <3>2. K(l) = [l EXCEPT !.args = KnownArgs(a, labels)]
      BY <2>2 DEF KnownArgs
    <3> HIDE DEF o, a, K, labels
    <3>3. [l EXCEPT !.args = KnownArgs(a, labels)] = [k |-> "insn", op |-> o, args |-> KnownArgs(a, labels)]
      BY <3>1
    <3> QED BY <2>2, <3>2, <3>3 DEF KeptLine, o, a
  <2> QED BY <2>1, <2>2, LineParts
<1> HIDE DEF K, labels
<1>4. [i \in DOMAIN body |-> K(body[i])] = [i \in DOMAIN body |-> KeptLine(body[i], labels)]
  BY <1>1, <1>3
<1> QED BY <1>2, <1>4 DEF KeptAll, labels

(* The text written for a function's tokens.                               *)
TokensOf(body, labels) == <<BOS>> \o Flat(body, labels) \o <<EOS>>
LEMMA TextWritten ==
  ASSUME NEW labels, Enough(labels), NEW body \in Seq(GoodLines(labels))
  PROVE  DetokenizeAsm(TokensOf(body, labels), Fn) = Framed(Fn, KeptAll(body, labels))
<1> DEFINE R == Ids \ {EOS}
           f == Flat(body, labels)
           s == <<BOS>> \o f
           o == Outs(body, labels)
           L(l) == IF l.k = "label" THEN l ELSE [k |-> "insn", op |-> l.op, args |-> Pieces(l.buf)]
<1>1. f \in Seq(R) /\ After(s) = Quiet(o)
  BY FlatRun DEF Runs
<1>2. s \in Seq(R)
  <2> DEFINE x == <<BOS>>
  <2>1. x \in Seq(R)
    BY IdKinds
  <2> HIDE DEF x, f, R
  <2>2. x \o f \in Seq(R)
    BY <1>1, <2>1, ConcatProperties
  <2> QED BY <2>2 DEF x
<1>3. Detokenized(TokensOf(body, labels)).out = o
  <2>1. UpToEos(s \o <<EOS>>) = s
    <3> HIDE DEF s
    <3> QED BY <1>2, UpToLast
  <2>2. Flush(Quiet(o)) = Quiet(o) /\ Quiet(o).out = o
    <3> HIDE DEF o
    <3> QED BY DEF Flush, Quiet
  <2>3. TokensOf(body, labels) = s \o <<EOS>>
    BY DEF TokensOf
  <2> HIDE DEF s, o
  <2> QED BY <1>1, <2>1, <2>2, <2>3 DEF Detokenized
<1>4. DetokenizeAsm(TokensOf(body, labels), Fn) = Framed(Fn, [i \in DOMAIN o |-> L(o[i])])
  <2> HIDE DEF o
  <2> QED BY <1>3 DEF DetokenizeAsm, Framed
<1>5. \A i \in DOMAIN body : body[i] \in GoodLines(labels)
  BY LenProperties, ElementOfSeq
<1>6. ASSUME NEW l \in GoodLines(labels) PROVE L(Wrote(l, labels)) = KeptLine(l, labels)
  <2>1. CASE l.k = "label"
    BY <2>1 DEF Wrote, KeptLine
  <2>2. CASE l.k # "label"
    <3>1. l.args \in Seq(GoodPieces(labels))
      BY <2>2 DEF GoodLines
    <3>2. ArgsRead(l.args, labels, labels)
      BY <3>1, ArgsSurvive
    <3>3. Pieces(Mapped(ArgTokens(l.args, labels), Meaning)) = KnownArgs(l.args, labels)
      BY <3>2 DEF ArgsRead
    <3> DEFINE b == Mapped(ArgTokens(l.args, labels), Meaning)
    <3>4. Wrote(l, labels) = [k |-> "insn", op |-> l.op, buf |-> b]
      BY <2>2 DEF Wrote
    <3> HIDE DEF b
    <3>5. L([k |-> "insn", op |-> l.op, buf |-> b]) = [k |-> "insn", op |-> l.op, args |-> Pieces(b)]
      OBVIOUS
    <3> QED BY <2>2, <3>3, <3>4, <3>5 DEF KeptLine, b
  <2> QED BY <2>1, <2>2
<1> HIDE DEF L
<1>7. [i \in DOMAIN o |-> L(o[i])] = KeptAll(body, labels)
  <2>1. DOMAIN o = DOMAIN body /\ \A i \in DOMAIN body : o[i] = Wrote(body[i], labels)
    BY DEF Outs
  <2> HIDE DEF o
  <2> QED BY <1>5, <1>6, <2>1 DEF KeptAll
<1> HIDE DEF o
<1> QED BY <1>4, <1>7

(* The lines that are read of it.                                          *)
LEMMA TextRead ==
  ASSUME NEW labels \in Seq(LabelSet), NEW body \in Seq(GoodLines(labels))
  PROVE  LET back == Framed(Fn, KeptAll(body, labels))
         IN  Body(back, Fn) = KeptAll(body, labels) /\ ~(Starts(back, Fn) > Len(back))
<1> DEFINE T == {KeptLine(l, labels) : l \in GoodLines(labels)}
           kept == KeptAll(body, labels)
<1>1. \A x \in LabelSet : Slot(x, labels) \in Nat
  <2> TAKE x \in LabelSet
  <2>1. Cardinality(Earlier(x, labels)) \in Nat
    BY EarlierFacts
  <2> QED BY <2>1 DEF Slot, Rank, Earlier, Prior
<1>2. ASSUME NEW l \in GoodLines(labels)
      PROVE  KeptLine(l, labels).k \in {"label", "insn"} /\ ~IsFn(KeptLine(l, labels), Fn)
  <2>1. CASE l.k = "label"
    <3>1. l.name \in LabelSet
      BY <2>1, LineParts DEF GoodLines
    <3>2. Slot(l.name, labels) # Fn
      BY <1>1, <3>1, VocabulariesAssumption
    <3>3. KeptLine(l, labels) = [k |-> "label", name |-> Slot(l.name, labels)]
      BY <2>1 DEF KeptLine
    <3> QED BY <3>2, <3>3 DEF IsFn
  <2>2. CASE l.k # "label"
    <3>1. KeptLine(l, labels).k = "insn"
      BY <2>2 DEF KeptLine
    <3> QED BY <3>1 DEF IsFn
  <2> QED BY <2>1, <2>2
<1>3. \A l \in T : l.k \in {"label", "insn"} /\ ~IsFn(l, Fn)
  BY <1>2
<1>4. kept \in Seq(T)
  <2>1. Len(body) \in Nat /\ DOMAIN body = 1..Len(body) /\ \A i \in DOMAIN body : body[i] \in GoodLines(labels)
    BY LenProperties, ElementOfSeq
  <2>2. kept \in [1..Len(body) -> T]
    BY <2>1 DEF KeptAll
  <2> HIDE DEF kept, T
  <2> QED BY <2>1, <2>2, FunctionIsSeq
<1> HIDE DEF kept, T
<1>5. /\ Body(Framed(Fn, kept), Fn) = kept
      /\ ~(Starts(Framed(Fn, kept), Fn) > Len(Framed(Fn, kept)))
  BY <1>3, <1>4, BodyFramed
<1> QED BY <1>5 DEF kept

(* The lines kept become the function's tokens again.                      *)
LEMMA FlatAgain ==
  ASSUME NEW labels, Enough(labels), NEW body \in Seq(GoodLines(labels)), labels = Labels(body)
  PROVE  LET kept == KeptAll(body, labels)
         IN  Flat(kept, Labels(kept)) = Mapped(Flat(body, labels), Meaning)
<1> DEFINE A == GoodLines(labels)
           R == Ids \ {EOS}
           kept == KeptAll(body, labels)
           again == Labels(kept)
           ss == [i \in DOMAIN body |-> LineTokens(body[i], labels)]
<1>1. SameSlots(labels, again)
  <2>1. labels \in Seq(LabelSet)
    BY DEF Enough
  <2> QED BY <2>1, LabelsKept DEF KeptAll
<1>2. Len(body) \in Nat /\ DOMAIN body = 1..Len(body) /\ \A i \in DOMAIN body : body[i] \in A
  BY LenProperties, ElementOfSeq
<1> HIDE DEF again
<1>3. ASSUME NEW l \in A
      PROVE  LineTokens(l, labels) \in Seq(R) /\ LineTokens(KeptLine(l, labels), again) = Mapped(LineTokens(l, labels), Meaning)
  <2>1. LineSurvives(l, labels, again)
    BY LineSurvive
  <2> QED BY <1>1, <2>1 DEF LineSurvives
<1> HIDE DEF A
<1>4. ss \in Seq(Seq(Ids)) /\ DOMAIN ss = DOMAIN body
  <2>1. \A i \in DOMAIN body : LineTokens(body[i], labels) \in Seq(Ids)
    <3>1. \A t \in Seq(R) : t \in Seq(Ids)
      OBVIOUS
    <3> HIDE DEF R
    <3> QED BY <1>2, <1>3, <3>1
  <2>2. ss \in [1..Len(body) -> Seq(Ids)]
    BY <1>2, <2>1
  <2>3. DOMAIN ss = DOMAIN body
    OBVIOUS
  <2> HIDE DEF ss
  <2> QED BY <1>2, <2>2, <2>3, FunctionIsSeq
<1>5. DOMAIN kept = DOMAIN body /\ \A i \in DOMAIN body : LineTokens(kept[i], again) = Mapped(ss[i], Meaning)
  <2>1. DOMAIN kept = DOMAIN body /\ \A i \in DOMAIN body : kept[i] = KeptLine(body[i], labels)
    BY DEF KeptAll
  <2>2. \A i \in DOMAIN body : ss[i] = LineTokens(body[i], labels)
    OBVIOUS
  <2> HIDE DEF kept, ss
  <2> QED BY <1>2, <1>3, <2>1, <2>2
<1>6. Flat(kept, again) = FlattenSeq([i \in DOMAIN ss |-> Mapped(ss[i], Meaning)])
  <2> HIDE DEF kept, ss
  <2> QED BY <1>4, <1>5 DEF Flat
<1>7. Flat(body, labels) = FlattenSeq(ss)
  BY DEF Flat
<1>8. ImageJoined(ss, Meaning)
  <2> DEFINE T == {Meaning[t] : t \in Ids}
  <2>1. Meaning \in [Ids -> T]
    BY DEF Meaning
  <2> HIDE DEF ss, T
  <2> QED BY <1>4, <2>1, FlattenMapped
<1> HIDE DEF kept, ss
<1>9. Flat(kept, again) = Mapped(Flat(body, labels), Meaning)
  BY <1>6, <1>7, <1>8 DEF ImageJoined
<1> QED BY <1>9 DEF again, kept

(* So does the text around them.                                           *)
LEMMA TokensAgain ==
  ASSUME NEW labels, Enough(labels), NEW body \in Seq(GoodLines(labels)), labels = Labels(body)
  PROVE  /\ TokenizeAsm(Framed(Fn, KeptAll(body, labels)), Fn) = Mapped(TokensOf(body, labels), Meaning)
         /\ TokensOf(body, labels) \in Seq(Ids)
<1> DEFINE kept == KeptAll(body, labels)
           back == Framed(Fn, kept)
           f == Flat(body, labels)
           T == {Meaning[t] : t \in Ids}
           x == <<BOS>>
           z == <<EOS>>
<1>1. Body(back, Fn) = kept /\ ~(Starts(back, Fn) > Len(back))
  <2>1. labels \in Seq(LabelSet)
    BY DEF Enough
  <2> QED BY <2>1, TextRead
<1>2. Flat(kept, Labels(kept)) = Mapped(f, Meaning)
  BY FlatAgain
<1>3. TokenizeAsm(back, Fn) = x \o Mapped(f, Meaning) \o z
  <2> HIDE DEF kept, back, f
  <2> QED BY <1>1, <1>2 DEF TokenizeAsm, Flat
<1>4. Meaning \in [Ids -> T]
  BY DEF Meaning
<1>5. f \in Seq(Ids)
  <2>1. f \in Seq(Ids \ {EOS})
    BY FlatRun DEF Runs
  <2> HIDE DEF f
  <2> QED BY <2>1
<1>6. x \in Seq(Ids) /\ z \in Seq(Ids) /\ Mapped(x, Meaning) = x /\ Mapped(z, Meaning) = z
  <2>1. BOS \in Ids /\ EOS \in Ids /\ Meaning[BOS] = BOS /\ Meaning[EOS] = EOS
    BY IdKinds
  <2>2. Mapped(x, Meaning) = <<Meaning[BOS]>> /\ Mapped(z, Meaning) = <<Meaning[EOS]>>
    BY DEF Mapped
  <2> QED BY <2>1, <2>2
<1>7. TokensOf(body, labels) = (x \o f) \o z
  BY DEF TokensOf
<1> HIDE DEF x, z, f, T, back
<1>8. x \o f \in Seq(Ids) /\ JoinedImages(x, f, Meaning)
  BY <1>4, <1>5, <1>6, MappedConcat, ConcatProperties
<1> DEFINE y == x \o f
<1>9. y \o z \in Seq(Ids) /\ JoinedImages(y, z, Meaning)
  <2>1. y \in Seq(Ids)
    BY <1>8
  <2> HIDE DEF y
  <2> QED BY <1>4, <1>6, <2>1, MappedConcat, ConcatProperties
<1>10. Mapped(y, Meaning) = x \o Mapped(f, Meaning)
  BY <1>6, <1>8 DEF JoinedImages
<1> HIDE DEF y
<1>11. Mapped(y \o z, Meaning) = (x \o Mapped(f, Meaning)) \o z
  BY <1>6, <1>9, <1>10 DEF JoinedImages
<1>12. TokensOf(body, labels) = y \o z
  BY <1>7 DEF y
<1> QED BY <1>3, <1>9, <1>11, <1>12 DEF back

-----------------------------------------------------------------------------
(* The invariant: the text consists of lines.                              *)
TextInv == text \in Seq(Lines)
LEMMA TextInvariance == VocabulariesSpec => []TextInv
<1>1. VocabulariesInit => TextInv
  <2>1. <<>> \in Seq(Lines)
    BY EmptySeq
  <2> QED BY <2>1 DEF VocabulariesInit, TextInv
<1>2. TextInv /\ [VocabulariesNext]_vvars => TextInv'
  <2> SUFFICES ASSUME TextInv, [VocabulariesNext]_vvars PROVE TextInv'
    OBVIOUS
  <2>1. CASE AddLine
    <3>1. PICK l \in Lines : text' = Append(text, l)
      BY <2>1 DEF AddLine
    <3> QED BY <3>1, AppendProperties DEF TextInv
  <2>2. CASE UNCHANGED text
    BY <2>2 DEF TextInv
  <2> QED BY <2>1, <2>2 DEF VocabulariesNext, NextConst, AddToken, vvars
<1> QED BY <1>1, <1>2, PTL DEF VocabulariesSpec

(* Whatever function is tokenized, the text detokenize_asm writes for its  *)
(* tokens is that function line by line and has the same tokens again, as  *)
(* long as there are slots for its labels.                                 *)
THEOREM FunctionsRoundTrip == VocabulariesSpec => []AsmRoundTrip
<1>1. TextInv => AsmRoundTrip
  <2> DEFINE tokens == TokenizeAsm(text, Fn)
             back == DetokenizeAsm(tokens, Fn)
             body == Body(text, Fn)
             labels == Labels(body)
             f == Flat(body, labels)
  <2> SUFFICES ASSUME TextInv, Failed \notin ToSet(tokens), Cardinality(ToSet(labels)) <= LabelMax
               PROVE  /\ Body(back, Fn) = Kept(body)
                      /\ TokenizeAsm(back, Fn) = [i \in DOMAIN tokens |-> IF tokens[i] = OOV THEN imm(0) ELSE tokens[i]]
    BY DEF AsmRoundTrip
  <2>1. Failed \notin Range(tokens) /\ Cardinality(Range(labels)) <= LabelMax
    <3>1. \A s : ToSet(s) = Range(s)
      BY DEF ToSet, Range
    <3> HIDE DEF tokens, labels
    <3> QED BY <3>1
  <2>2. ~(Starts(text, Fn) > Len(text))
    <3>1. ASSUME Starts(text, Fn) > Len(text) PROVE FALSE
      <4>1. tokens = <<Failed>>
        BY <3>1 DEF TokenizeAsm
      <4>2. Failed \in Range(<<Failed>>)
        BY DEF Range
      <4> HIDE DEF tokens
      <4> QED BY <2>1, <4>1, <4>2
    <3> QED BY <3>1
  <2>3. tokens = TokensOf(body, labels)
    BY <2>2 DEF TokenizeAsm, TokensOf, Flat
  <2>4. body \in Seq(BodyLines)
    <3> DEFINE n == Len(text)
               A == {i \in DOMAIN text : IsFn(text[i], Fn)}
    <3>1. n \in Nat /\ A \in SUBSET (1..n) /\ Starts(text, Fn) = Least(A, n + 1)
      BY LenProperties DEF TextInv, Starts
    <3>2. Least(A, n + 1) \in 1..n+1
      <4> HIDE DEF A, n
      <4> QED BY <3>1, LeastFacts
    <3>3. Starts(text, Fn) <= n
      <4> HIDE DEF A, n
      <4>1. Starts(text, Fn) \in 1..n+1
        BY <3>1, <3>2
      <4>2. ~(Starts(text, Fn) > n)
        BY <2>2 DEF n
      <4> QED BY <3>1, <4>1, <4>2
    <3> HIDE DEF A
    <3> QED BY <3>3, BodyTypes DEF TextInv
  <2> HIDE DEF tokens, body
  <2>5. labels \in Seq(LabelSet) /\ f \in Seq(Raw) /\ (Failed \notin Range(f) => body \in Seq(GoodLines(labels)))
    BY <2>4, BodyGood
  <2>6. Failed \notin Range(f)
    <3> DEFINE x == <<BOS>>
               y == x \o f
               z == <<EOS>>
    <3>1. x \in Seq(Raw) /\ z \in Seq(Raw)
      BY IdKinds DEF Raw
    <3>2. tokens = y \o z
      BY <2>3 DEF TokensOf
    <3> HIDE DEF x, z, f
    <3>3. y \in Seq(Raw) /\ Range(y) = Range(x) \cup Range(f)
      BY <2>5, <3>1, ConcatProperties, RangeGrows
    <3> HIDE DEF y
    <3>4. Range(y \o z) = Range(y) \cup Range(z)
      BY <3>1, <3>3, RangeGrows
    <3> QED BY <2>1, <3>2, <3>3, <3>4
  <2>7. Enough(labels) /\ body \in Seq(GoodLines(labels))
    BY <2>1, <2>5, <2>6 DEF Enough
  <2>8. back = Framed(Fn, KeptAll(body, labels))
    <3> HIDE DEF labels
    <3> QED BY <2>3, <2>7, TextWritten
  <2>9. Body(back, Fn) = KeptAll(body, labels)
    <3> HIDE DEF labels, back
    <3> QED BY <2>5, <2>7, <2>8, TextRead
  <2>10. TokenizeAsm(back, Fn) = Mapped(tokens, Meaning) /\ tokens \in Seq(Ids)
    <3>1. labels = Labels(body)
      OBVIOUS
    <3> HIDE DEF labels, back
    <3> QED BY <2>3, <2>7, <2>8, <3>1, TokensAgain
  <2>11. Mapped(tokens, Meaning) = [i \in DOMAIN tokens |-> IF tokens[i] = OOV THEN imm(0) ELSE tokens[i]]
    <3>1. \A i \in DOMAIN tokens : tokens[i] \in Ids
      BY <2>10, LenProperties, ElementOfSeq
    <3> QED BY <3>1 DEF Mapped, Meaning
  <2>12. Kept(body) = KeptAll(body, labels)
    BY <2>4, KeptIsKeptAll
  <2> HIDE DEF back
  <2> QED BY <2>9, <2>10, <2>11, <2>12
<1> QED BY <1>1, TextInvariance, PTL
=============================================================================
