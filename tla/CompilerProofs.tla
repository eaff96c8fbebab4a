---------------------------- MODULE CompilerProofs ----------------------------
(***************************************************************************)
(* Theorems about the compiler, in three parts.  The first is about        *)
(* lower() alone, for every set of well-formed graphs, every pool and      *)
(* every list of argument registers: what its register map and its text    *)
(* satisfy.  The second adds the machine, for every pair of widths and     *)
(* every table of operations on which the target agrees with the           *)
(* interpreter: the emitted function returns the value the interpreter     *)
(* gives.  The third is that the code's tables are such.                   *)
(***************************************************************************)
EXTENDS LowerAndRun, OpTables, OrderProofs

-----------------------------------------------------------------------------
(* Facts about the operators the model is built from.                      *)

(* Sign extension, constants and the bit operations stay within registers. *)
LEMMA WordTypes ==
  /\ ZeroWord \in Word /\ ZeroXWord \in XWord /\ OnesXWord \in XWord
  /\ \A w \in Word : Sext(w) \in XWord
  /\ \A x \in XWord : Low(x) \in Word
  BY WidthAssumption DEF ZeroWord, ZeroXWord, OnesXWord, Word, XWord, Bit, Sext, Low

(* Every kind of line the lowering can build is a Line.                    *)
LEMMA BlankType == NoLabel \in LabelName /\ ZeroXWord \in XWord
  BY WordTypes DEF NoLabel, Label, LabelName

LEMMA InsnType ==
  ASSUME NEW op \in Opcodes, NEW rd \in Reg \cup {NoReg}, NEW src \in Seq(Reg)
  PROVE  /\ Insn(op, rd, src) \in Line
         /\ Insn(op, rd, src).rd = rd /\ Insn(op, rd, src).src = src
  BY BlankType DEF Insn, Line

LEMMA InsnImmType ==
  ASSUME NEW op \in Opcodes, NEW rd \in Reg \cup {NoReg}, NEW src \in Seq(Reg),
         NEW imm \in XWord
  PROVE  /\ InsnImm(op, rd, src, imm) \in Line
         /\ InsnImm(op, rd, src, imm).rd = rd /\ InsnImm(op, rd, src, imm).src = src
  BY BlankType DEF InsnImm, Insn, Line

LEMMA InsnLblType ==
  ASSUME NEW op \in Opcodes, NEW src \in Seq(Reg), NEW lbl \in LabelName
  PROVE  /\ InsnLbl(op, src, lbl) \in Line
         /\ InsnLbl(op, src, lbl).rd = NoReg /\ InsnLbl(op, src, lbl).src = src
  BY BlankType DEF InsnLbl, Insn, Line

(* A node of a well-formed graph: its operands are as many as its          *)
(* operation takes, and point at earlier references.                       *)
LEMMA NodeFacts ==
  ASSUME NEW g, WellFormed(g), NEW k \in 0..NSteps(g)-1
  PROVE  /\ NSteps(g) \in Nat \ {0} /\ g.n_in \in Nat
         /\ Node(g, k) \in GraphNode
         /\ Len(Node(g, k).operands) = ARITY[Node(g, k).op]
         /\ \A i \in 1..Len(Node(g, k).operands) : Node(g, k).operands[i] \in 0..g.n_in+k-1
         /\ Node(g, k).op = "return" <=> k = NSteps(g) - 1
<1>1. g.n_in \in Nat /\ g.nodes \in Seq(GraphNode) /\ NSteps(g) > 0
  BY DEF WellFormed, Graph
<1>2. NSteps(g) \in Nat
  BY <1>1, LenProperties DEF NSteps
<1>3. k + 1 \in 1..Len(g.nodes)
  BY <1>1, <1>2 DEF NSteps
<1>4. Node(g, k) \in GraphNode
  BY <1>1, <1>3, ElementOfSeq DEF Node
<1>5. Node(g, k).operands \in Seq(Nat)
  BY <1>4 DEF GraphNode
<1>6. \A i \in 1..Len(Node(g, k).operands) : Node(g, k).operands[i] \in Nat
  BY <1>5, ElementOfSeq
<1>7. /\ Len(Node(g, k).operands) = ARITY[Node(g, k).op]
      /\ \A i \in 1..Len(Node(g, k).operands) : Node(g, k).operands[i] < g.n_in + k
      /\ Node(g, k).op = "return" <=> k = NSteps(g) - 1
  BY DEF WellFormed
<1>8. \A i \in 1..Len(Node(g, k).operands) : Node(g, k).operands[i] \in 0..g.n_in+k-1
  BY <1>1, <1>6, <1>7
<1> QED BY <1>1, <1>2, <1>4, <1>7, <1>8

LEMMA Arities ==
  /\ \A op \in ArithOps \cup BitOps : ARITY[op] = 2
  /\ \A op \in UnOps \cup {"return"} : ARITY[op] = 1
  /\ ARITY["select"] = 3 /\ ARITY["const"] = 0
<1>1. \A op \in ArithOps \cup BitOps : ARITY[op] = 2
  BY DEF ARITY, NodeOps, ArithOps, BitOps, UnOps
<1>2. \A op \in UnOps \cup {"return"} : ARITY[op] = 1
  BY DEF ARITY, NodeOps, ArithOps, BitOps, UnOps
<1>3. ARITY["select"] = 3 /\ ARITY["const"] = 0
  BY DEF ARITY, NodeOps, ArithOps, BitOps, UnOps
<1> QED BY <1>1, <1>2, <1>3

(* The block emitted for a node: its lines, the one register it writes,    *)
(* and the registers it reads its operands from.                           *)
BlockFor(b, node, m, rd) ==
  /\ b \in Seq(Line)
  /\ \A l \in 1..Len(b) : b[l].rd \in {rd, NoReg}
  /\ \E l \in 1..Len(b) : b[l].rd = rd
  /\ \A i \in 1..Len(node.operands) : BlockSource(node.op, b, i) = m[node.operands[i]]
  /\ Len(b) > 0 /\ (IF Len(b) = 1 THEN b[1].rd ELSE b[2].rd) = rd

LEMMA EmitNodeFacts ==
  ASSUME NEW node \in GraphNode, node.op # "return",
         Len(node.operands) = ARITY[node.op],
         NEW m, \A i \in 1..Len(node.operands) : m[node.operands[i]] \in Reg,
         NEW rd \in Reg, NEW n \in Nat,
         NEW b, b = EmitNode(node, m, rd, n)
  PROVE  BlockFor(b, node, m, rd)
<1> DEFINE r == [i \in 1..Len(node.operands) |-> m[node.operands[i]]]
<1>1. node.op \in NodeOps /\ node.operands \in Seq(Nat) /\ node.val \in Word
  BY DEF GraphNode
<1>2. Len(node.operands) \in Nat
  BY <1>1, LenProperties
<1>3. r \in Seq(Reg) /\ Len(r) = Len(node.operands)
  BY <1>2, FunctionIsSeq
<1>4. \A i \in 1..Len(node.operands) : r[i] = m[node.operands[i]] /\ r[i] \in Reg
  OBVIOUS
<1>5. <<>> \in Seq(Reg) /\ \A x \in Reg : <<x>> \in Seq(Reg)
  OBVIOUS
<1> HIDE DEF r
<1>0. /\ "li" \in Opcodes /\ "negw" \in Opcodes /\ "xori" \in Opcodes /\ "mv" \in Opcodes
      /\ "beqz" \in Opcodes /\ "j" \in Opcodes /\ "label" \in Opcodes
      /\ rd \in Reg \cup {NoReg}
  BY DEF Opcodes
<1>6. ASSUME NEW line \in Line, b = <<line>>, line.rd = rd,
             node.op # "select",
             \A i \in 1..Len(node.operands) : line.src[i] = r[i]
      PROVE  BlockFor(b, node, m, rd)
  <2>1. b \in Seq(Line) /\ Len(b) = 1 /\ b[1] = line
    BY <1>6
  <2>2. \A i \in 1..Len(node.operands) : BlockSource(node.op, b, i) = r[i]
    BY <2>1, <1>6 DEF BlockSource
  <2> QED BY <2>1, <2>2, <1>4, <1>6 DEF BlockFor
<1>7. CASE node.op = "const"
  <2>1. Len(node.operands) = 0
    BY <1>7, Arities
  <2> DEFINE s0 == <<>>
             imm == SignedLiteral(node.val)
             line == InsnImm("li", rd, s0, imm)
  <2>2. b = <<line>>
    BY <1>7 DEF EmitNode, ArithOps, BitOps
  <2>3. s0 \in Seq(Reg) /\ imm \in XWord
    BY <1>1, WordTypes DEF SignedLiteral
  <2> HIDE DEF s0, imm
  <2>4. line \in Line /\ line.rd = rd
    BY <2>3, <1>0, InsnImmType
  <2> HIDE DEF line
  <2> QED BY <2>1, <2>2, <2>4, <1>6, <1>7
<1>8. CASE node.op \in ArithOps \cup BitOps
  <2> DEFINE line == Insn(Mnemonic[node.op], rd, r)
  <2>1. b = <<line>>
    BY <1>8 DEF EmitNode, ArithOps, BitOps, r
  <2>2. Mnemonic[node.op] \in Opcodes
    BY <1>8 DEF Opcodes
  <2>3. line \in Line /\ line.rd = rd /\ line.src = r
    BY <2>2, <1>3, InsnType, InsnImmType, InsnLblType
  <2>4. node.op # "select"
    BY <1>8 DEF ArithOps, BitOps
  <2> HIDE DEF line
  <2> QED BY <2>1, <2>3, <2>4, <1>6
<1>9. CASE node.op = "neg"
  <2> DEFINE line == Insn("negw", rd, r)
  <2>1. b = <<line>>
    BY <1>9 DEF EmitNode, ArithOps, BitOps, r
  <2>2. line \in Line /\ line.rd = rd /\ line.src = r
    BY <1>3, <1>0, InsnType, InsnImmType, InsnLblType
  <2> HIDE DEF line
  <2> QED BY <2>1, <2>2, <1>6, <1>9
<1>10. CASE node.op = "not"
  <2> DEFINE line == InsnImm("xori", rd, r, OnesXWord)
  <2>1. b = <<line>>
    BY <1>10 DEF EmitNode, ArithOps, BitOps, r
  <2>2. line \in Line /\ line.rd = rd /\ line.src = r
    BY <1>3, InsnType, InsnImmType, InsnLblType, <1>0, WordTypes
  <2> HIDE DEF line
  <2> QED BY <2>1, <2>2, <1>6, <1>10
<1>11. CASE node.op = "select"
  <2> DEFINE e == Label("sel_else", n)
             d == Label("sel_end", n + 1)
             s0 == <<>>
             s1 == <<r[1]>>
             s2 == <<r[2]>>
             s3 == <<r[3]>>
             l1 == InsnLbl("beqz", s1, e)
             l2 == Insn("mv", rd, s2)
             l3 == InsnLbl("j", s0, d)
             l4 == InsnLbl("label", s0, e)
             l5 == Insn("mv", rd, s3)
             l6 == InsnLbl("label", s0, d)
  <2>1. Len(node.operands) = 3
    BY <1>11, Arities
  <2>2. b = <<l1, l2, l3, l4, l5, l6>>
    BY <1>11 DEF EmitNode, SelectBlock, ArithOps, BitOps, r
  <2>3. e \in LabelName /\ d \in LabelName
    BY DEF Label, LabelName
  <2>4. /\ s0 \in Seq(Reg) /\ s1 \in Seq(Reg) /\ s2 \in Seq(Reg) /\ s3 \in Seq(Reg)
        /\ s1[1] = r[1] /\ s2[1] = r[2] /\ s3[1] = r[3]
    BY <2>1, <1>4, <1>5
  <2> HIDE DEF e, d, s0, s1, s2, s3
  <2>5. l1 \in Line /\ l1.rd = NoReg /\ l1.src = s1
    BY <2>3, <2>4, <1>0, InsnType, InsnImmType, InsnLblType
  <2>6. l2 \in Line /\ l2.rd = rd /\ l2.src = s2
    BY <2>4, <1>0, InsnType, InsnImmType, InsnLblType
  <2>7. l5 \in Line /\ l5.rd = rd /\ l5.src = s3
    BY <2>4, <1>0, InsnType, InsnImmType, InsnLblType
  <2>8. l3 \in Line /\ l3.rd = NoReg /\ l4 \in Line /\ l4.rd = NoReg /\ l6 \in Line /\ l6.rd = NoReg
    BY <2>3, <2>4, <1>0, InsnType, InsnImmType, InsnLblType
  <2> HIDE DEF l1, l2, l3, l4, l5, l6
  <2>9. b \in Seq(Line) /\ Len(b) = 6
    BY <2>2, <2>5, <2>6, <2>7, <2>8
  <2>10. b[1] = l1 /\ b[2] = l2 /\ b[3] = l3 /\ b[4] = l4 /\ b[5] = l5 /\ b[6] = l6
    BY <2>2
  <2>11. \A l \in 1..6 : b[l].rd \in {rd, NoReg}
    BY <2>10, <2>5, <2>6, <2>7, <2>8
  <2>12. \A i \in 1..3 : BlockSource(node.op, b, i) = r[i]
    BY <1>11, <2>4, <2>10, <2>5, <2>6, <2>7 DEF BlockSource
  <2> QED BY <2>1, <2>6, <2>9, <2>10, <2>11, <2>12, <1>4 DEF BlockFor
<1> QED BY <1>1, <1>7, <1>8, <1>9, <1>10, <1>11 DEF NodeOps, UnOps

(* The lines for RETURN: the result is read from src and only a0 written.  *)
LEMMA EmitReturnFacts ==
  ASSUME NEW src \in Reg, NEW b, b = EmitReturn(src)
  PROVE  b \in Seq(Line) /\ BlockSource("return", b, 1) = src
<1> DEFINE a0 == ArgReg[1]
           s0 == <<>>
           s1 == <<src>>
           l1 == Insn("mv", a0, s1)
           l2 == Insn("ret", NoReg, s0)
<1>1. a0 \in Reg /\ s0 \in Seq(Reg) /\ s1 \in Seq(Reg) /\ s1[1] = src
  BY RegAssumption, ElementOfSeq, LenProperties
<1>2. b = IF src # a0 THEN <<l1, l2>> ELSE <<l2>>
  BY DEF EmitReturn
<1>3. "mv" \in Opcodes /\ "ret" \in Opcodes
  BY DEF Opcodes
<1> HIDE DEF a0, s0, s1
<1>4. l1 \in Line /\ l1.src = s1 /\ l2 \in Line
  <2>1. a0 \in Reg \cup {NoReg} /\ NoReg \in Reg \cup {NoReg}
    BY <1>1
  <2>2. l1 \in Line /\ l1.src = s1
    BY <2>1, <1>1, <1>3, InsnType
  <2>3. l2 \in Line
    BY <2>1, <1>1, <1>3, InsnType
  <2> QED BY <2>2, <2>3
<1>5. BlockSource("return", b, 1) = IF Len(b) = 1 THEN a0 ELSE b[1].src[1]
  BY DEF BlockSource, a0
<1> HIDE DEF l1, l2
<1>6. CASE src # a0
  <2>1. b = <<l1, l2>>
    BY <1>2, <1>6
  <2>2. b \in Seq(Line) /\ Len(b) = 2 /\ b[1] = l1
    BY <2>1, <1>4
  <2> QED BY <2>2, <1>1, <1>4, <1>5
<1>7. CASE src = a0
  <2>1. b = <<l2>>
    BY <1>2, <1>7
  <2>2. b \in Seq(Line) /\ Len(b) = 1
    BY <2>1, <1>4
  <2> QED BY <2>2, <1>5, <1>7
<1> QED BY <1>6, <1>7

(* A register held in front of block k stays held when a block is appended *)
(* at or after k; and a value survives a block that does not write its     *)
(* register.                                                               *)
LEMMA HoldsAppend ==
  ASSUME NEW code \in Seq(Seq(Line)), NEW b, NEW n \in Nat, NEW r,
         NEW k \in 0..Len(code), NEW ref \in 0..n+k-1
  PROVE  /\ Holds(Append(code, b), n, r, ref, k) <=> Holds(code, n, r, ref, k)
         /\ Holds(code, n, r, ref, k) /\ k = Len(code) /\ (\A l \in 1..Len(b) : b[l].rd # r)
              => Holds(Append(code, b), n, r, ref, k + 1)
<1> DEFINE c == Append(code, b)
           len == Len(code)
<1>1. len \in Nat /\ k \in Nat /\ k <= len /\ ref \in Nat /\ n \in Nat
  BY LenProperties
<1>2. (\A j \in 1..len : c[j] = code[j]) /\ c[len + 1] = b
  BY AppendProperties
<1> HIDE DEF c, len
<1>3. \A j \in 0..len-1 : Writes(c, j, r) <=> Writes(code, j, r)
  <2> SUFFICES ASSUME NEW j \in 0..len-1 PROVE c[j + 1] = code[j + 1]
    BY DEF Writes
  <2>1. j + 1 \in 1..len
    BY <1>1
  <2> QED BY <2>1, <1>2
<1>4. (\A j \in 0..k-1 : j \in 0..len-1) /\ (ref >= n => ref - n \in 0..k-1)
  BY <1>1
<1>5. \A j \in ref-n+1..k-1 : ref >= n => j \in 0..len-1
  BY <1>1
<1>6. Holds(c, n, r, ref, k) <=> Holds(code, n, r, ref, k)
  BY <1>1, <1>3, <1>4, <1>5 DEF Holds
<1>7. ASSUME Holds(code, n, r, ref, k), k = len, \A l \in 1..Len(b) : b[l].rd # r
      PROVE  Holds(c, n, r, ref, k + 1)
  <2>1. ~Writes(c, k, r)
    BY <1>2, <1>7 DEF Writes
  <2>2. Holds(c, n, r, ref, k)
    BY <1>6, <1>7
  <2>3. CASE ref < n
    <3>1. \A j \in 0..k : j \in 0..k-1 \/ j = k
      BY <1>1
    <3>2. \A j \in 0..(k + 1)-1 : j \in 0..k
      BY <1>1
    <3> QED BY <2>1, <2>2, <2>3, <3>1, <3>2 DEF Holds
  <2>4. CASE ~(ref < n)
    <3>1. \A j \in ref-n+1..k : j \in ref-n+1..k-1 \/ j = k
      BY <1>1
    <3>2. \A j \in ref-n+1..(k + 1)-1 : j \in ref-n+1..k
      BY <1>1
    <3> QED BY <2>1, <2>2, <2>4, <3>1, <3>2 DEF Holds
  <2> QED BY <2>3, <2>4
<1> QED BY <1>6, <1>7 DEF c, len

-----------------------------------------------------------------------------
(* free_dead: the registers of dead references go to the end of the free   *)
(* list, and a mapped register is still on one side only.                  *)
LEMMA AfterFree ==
  ASSUME TypeOK, NoAlias
  PROVE  /\ FreeAfterFree \in Seq(Reg) /\ IsInjective(FreeAfterFree)
         /\ Range(FreeAfterFree) = Range(free_regs) \cup {ref_to_reg[r] : r \in Dead}
         /\ DOMAIN MapAfterFree = DOMAIN ref_to_reg \ Dead
         /\ \A r \in DOMAIN MapAfterFree :
              MapAfterFree[r] = ref_to_reg[r] /\ MapAfterFree[r] \in Reg
         /\ IsInjective(MapAfterFree)
         /\ Range(MapAfterFree) \cap Range(FreeAfterFree) = {}
<1> DEFINE m == ref_to_reg
<1>1. DOMAIN m \subseteq 0..graph.n_in+step-1 /\ graph.n_in \in Nat /\ step \in Nat
  BY DEF TypeOK, WellFormed, Graph
<1>2. /\ \A r \in DOMAIN m : m[r] \in Reg
      /\ free_regs \in Seq(Reg)
  BY DEF TypeOK
<1>3. /\ \A q, r \in DOMAIN m : m[q] = m[r] => q = r
      /\ \A r \in DOMAIN m : m[r] \notin Range(free_regs)
  BY DEF NoAlias, IsInjective, Range
<1>4. Dead \subseteq DOMAIN m
  BY DEF Dead
<1>5. Released = Dead
  <2> SUFFICES ASSUME NEW r \in Dead
               PROVE  m[r] \notin Range(free_regs) /\ \A q \in Dead : q < r => m[q] # m[r]
    BY DEF Released
  <2>1. m[r] \notin Range(free_regs)
    BY <1>3, <1>4
  <2>2. ASSUME NEW q \in Dead, q < r, m[q] = m[r] PROVE FALSE
    <3>1. q = r
      BY <2>2, <1>3, <1>4
    <3>2. r \in Nat
      BY <1>1, <1>4
    <3> QED BY <3>1, <3>2, <2>2
  <2> QED BY <2>1, <2>2
<1>6. IsFiniteSet(Dead) /\ Dead \subseteq Nat
  <2>1. Dead \subseteq 0..graph.n_in+step-1 /\ graph.n_in+step-1 \in Int
    BY <1>1, <1>4
  <2>2. IsFiniteSet(0..graph.n_in+step-1)
    BY <2>1, FS_Interval
  <2>3. IsFiniteSet(Dead)
    BY <2>1, <2>2, FS_Subset
  <2>4. \A r \in 0..graph.n_in+step-1 : r \in Nat
    OBVIOUS
  <2> QED BY <2>1, <2>3, <2>4
<1> DEFINE L == InOrder(Dead, m)
<1>7. L \in Seq(Reg) /\ IsInjective(L) /\ Range(L) = {m[r] : r \in Dead}
  <2>1. (\A r \in Dead : m[r] \in Reg) /\ (\A q, r \in Dead : m[q] = m[r] => q = r)
    BY <1>2, <1>3, <1>4
  <2> HIDE DEF m
  <2>2. ListsImages(L, Dead, m, Reg)
    BY <2>1, <1>6, InOrderFacts
  <2> HIDE DEF L
  <2> QED BY <2>2 DEF ListsImages
<1>8. FreeAfterFree = free_regs \o L
  BY <1>5 DEF FreeAfterFree
<1>9. IsInjective(free_regs) /\ Range(free_regs) \cap Range(L) = {}
  BY <1>3, <1>4, <1>7 DEF NoAlias
<1>10. /\ FreeAfterFree \in Seq(Reg) /\ IsInjective(FreeAfterFree)
       /\ Range(FreeAfterFree) = Range(free_regs) \cup Range(L)
  <2> HIDE DEF L
  <2> QED BY <1>2, <1>7, <1>8, <1>9, ConcatFacts
<1>11. /\ DOMAIN MapAfterFree = DOMAIN m \ Dead
       /\ \A r \in DOMAIN MapAfterFree : MapAfterFree[r] = m[r] /\ m[r] \in Reg
  BY <1>2 DEF MapAfterFree
<1>12. IsInjective(MapAfterFree)
  BY <1>3, <1>11 DEF IsInjective
<1>13. Range(MapAfterFree) \cap Range(FreeAfterFree) = {}
  <2> SUFFICES ASSUME NEW r \in DOMAIN MapAfterFree PROVE m[r] \notin Range(FreeAfterFree)
    BY <1>11 DEF Range
  <2>1. r \in DOMAIN m /\ r \notin Dead
    BY <1>11
  <2>2. m[r] \notin Range(free_regs)
    BY <2>1, <1>3
  <2>3. m[r] \notin Range(L)
    BY <2>1, <1>3, <1>4, <1>7
  <2> QED BY <2>2, <2>3, <1>10
<1> QED BY <1>7, <1>10, <1>11, <1>12, <1>13

(* The initial free list: the pool without the argument registers in use.  *)
LEMMA InitialPool ==
  ASSUME NEW n \in Nat
  PROVE  /\ PoolWithoutInputs(n) \in Seq(Reg) /\ IsInjective(PoolWithoutInputs(n))
         /\ \A j \in 1..n : ArgReg[j] \notin Range(PoolWithoutInputs(n))
<1> DEFINE slots == {i \in 1..Len(Pool) : \A j \in 1..n : Pool[i] # ArgReg[j]}
<1>1. Len(Pool) \in Nat /\ DOMAIN Pool = 1..Len(Pool)
  BY RegAssumption, LenProperties
<1>2. IsFiniteSet(1..Len(Pool))
  BY <1>1, FS_Interval
<1>3. slots \subseteq 1..Len(Pool)
  OBVIOUS
<1>4. \A i \in slots : Pool[i] \in Reg
  BY <1>3, RegAssumption, ElementOfSeq
<1>5. \A i, j \in slots : Pool[i] = Pool[j] => i = j
  BY <1>1, <1>3, RegAssumption DEF IsInjective
<1>6. PoolWithoutInputs(n) = InOrder(slots, Pool)
  BY DEF PoolWithoutInputs
<1>7. \A i \in slots : \A j \in 1..n : Pool[i] # ArgReg[j]
  OBVIOUS
<1> HIDE DEF slots
<1>8. IsFiniteSet(slots) /\ slots \subseteq Nat
  <2>1. IsFiniteSet(slots)
    BY <1>2, <1>3, FS_Subset
  <2>2. \A i \in 1..Len(Pool) : i \in Nat
    OBVIOUS
  <2> QED BY <1>3, <2>1, <2>2
<1>9. ListsImages(InOrder(slots, Pool), slots, Pool, Reg)
  BY <1>4, <1>5, <1>8, InOrderFacts
<1>10. /\ PoolWithoutInputs(n) \in Seq(Reg) /\ IsInjective(PoolWithoutInputs(n))
       /\ Range(PoolWithoutInputs(n)) = {Pool[i] : i \in slots}
  BY <1>6, <1>9 DEF ListsImages
<1> QED BY <1>7, <1>10

-----------------------------------------------------------------------------
(* The inductive invariant.  OperandsReach alone is not inductive: that an *)
(* operand is read from a register still holding it needs AllHeld, which   *)
(* needs NoAlias (the register written is none of the held ones); that the *)
(* operand is mapped at all needs LiveMapped.                              *)
Accepted ==
  /\ graph \in Graphs
  /\ outcome = "called" => step = 0
  /\ outcome \in {"running", "returned"} => graph.allI32

AllHeld ==
  outcome = "running" =>
    \A ref \in DOMAIN ref_to_reg : Holds(asm, graph.n_in, ref_to_reg[ref], ref, step)

IInv == Accepted /\ TypeOK /\ NoAlias /\ LiveMapped /\ AllHeld /\ OperandsReach

(* A reference a node reads from the current step on is kept by free_dead. *)
LEMMA OperandsKept ==
  ASSUME TypeOK, NoAlias, LiveMapped, outcome = "running",
         NEW i \in 1..Len(Node(graph, step).operands)
  PROVE  /\ Node(graph, step).operands[i] \in DOMAIN MapAfterFree
         /\ Node(graph, step).operands[i] \in 0..graph.n_in+step-1
         /\ MapAfterFree[Node(graph, step).operands[i]] \in Reg
<1> DEFINE ref == Node(graph, step).operands[i]
<1>1. WellFormed(graph) /\ step \in 0..NSteps(graph)-1
  BY DEF TypeOK
<1>2. ref \in 0..graph.n_in+step-1 /\ NSteps(graph) \in Nat
  BY <1>1, NodeFacts
<1>3. Uses(graph, step, ref)
  BY DEF Uses
<1>4. step \in step..NSteps(graph)-1
  BY <1>1, <1>2
<1>5. ~LastUseBefore(ref, step)
  BY <1>3, <1>4 DEF LastUseBefore
<1> HIDE DEF ref
<1>6. ref \in DOMAIN ref_to_reg /\ ref \notin Dead
  <2>1. ref \in Live
    BY <1>2, <1>5 DEF Live
  <2>2. ref \in DOMAIN ref_to_reg
    BY <2>1 DEF LiveMapped
  <2> QED BY <2>2, <1>5 DEF Dead
<1>7. ref \in DOMAIN MapAfterFree /\ MapAfterFree[ref] \in Reg
  BY <1>6, AfterFree
<1> QED BY <1>2, <1>7 DEF ref

LEMMA InitIInv == Init => IInv
<1> SUFFICES ASSUME Init PROVE IInv
  OBVIOUS
<1> USE DEF Init
<1>1. WellFormed(graph) /\ graph.n_in \in Nat /\ NSteps(graph) \in Nat \ {0}
  <2>1. WellFormed(graph)
    BY GraphsAssumption
  <2>2. 0 \in 0..NSteps(graph)-1 /\ graph.n_in \in Nat /\ NSteps(graph) \in Nat
    BY <2>1, LenProperties DEF WellFormed, Graph, NSteps
  <2> QED BY <2>1, <2>2 DEF WellFormed
<1>2. DOMAIN ref_to_reg = {} /\ DOMAIN free_regs = {} /\ Len(asm) = 0
  OBVIOUS
<1>3. TypeOK
  <2>1. ref_to_reg \in [DOMAIN ref_to_reg -> Reg]
    BY <1>2
  <2>2. free_regs \in Seq(Reg) /\ asm \in Seq(Seq(Line))
    OBVIOUS
  <2> QED BY <1>1, <1>2, <2>1, <2>2 DEF TypeOK
<1>4. NoAlias
  BY <1>2 DEF NoAlias, IsInjective, Range
<1>5. Accepted /\ LiveMapped /\ AllHeld
  BY DEF Accepted, LiveMapped, AllHeld
<1>6. OperandsReach
  BY <1>2 DEF OperandsReach
<1> QED BY <1>3, <1>4, <1>5, <1>6 DEF IInv

LEMMA RejectIInv == IInv /\ RejectTypes => IInv'
<1> SUFFICES ASSUME IInv, RejectTypes PROVE IInv'
  OBVIOUS
<1> USE DEF RejectTypes
<1>1. TypeOK'
  BY DEF IInv, TypeOK
<1>2. NoAlias'
  BY DEF IInv, NoAlias
<1>3. Accepted' /\ LiveMapped' /\ AllHeld'
  BY DEF IInv, Accepted, LiveMapped, AllHeld
<1>4. OperandsReach'
  BY DEF IInv, OperandsReach, SourceReg
<1> QED BY <1>1, <1>2, <1>3, <1>4 DEF IInv

LEMMA EnterIInv == IInv /\ Enter => IInv'
<1> SUFFICES ASSUME IInv, Enter PROVE IInv'
  OBVIOUS
<1> USE DEF Enter
<1> DEFINE n == graph.n_in
           m == [i \in 0..n-1 |-> ArgReg[i + 1]]
<1>1. WellFormed(graph) /\ n \in Nat /\ n <= Len(ArgReg) /\ step = 0 /\ graph \in Graphs
  BY GraphsAssumption DEF IInv, Accepted, TypeOK, WellFormed, Graph
<1>2. /\ \A i \in 0..n-1 : i + 1 \in 1..Len(ArgReg) /\ i + 1 \in 1..n /\ ArgReg[i + 1] \in Reg
      /\ \A i, j \in 0..n-1 : ArgReg[i + 1] = ArgReg[j + 1] => i = j
  <2>1. Len(ArgReg) \in Nat /\ DOMAIN ArgReg = 1..Len(ArgReg)
    BY RegAssumption, LenProperties
  <2>2. \A i \in 0..n-1 : i + 1 \in 1..Len(ArgReg) /\ i + 1 \in 1..n
    BY <1>1, <2>1
  <2>3. \A i \in 0..n-1 : ArgReg[i + 1] \in Reg
    BY <2>2, RegAssumption, ElementOfSeq
  <2>4. ASSUME NEW i \in 0..n-1, NEW j \in 0..n-1, ArgReg[i + 1] = ArgReg[j + 1] PROVE i = j
    <3>1. i + 1 = j + 1
      BY <2>1, <2>2, <2>4, RegAssumption DEF IsInjective
    <3> QED BY <3>1
  <2> QED BY <2>2, <2>3, <2>4
<1>3. /\ PoolWithoutInputs(n) \in Seq(Reg) /\ IsInjective(PoolWithoutInputs(n))
      /\ \A j \in 1..n : ArgReg[j] \notin Range(PoolWithoutInputs(n))
  BY <1>1, InitialPool
<1>4. ref_to_reg' = m /\ DOMAIN m = 0..n-1 /\ \A i \in 0..n-1 : m[i] = ArgReg[i + 1]
  OBVIOUS
<1> HIDE DEF m
<1>5. TypeOK'
  <2>1. m \in [DOMAIN m -> Reg]
    <3>1. m = [i \in 0..n-1 |-> m[i]]
      BY <1>4 DEF m
    <3>2. \A i \in 0..n-1 : m[i] \in Reg
      BY <1>2, <1>4
    <3> QED BY <3>1, <3>2, <1>4
  <2>2. DOMAIN m \subseteq 0..n+step-1
    BY <1>1, <1>4
  <2>3. free_regs' \in Seq(Reg)
    BY <1>3
  <2>4. /\ WellFormed(graph') /\ step' \in 0..NSteps(graph')-1
        /\ label_counter' \in Nat /\ asm' \in Seq(Seq(Line)) /\ Len(asm') = step'
    BY DEF IInv, TypeOK
  <2>5. outcome' = "running" /\ graph' = graph /\ step' = step
    OBVIOUS
  <2> QED BY <1>4, <2>1, <2>2, <2>3, <2>4, <2>5 DEF TypeOK
<1>6. NoAlias'
  <2>1. IsInjective(m)
    BY <1>2, <1>4 DEF IsInjective
  <2>2. Range(m) \cap Range(PoolWithoutInputs(n)) = {}
    BY <1>2, <1>3, <1>4 DEF Range
  <2> QED BY <1>3, <1>4, <2>1, <2>2 DEF NoAlias
<1>7. LiveMapped'
  <2>1. Live' \subseteq 0..n-1
    BY <1>1 DEF Live
  <2> QED BY <2>1, <1>4 DEF LiveMapped
<1>8. AllHeld'
  <2>1. ASSUME NEW ref \in 0..n-1 PROVE Holds(asm, n, m[ref], ref, 0)
    <3>1. ref < n /\ 0..0-1 = {} /\ m[ref] = ArgReg[ref + 1]
      BY <1>1, <1>4
    <3> QED BY <3>1 DEF Holds
  <2> QED BY <2>1, <1>1, <1>4 DEF AllHeld
<1>9. Accepted' /\ OperandsReach'
  BY DEF IInv, Accepted, OperandsReach, SourceReg
<1> QED BY <1>5, <1>6, <1>7, <1>8, <1>9 DEF IInv

(* One iteration of the loop: the new value takes a register that held     *)
(* nothing still needed.                                                   *)
LEMMA LowerNodeIInv == IInv /\ LowerNode => IInv'
<1> SUFFICES ASSUME IInv, LowerNode PROVE IInv'
  OBVIOUS
<1>0. Accepted /\ TypeOK /\ NoAlias /\ LiveMapped /\ AllHeld /\ OperandsReach
  BY DEF IInv
<1> DEFINE n    == graph.n_in
           node == Node(graph, step)
           F    == FreeAfterFree
           Kept == MapAfterFree
           rd   == Head(F)
           b    == EmitNode(node, Kept, rd, label_counter)
           new  == n + step
<1>1. /\ outcome = "running" /\ outcome' = "running" /\ node.op # "return" /\ F # <<>>
      /\ asm' = Append(asm, b) /\ label_counter' = label_counter + LabelsUsed(node)
      /\ ref_to_reg' = Bind(Kept, new, rd) /\ free_regs' = Tail(F)
      /\ step' = step + 1 /\ graph' = graph
  BY DEF LowerNode
<1>2. WellFormed(graph) /\ step \in 0..NSteps(graph)-1 /\ step \in Nat
      /\ asm \in Seq(Seq(Line)) /\ Len(asm) = step /\ label_counter \in Nat
  BY <1>0, <1>1 DEF TypeOK
<1>3. /\ NSteps(graph) \in Nat \ {0} /\ n \in Nat
      /\ node \in GraphNode /\ Len(node.operands) = ARITY[node.op]
      /\ node.op = "return" <=> step = NSteps(graph) - 1
      /\ \A i \in 1..Len(node.operands) : node.operands[i] \in 0..n+step-1
  BY <1>2, NodeFacts
<1>4. /\ F \in Seq(Reg) /\ IsInjective(F)
      /\ DOMAIN Kept = DOMAIN ref_to_reg \ Dead
      /\ \A r \in DOMAIN Kept : Kept[r] = ref_to_reg[r] /\ Kept[r] \in Reg
      /\ IsInjective(Kept) /\ Range(Kept) \cap Range(F) = {}
  BY <1>0, AfterFree
<1>5. /\ rd \in Reg /\ Tail(F) \in Seq(Reg) /\ Len(Tail(F)) = Len(F) - 1
      /\ \A i \in 1..Len(Tail(F)) : Tail(F)[i] = F[i + 1]
      /\ rd = F[1] /\ Len(F) \in Nat \ {0} /\ DOMAIN F = 1..Len(F)
      /\ DOMAIN Tail(F) = 1..Len(Tail(F))
  <2>1. rd = F[1]
    BY <1>1, <1>4
  <2> HIDE DEF F
  <2> QED BY <1>1, <1>4, <2>1, HeadTailProperties, LenProperties, EmptySeq
<1>6. \A i \in 1..Len(node.operands) : Kept[node.operands[i]] \in Reg /\ node.operands[i] \in DOMAIN Kept
  BY <1>0, <1>1, OperandsKept
<1>7. /\ b \in Seq(Line)
      /\ \A l \in 1..Len(b) : b[l].rd \in {rd, NoReg}
      /\ \E l \in 1..Len(b) : b[l].rd = rd
      /\ \A i \in 1..Len(node.operands) : BlockSource(node.op, b, i) = Kept[node.operands[i]]
  <2> HIDE DEF node, Kept, rd, b
  <2>1. b = EmitNode(node, Kept, rd, label_counter)
    BY DEF b
  <2>2. /\ node \in GraphNode /\ node.op # "return"
        /\ Len(node.operands) = ARITY[node.op] /\ rd \in Reg /\ label_counter \in Nat
        /\ \A i \in 1..Len(node.operands) : Kept[node.operands[i]] \in Reg
    BY <1>1, <1>2, <1>3, <1>5, <1>6
  <2>3. BlockFor(b, node, Kept, rd)
    BY <2>1, <2>2, EmitNodeFacts
  <2> QED BY <2>3 DEF BlockFor
<1>8. /\ new \notin DOMAIN Kept /\ DOMAIN Kept \subseteq 0..n+step-1
      /\ DOMAIN ref_to_reg' = DOMAIN Kept \cup {new}
      /\ ref_to_reg'[new] = rd /\ \A r \in DOMAIN Kept : ref_to_reg'[r] = Kept[r]
  <2>1. DOMAIN Kept \subseteq 0..n+step-1
    BY <1>0, <1>4 DEF TypeOK
  <2>2. new \notin 0..n+step-1
    BY <1>2, <1>3
  <2>3. new \notin DOMAIN Kept
    BY <2>1, <2>2
  <2> HIDE DEF Kept, rd, new
  <2>4. ref_to_reg' = [q \in DOMAIN Kept \cup {new} |-> IF q = new THEN rd ELSE Kept[q]]
    BY <1>1 DEF Bind
  <2> QED BY <2>1, <2>3, <2>4
<1>9. /\ asm' \in Seq(Seq(Line)) /\ Len(asm') = step + 1
      /\ \A j \in 1..step : asm'[j] = asm[j]
      /\ asm'[step + 1] = b
  <2> HIDE DEF b
  <2> QED BY <1>1, <1>2, <1>7, AppendProperties
<1>10. /\ \A r \in DOMAIN Kept : Kept[r] # rd /\ Kept[r] # NoReg
       /\ \A i \in 1..Len(Tail(F)) : Tail(F)[i] # rd
  <2>1. rd \in Range(F)
    BY <1>5 DEF Range
  <2>2. \A r \in DOMAIN Kept : Kept[r] # rd
    BY <1>4, <2>1 DEF Range
  <2>3. \A r \in DOMAIN Kept : Kept[r] # NoReg
    BY <1>4, RegAssumption
  <2>4. ASSUME NEW i \in 1..Len(Tail(F)) PROVE Tail(F)[i] # rd
    <3>1. i + 1 \in 1..Len(F) /\ i + 1 # 1 /\ 1 \in 1..Len(F) /\ Tail(F)[i] = F[i + 1]
      BY <1>5
    <3> QED BY <3>1, <1>4, <1>5 DEF IsInjective
  <2> QED BY <2>2, <2>3, <2>4
<1> HIDE DEF F, Kept, rd, b, new, node
<1>11. TypeOK'
  <2>1. step' \in 0..NSteps(graph')-1
    <3>1. step # NSteps(graph) - 1
      BY <1>1, <1>3
    <3>2. step \in 0..NSteps(graph)-1 /\ NSteps(graph) \in Nat
      BY <1>2, <1>3
    <3>3. step + 1 \in 0..NSteps(graph)-1
      BY <3>1, <3>2
    <3> QED BY <3>3, <1>1
  <2>2. DOMAIN ref_to_reg' \subseteq 0..graph'.n_in+step'-1
    <3>1. new \in 0..n+step /\ (\A r \in 0..n+step-1 : r \in 0..n+step)
      BY <1>2, <1>3 DEF new
    <3>2. graph'.n_in + step' - 1 = n + step
      BY <1>1, <1>2, <1>3
    <3> QED BY <3>1, <3>2, <1>8
  <2>3. ref_to_reg' \in [DOMAIN ref_to_reg' -> Reg]
    <3>1. \A r \in DOMAIN ref_to_reg' : ref_to_reg'[r] \in Reg
      BY <1>4, <1>5, <1>8
    <3>2. ref_to_reg' = [r \in DOMAIN ref_to_reg' |-> ref_to_reg'[r]]
      BY <1>1 DEF Bind
    <3> QED BY <3>1, <3>2
  <2>4. label_counter' \in Nat
    BY <1>1, <1>2 DEF LabelsUsed
  <2> QED BY <1>1, <1>2, <1>5, <1>9, <2>1, <2>2, <2>3, <2>4 DEF TypeOK
<1>12. NoAlias'
  <2>1. IsInjective(ref_to_reg')
    BY <1>4, <1>8, <1>10 DEF IsInjective
  <2>2. IsInjective(free_regs')
    <3> SUFFICES ASSUME NEW i \in 1..Len(Tail(F)), NEW j \in 1..Len(Tail(F)),
                        Tail(F)[i] = Tail(F)[j]
                 PROVE  i = j
      BY <1>1, <1>5 DEF IsInjective
    <3>1. i + 1 \in 1..Len(F) /\ j + 1 \in 1..Len(F) /\ F[i + 1] = F[j + 1]
      BY <1>5
    <3>2. i + 1 = j + 1
      BY <3>1, <1>4, <1>5 DEF IsInjective
    <3> QED BY <3>2
  <2>3. ASSUME NEW i \in 1..Len(Tail(F)) PROVE Tail(F)[i] \notin Range(ref_to_reg')
    <3>1. i + 1 \in 1..Len(F) /\ Tail(F)[i] = F[i + 1]
      BY <1>5
    <3>2. Tail(F)[i] \in Range(F)
      BY <3>1, <1>5 DEF Range
    <3>3. Tail(F)[i] \notin Range(Kept)
      BY <3>2, <1>4
    <3> QED BY <3>3, <1>8, <1>10 DEF Range
  <2>4. Range(ref_to_reg') \cap Range(free_regs') = {}
    BY <2>3, <1>1, <1>5 DEF Range
  <2> QED BY <2>1, <2>2, <2>4 DEF NoAlias
<1>13. LiveMapped'
  <2> SUFFICES ASSUME NEW ref \in Live' PROVE ref \in DOMAIN ref_to_reg'
    BY DEF LiveMapped
  <2>1. ref \in 0..n+step /\ ~LastUseBefore(ref, step + 1)
    <3>1. ref \in 0..graph'.n_in+step'-1 /\ graph'.n_in + step' - 1 = n + step
      BY <1>1, <1>2, <1>3 DEF Live
    <3>2. ~LastUseBefore(ref, step + 1)
      BY <1>1 DEF Live, LastUseBefore
    <3> QED BY <3>1, <3>2
  <2>2. CASE ref = n + step
    BY <2>2, <1>8 DEF new
  <2>3. CASE ref # n + step
    <3>1. ref \in 0..n+step-1
      <4>1. ref \in 0..n+step /\ n \in Nat /\ step \in Nat
        BY <2>1, <1>2, <1>3
      <4> HIDE DEF n
      <4> QED BY <4>1, <2>3
    <3>2. \A j \in step+1..NSteps(graph)-1 : j \in step..NSteps(graph)-1
      BY <1>2, <1>3
    <3>3. ~LastUseBefore(ref, step)
      BY <2>1, <3>2 DEF LastUseBefore
    <3>4. ref \in DOMAIN ref_to_reg
      BY <1>0, <3>1, <3>3, <1>1 DEF LiveMapped, Live
    <3>5. ref \notin Dead
      BY <3>3 DEF Dead
    <3> QED BY <3>4, <3>5, <1>4, <1>8
  <2> QED BY <2>2, <2>3
<1>14. AllHeld'
  <2> SUFFICES ASSUME NEW ref \in DOMAIN Kept \cup {new}
               PROVE  Holds(asm', n, ref_to_reg'[ref], ref, step + 1)
    BY <1>1, <1>8 DEF AllHeld
  <2>1. CASE ref = new
    <3>1. Writes(asm', step, rd)
      BY <1>7, <1>9 DEF Writes
    <3>2. ~(new < n) /\ new - n = step /\ new-n+1..(step + 1)-1 = {}
      BY <1>2, <1>3 DEF new
    <3> QED BY <2>1, <3>1, <3>2, <1>8 DEF Holds
  <2>2. CASE ref \in DOMAIN Kept
    <3> DEFINE r == Kept[ref]
    <3>1. ref_to_reg'[ref] = r /\ ref_to_reg[ref] = r /\ ref \in DOMAIN ref_to_reg
      BY <2>2, <1>4, <1>8
    <3>2. Holds(asm, n, r, ref, step)
      BY <1>0, <3>1, <1>1 DEF AllHeld
    <3>3. \A l \in 1..Len(b) : b[l].rd # r
      BY <2>2, <1>7, <1>10
    <3>4. step \in 0..Len(asm) /\ ref \in 0..n+step-1 /\ step = Len(asm)
      BY <2>2, <1>2, <1>8
    <3> HIDE DEF r
    <3>5. Holds(Append(asm, b), n, r, ref, step + 1)
      BY <3>2, <3>3, <3>4, <1>2, <1>3, HoldsAppend
    <3> QED BY <3>1, <3>5, <1>1
  <2> QED BY <2>1, <2>2
<1>15. OperandsReach'
  <2> SUFFICES ASSUME NEW k \in 0..step, NEW i \in 1..Len(Node(graph, k).operands)
               PROVE  Holds(asm', n, BlockSource(Node(graph, k).op, asm'[k + 1], i),
                            Node(graph, k).operands[i], k)
    <3>1. Len(asm') - 1 = step /\ graph' = graph
      BY <1>1, <1>2, <1>9
    <3> QED BY <3>1 DEF OperandsReach, SourceReg
  <2> DEFINE ref == Node(graph, k).operands[i]
             r   == BlockSource(Node(graph, k).op, asm'[k + 1], i)
  <2>1. k \in 0..NSteps(graph)-1 /\ k \in 0..Len(asm)
    BY <1>2, <1>3
  <2>2. ref \in 0..n+k-1
    BY <2>1, <1>2, NodeFacts
  <2>3. Holds(asm, n, r, ref, k)
    <3>1. CASE k = step
      <4>1. r = Kept[ref] /\ ref \in DOMAIN Kept
        BY <3>1, <1>6, <1>7, <1>9 DEF node
      <4>2. Kept[ref] = ref_to_reg[ref] /\ ref \in DOMAIN ref_to_reg
        BY <4>1, <1>4
      <4> QED BY <1>0, <4>1, <4>2, <3>1, <1>1 DEF AllHeld
    <3>2. CASE k # step
      <4>1. k \in 0..Len(asm)-1 /\ k + 1 \in 1..step
        BY <3>2, <1>2
      <4>2. r = SourceReg(k, i)
        BY <4>1, <1>9 DEF SourceReg
      <4> QED BY <1>0, <4>1, <4>2 DEF OperandsReach
    <3> QED BY <3>1, <3>2
  <2> HIDE DEF ref, r
  <2>4. Holds(Append(asm, b), n, r, ref, k)
    BY <2>1, <2>2, <2>3, <1>2, <1>3, HoldsAppend
  <2> QED BY <2>4, <1>1 DEF ref, r
<1>16. Accepted'
  BY <1>0, <1>1 DEF Accepted
<1> QED BY <1>11, <1>12, <1>13, <1>14, <1>15, <1>16 DEF IInv

(* What RETURN and the refusal have in common: free_dead and nothing else  *)
(* happens to the map and the free list.                                   *)
LEMMA OnlyFreeDead ==
  ASSUME TypeOK, NoAlias, ref_to_reg' = MapAfterFree, free_regs' = FreeAfterFree
  PROVE  /\ NoAlias' /\ free_regs' \in Seq(Reg)
         /\ DOMAIN ref_to_reg' \subseteq 0..graph.n_in+step-1
         /\ ref_to_reg' \in [DOMAIN ref_to_reg' -> Reg]
<1>1. NoAlias' /\ free_regs' \in Seq(Reg)
  BY AfterFree DEF NoAlias
<1>2. DOMAIN ref_to_reg' = DOMAIN ref_to_reg \ Dead /\ \A r \in DOMAIN ref_to_reg' : ref_to_reg'[r] \in Reg
  BY AfterFree
<1>3. DOMAIN ref_to_reg' \subseteq 0..graph.n_in+step-1
  BY <1>2 DEF TypeOK
<1>4. ref_to_reg' = [r \in DOMAIN ref_to_reg' |-> ref_to_reg'[r]]
  BY DEF MapAfterFree
<1>5. ref_to_reg' \in [DOMAIN ref_to_reg' -> Reg]
  BY <1>2, <1>4
<1> QED BY <1>1, <1>3, <1>5

LEMMA OutOfRegistersIInv == IInv /\ OutOfRegisters => IInv'
<1> SUFFICES ASSUME IInv, OutOfRegisters PROVE IInv'
  OBVIOUS
<1>0. Accepted /\ TypeOK /\ NoAlias /\ OperandsReach
  BY DEF IInv
<1>1. /\ outcome' = "unsupported" /\ outcome = "running"
      /\ ref_to_reg' = MapAfterFree /\ free_regs' = FreeAfterFree
      /\ graph' = graph /\ step' = step /\ label_counter' = label_counter /\ asm' = asm
  BY DEF OutOfRegisters
<1>2. /\ NoAlias' /\ free_regs' \in Seq(Reg)
      /\ DOMAIN ref_to_reg' \subseteq 0..graph.n_in+step-1
      /\ ref_to_reg' \in [DOMAIN ref_to_reg' -> Reg]
  BY <1>0, <1>1, OnlyFreeDead
<1>3. TypeOK'
  BY <1>0, <1>1, <1>2 DEF TypeOK
<1>4. Accepted' /\ LiveMapped' /\ AllHeld'
  BY <1>0, <1>1 DEF Accepted, LiveMapped, AllHeld
<1>5. OperandsReach'
  BY <1>0, <1>1 DEF OperandsReach, SourceReg
<1> QED BY <1>2, <1>3, <1>4, <1>5 DEF IInv

(* RETURN reads the root from the register that still holds it.            *)
LEMMA LowerReturnIInv == IInv /\ LowerReturn => IInv'
<1> SUFFICES ASSUME IInv, LowerReturn PROVE IInv'
  OBVIOUS
<1>0. Accepted /\ TypeOK /\ NoAlias /\ LiveMapped /\ AllHeld /\ OperandsReach
  BY DEF IInv
<1> DEFINE n   == graph.n_in
           src == MapAfterFree[Node(graph, step).operands[1]]
           b   == EmitReturn(src)
<1>1. /\ outcome' = "returned" /\ outcome = "running" /\ Node(graph, step).op = "return"
      /\ asm' = Append(asm, b)
      /\ ref_to_reg' = MapAfterFree /\ free_regs' = FreeAfterFree
      /\ graph' = graph /\ step' = step /\ label_counter' = label_counter
  BY DEF LowerReturn
<1>2. /\ WellFormed(graph) /\ step \in 0..NSteps(graph)-1 /\ step \in Nat
      /\ asm \in Seq(Seq(Line)) /\ Len(asm) = step /\ NSteps(graph) \in Nat /\ n \in Nat
  <2>1. WellFormed(graph) /\ step \in 0..NSteps(graph)-1
    BY <1>0 DEF TypeOK
  <2> QED BY <2>1, <1>0, <1>1, NodeFacts DEF TypeOK
<1>3. Len(Node(graph, step).operands) = 1
  <2>1. "return" \in UnOps \cup {"return"} /\ ARITY["return"] = 1
    BY Arities
  <2>2. Len(Node(graph, step).operands) = ARITY[Node(graph, step).op]
    BY <1>2, NodeFacts
  <2> QED BY <2>1, <2>2, <1>1
<1>4. /\ Node(graph, step).operands[1] \in DOMAIN MapAfterFree
      /\ src \in Reg
  <2>1. 1 \in 1..Len(Node(graph, step).operands)
    BY <1>3
  <2> QED BY <2>1, <1>0, <1>1, OperandsKept
<1>5. src = ref_to_reg[Node(graph, step).operands[1]]
      /\ Node(graph, step).operands[1] \in DOMAIN ref_to_reg
  BY <1>0, <1>4, AfterFree
<1> HIDE DEF src, b
<1>6. b \in Seq(Line) /\ BlockSource("return", b, 1) = src
  BY <1>4, EmitReturnFacts DEF b
<1>7. /\ asm' \in Seq(Seq(Line)) /\ Len(asm') = step + 1
      /\ \A j \in 1..step : asm'[j] = asm[j]
      /\ asm'[step + 1] = b
  BY <1>1, <1>2, <1>6, AppendProperties
<1>8. /\ NoAlias' /\ free_regs' \in Seq(Reg)
      /\ DOMAIN ref_to_reg' \subseteq 0..graph.n_in+step-1
      /\ ref_to_reg' \in [DOMAIN ref_to_reg' -> Reg]
  BY <1>0, <1>1, OnlyFreeDead
<1>9. TypeOK'
  BY <1>0, <1>1, <1>7, <1>8 DEF TypeOK
<1>10. Accepted' /\ LiveMapped' /\ AllHeld'
  BY <1>0, <1>1 DEF Accepted, LiveMapped, AllHeld
<1>11. OperandsReach'
  <2> SUFFICES ASSUME NEW k \in 0..step, NEW i \in 1..Len(Node(graph, k).operands)
               PROVE  Holds(asm', n, BlockSource(Node(graph, k).op, asm'[k + 1], i),
                            Node(graph, k).operands[i], k)
    <3>1. Len(asm') - 1 = step /\ graph' = graph
      BY <1>1, <1>2, <1>7
    <3> QED BY <3>1 DEF OperandsReach, SourceReg
  <2> DEFINE ref == Node(graph, k).operands[i]
             r   == BlockSource(Node(graph, k).op, asm'[k + 1], i)
  <2>1. k \in 0..NSteps(graph)-1 /\ k \in 0..Len(asm)
    BY <1>2
  <2>2. ref \in 0..n+k-1
    BY <2>1, <1>2, NodeFacts
  <2>3. Holds(asm, n, r, ref, k)
    <3>1. CASE k = step
      <4>1. i = 1
        BY <3>1, <1>3
      <4>2. r = src /\ src = ref_to_reg[ref] /\ ref \in DOMAIN ref_to_reg
        BY <3>1, <4>1, <1>1, <1>5, <1>6, <1>7
      <4> QED BY <1>0, <4>2, <3>1, <1>1 DEF AllHeld
    <3>2. CASE k # step
      <4>1. k \in 0..Len(asm)-1 /\ k + 1 \in 1..step
        BY <3>2, <1>2
      <4>2. r = SourceReg(k, i)
        BY <4>1, <1>7 DEF SourceReg
      <4> QED BY <1>0, <4>1, <4>2 DEF OperandsReach
    <3> QED BY <3>1, <3>2
  <2> HIDE DEF ref, r
  <2>4. Holds(Append(asm, b), n, r, ref, k)
    BY <2>1, <2>2, <2>3, <1>2, HoldsAppend
  <2> QED BY <2>4, <1>1 DEF ref, r
<1> QED BY <1>8, <1>9, <1>10, <1>11 DEF IInv

-----------------------------------------------------------------------------
(* The inductive invariant holds throughout every call of lower().         *)
THEOREM Invariance == Spec => []IInv
<1>1. Init => IInv
  BY InitIInv
<1>2. IInv /\ [Next]_vars => IInv'
  <2> SUFFICES ASSUME IInv, [Next]_vars PROVE IInv'
    OBVIOUS
  <2>1. CASE RejectTypes
    BY <2>1, RejectIInv
  <2>2. CASE Enter
    BY <2>2, EnterIInv
  <2>3. CASE LowerNode
    BY <2>3, LowerNodeIInv
  <2>4. CASE OutOfRegisters
    BY <2>4, OutOfRegistersIInv
  <2>5. CASE LowerReturn
    BY <2>5, LowerReturnIInv
  <2>6. CASE UNCHANGED vars
    <3> USE <2>6 DEF vars, IInv
    <3>1. TypeOK' /\ NoAlias' /\ Accepted' /\ LiveMapped' /\ AllHeld'
      BY DEF TypeOK, NoAlias, Accepted, LiveMapped, Live, LastUseBefore, AllHeld
    <3>2. OperandsReach'
      BY DEF OperandsReach, SourceReg
    <3> QED BY <3>1, <3>2
  <2> QED BY <2>1, <2>2, <2>3, <2>4, <2>5, <2>6 DEF Next
<1> QED BY <1>1, <1>2, PTL DEF Spec

(* The locals of lower() keep their types: in particular the map mentions  *)
(* only references already defined and every emitted line is well formed.  *)
THEOREM TypeCorrect == Spec => []TypeOK
<1>1. IInv => TypeOK
  BY DEF IInv
<1> QED BY <1>1, Invariance, PTL

(* The allocator never gives a register that still holds a value.          *)
THEOREM NoAliasing == Spec => []NoAlias
<1>1. IInv => NoAlias
  BY DEF IInv
<1> QED BY <1>1, Invariance, PTL

(* No lookup in ref_to_reg fails: whatever is still to be read is mapped.  *)
THEOREM LiveStaysMapped == Spec => []LiveMapped
<1>1. IInv => LiveMapped
  BY DEF IInv
<1> QED BY <1>1, Invariance, PTL

(* Every operand of the emitted code is read from a register that still    *)
(* holds it, for every well-formed graph and every register pool.          *)
THEOREM DataflowCorrect == Spec => []OperandsReach
<1>1. IInv => OperandsReach
  BY DEF IInv
<1> QED BY <1>1, Invariance, PTL

-----------------------------------------------------------------------------
(* What lower() may be relied on for, beyond the dataflow of its code: no  *)
(* register of the pool is lost, a graph is refused only when the pool is  *)
(* really too small, and the text assembles.                               *)

(* The registers lower() has in hand.                                      *)
InHand == Range(ref_to_reg) \cup Range(free_regs)

(* It may name the pool and the argument registers of the graph's inputs.  *)
Usable == Range(Pool) \cup {ArgReg[j] : j \in 1..graph.n_in}

(* free_dead moves registers between the map and the free list and loses   *)
(* none (lowering.py:73-79).                                               *)
LEMMA FreeingConserves ==
  ASSUME TypeOK, NoAlias
  PROVE  Range(MapAfterFree) \cup Range(FreeAfterFree) = InHand
<1>1. /\ Range(FreeAfterFree) = Range(free_regs) \cup {ref_to_reg[r] : r \in Dead}
      /\ DOMAIN MapAfterFree = DOMAIN ref_to_reg \ Dead
      /\ \A r \in DOMAIN MapAfterFree : MapAfterFree[r] = ref_to_reg[r]
  BY AfterFree
<1>2. Dead \subseteq DOMAIN ref_to_reg
  BY DEF Dead
<1>3. Range(MapAfterFree) = {ref_to_reg[r] : r \in DOMAIN ref_to_reg \ Dead}
  BY <1>1 DEF Range
<1>4. Range(ref_to_reg) = {ref_to_reg[r] : r \in DOMAIN ref_to_reg}
  BY DEF Range
<1> QED BY <1>1, <1>2, <1>3, <1>4 DEF InHand

(* Binding the head of the free list keeps every register in hand.         *)
LEMMA BindingConserves ==
  ASSUME NEW m, \A r \in DOMAIN m : m[r] \in Reg, NEW f \in Seq(Reg), f # <<>>,
         NEW new, new \notin DOMAIN m
  PROVE  Range(Bind(m, new, Head(f))) \cup Range(Tail(f)) = Range(m) \cup Range(f)
<1> DEFINE rd == Head(f)
           Kept == Bind(m, new, rd)
           t == Tail(f)
<1>1. /\ rd = f[1] /\ Len(f) \in Nat \ {0} /\ DOMAIN f = 1..Len(f)
      /\ t \in Seq(Reg) /\ Len(t) = Len(f) - 1 /\ DOMAIN t = 1..Len(t)
      /\ \A i \in 1..Len(t) : t[i] = f[i + 1]
  BY HeadTailProperties, LenProperties, EmptySeq
<1>2. /\ DOMAIN Kept = DOMAIN m \cup {new} /\ Kept[new] = rd
      /\ \A r \in DOMAIN m : Kept[r] = m[r]
  <2> HIDE DEF rd
  <2> QED BY DEF Bind
<1> HIDE DEF rd, Kept, t
<1>3. Range(Kept) = Range(m) \cup {rd}
  BY <1>2 DEF Range
<1>4. Range(f) = {rd} \cup Range(t)
  <2>1. \A i \in 1..Len(f) : i = 1 \/ i - 1 \in 1..Len(t)
    BY <1>1
  <2>2. \A i \in 1..Len(t) : i + 1 \in 1..Len(f)
    BY <1>1
  <2>3. \A i \in 1..Len(f) : f[i] = rd \/ f[i] = t[i - 1]
    <3> SUFFICES ASSUME NEW i \in 1..Len(f), i # 1 PROVE f[i] = t[i - 1]
      BY <1>1
    <3>1. i - 1 \in 1..Len(t) /\ (i - 1) + 1 = i
      BY <2>1
    <3> QED BY <3>1, <1>1
  <2>4. \A i \in 1..Len(f) : f[i] \in {rd} \cup Range(t)
    BY <2>1, <2>3, <1>1 DEF Range
  <2>5. \A i \in 1..Len(t) : t[i] \in Range(f)
    BY <2>2, <1>1 DEF Range
  <2>6. rd \in Range(f) /\ Range(t) \subseteq Range(f)
    <3>1. 1 \in DOMAIN f
      BY <1>1
    <3>2. rd \in Range(f)
      BY <3>1, <1>1 DEF Range
    <3>3. ASSUME NEW x \in Range(t) PROVE x \in Range(f)
      BY <3>3, <2>5, <1>1 DEF Range
    <3> QED BY <3>2, <3>3
  <2>7. Range(f) \subseteq {rd} \cup Range(t)
    BY <2>4, <1>1 DEF Range
  <2> QED BY <2>6, <2>7
<1> QED BY <1>3, <1>4 DEF rd, Kept, t

(* At entry the inputs' registers and the free list make up the pool.      *)
LEMMA EntryRegisters ==
  ASSUME NEW n \in Nat, n <= Len(ArgReg),
         NEW m, m = [i \in 0..n-1 |-> ArgReg[i + 1]]
  PROVE  /\ Range(m) = {ArgReg[j] : j \in 1..n}
         /\ Range(m) \cup Range(PoolWithoutInputs(n)) = Range(Pool) \cup {ArgReg[j] : j \in 1..n}
<1> DEFINE slots == {i \in 1..Len(Pool) : \A j \in 1..n : Pool[i] # ArgReg[j]}
<1>1. Len(Pool) \in Nat /\ DOMAIN Pool = 1..Len(Pool)
  BY RegAssumption, LenProperties
<1>2. Range(m) = {ArgReg[j] : j \in 1..n}
  <2>1. \A i \in 0..n-1 : i + 1 \in 1..n /\ m[i] = ArgReg[i + 1]
    OBVIOUS
  <2>2. \A j \in 1..n : j - 1 \in 0..n-1 /\ m[j - 1] = ArgReg[j]
    <3> SUFFICES ASSUME NEW j \in 1..n PROVE j - 1 \in 0..n-1 /\ m[j - 1] = ArgReg[j]
      OBVIOUS
    <3>1. j - 1 \in 0..n-1 /\ (j - 1) + 1 = j
      OBVIOUS
    <3> QED BY <3>1, <2>1
  <2>3. Range(m) = {m[i] : i \in 0..n-1}
    BY DEF Range
  <2> QED BY <2>1, <2>2, <2>3
<1>3. Range(PoolWithoutInputs(n)) = {Pool[i] : i \in slots}
  <2>1. IsFiniteSet(1..Len(Pool)) /\ slots \subseteq 1..Len(Pool)
    BY <1>1, FS_Interval
  <2>2. IsFiniteSet(slots) /\ slots \subseteq Nat
    BY <2>1, FS_Subset
  <2>3. \A i \in slots : Pool[i] \in Reg
    BY <2>1, RegAssumption, ElementOfSeq
  <2>4. \A i, j \in slots : Pool[i] = Pool[j] => i = j
    BY <1>1, <2>1, RegAssumption DEF IsInjective
  <2>5. PoolWithoutInputs(n) = InOrder(slots, Pool)
    BY DEF PoolWithoutInputs
  <2> HIDE DEF slots
  <2>6. ListsImages(InOrder(slots, Pool), slots, Pool, Reg)
    BY <2>2, <2>3, <2>4, InOrderFacts
  <2> QED BY <2>5, <2>6 DEF ListsImages
<1>4. Range(Pool) \subseteq {Pool[i] : i \in slots} \cup {ArgReg[j] : j \in 1..n}
  BY <1>1 DEF Range
<1>5. {Pool[i] : i \in slots} \subseteq Range(Pool)
  BY <1>1 DEF Range
<1> QED BY <1>2, <1>3, <1>4, <1>5

-----------------------------------------------------------------------------
(* Registers in hand, at any time after entry: the pool and the argument   *)
(* registers, no more and no less.                                         *)
Conserved == outcome \notin {"called"} /\ graph.allI32 => InHand = Usable

(* RefusalJustified is not inductive alone: an empty free list means as    *)
(* many live values as the pool has registers only if the map then covers  *)
(* the pool (Conserved) and maps each register once (NoAlias in IInv).     *)
RegInv == IInv /\ Conserved /\ RefusalJustified

LEMMA ConservedInit == Init => Conserved
  BY DEF Init, Conserved

LEMMA ConservedNext == IInv /\ Conserved /\ [Next]_vars => Conserved'
<1> SUFFICES ASSUME IInv, Conserved, [Next]_vars PROVE Conserved'
  OBVIOUS
<1>0. TypeOK /\ NoAlias /\ Accepted
  BY DEF IInv
<1>1. CASE RejectTypes
  BY <1>1 DEF RejectTypes, Conserved
<1>2. CASE Enter
  <2>1. /\ graph' = graph /\ ref_to_reg' = [i \in 0..graph.n_in-1 |-> ArgReg[i + 1]]
        /\ free_regs' = PoolWithoutInputs(graph.n_in)
    BY <1>2 DEF Enter
  <2>2. graph.n_in \in Nat /\ graph.n_in <= Len(ArgReg)
    BY <1>0, GraphsAssumption DEF Accepted, WellFormed, Graph
  <2>3. Range(ref_to_reg') \cup Range(free_regs')
          = Range(Pool) \cup {ArgReg[j] : j \in 1..graph.n_in}
    BY <2>1, <2>2, EntryRegisters
  <2> QED BY <2>1, <2>3 DEF Conserved, InHand, Usable
<1>3. CASE LowerNode
  <2> DEFINE F == FreeAfterFree
             Kept == MapAfterFree
             new == graph.n_in + step
  <2>1. /\ outcome = "running" /\ graph' = graph /\ F # <<>>
        /\ ref_to_reg' = Bind(Kept, new, Head(F)) /\ free_regs' = Tail(F)
    BY <1>3 DEF LowerNode
  <2>2. /\ F \in Seq(Reg) /\ (\A r \in DOMAIN Kept : Kept[r] \in Reg)
        /\ DOMAIN Kept \subseteq DOMAIN ref_to_reg
    BY <1>0, AfterFree
  <2>3. new \notin DOMAIN Kept
    <3>1. DOMAIN Kept \subseteq 0..graph.n_in+step-1 /\ graph.n_in \in Nat /\ step \in Nat
      BY <1>0, <2>2 DEF TypeOK, WellFormed, Graph
    <3> QED BY <3>1
  <2>4. Range(Kept) \cup Range(F) = InHand
    BY <1>0, FreeingConserves
  <2> HIDE DEF F, Kept, new
  <2>5. Range(ref_to_reg') \cup Range(free_regs') = InHand
    BY <2>1, <2>2, <2>3, <2>4, BindingConserves
  <2> QED BY <2>1, <2>5 DEF Conserved, InHand, Usable
<1>4. CASE OutOfRegisters \/ LowerReturn
  <2>1. /\ outcome = "running" /\ graph' = graph
        /\ ref_to_reg' = MapAfterFree /\ free_regs' = FreeAfterFree
    BY <1>4 DEF OutOfRegisters, LowerReturn
  <2>2. Range(ref_to_reg') \cup Range(free_regs') = InHand
    BY <1>0, <2>1, FreeingConserves
  <2> QED BY <2>1, <2>2 DEF Conserved, InHand, Usable
<1>5. CASE UNCHANGED vars
  BY <1>5 DEF vars, Conserved, InHand, Usable
<1> QED BY <1>1, <1>2, <1>3, <1>4, <1>5 DEF Next

(* The pool has as many registers as it is long, and a map without         *)
(* aliasing that covers it maps at least as many references.               *)
LEMMA CoveringPool ==
  ASSUME NEW m, IsInjective(m), IsFiniteSet(DOMAIN m), Range(Pool) \subseteq Range(m)
  PROVE  Len(Pool) <= Cardinality(DOMAIN m)
<1>1. Len(Pool) \in Nat /\ DOMAIN Pool = 1..Len(Pool)
  BY RegAssumption, LenProperties
<1> DEFINE at == [i \in 1..Len(Pool) |-> CHOOSE r \in DOMAIN m : m[r] = Pool[i]]
<1>2. \A i \in 1..Len(Pool) : at[i] \in DOMAIN m /\ m[at[i]] = Pool[i]
  BY <1>1 DEF Range
<1>3. DOMAIN at = 1..Len(Pool) /\ at = [i \in 1..Len(Pool) |-> at[i]]
  OBVIOUS
<1> HIDE DEF at
<1>4. \A i, j \in 1..Len(Pool) : at[i] = at[j] => i = j
  BY <1>1, <1>2, RegAssumption DEF IsInjective
<1>5. at \in Injection(1..Len(Pool), DOMAIN m)
  <2>1. at \in [1..Len(Pool) -> DOMAIN m]
    BY <1>2, <1>3
  <2> QED BY <2>1, <1>4, Fun_IsInj
<1>6. Cardinality(1..Len(Pool)) <= Cardinality(DOMAIN m)
  BY <1>5, FS_Injection
<1>7. Cardinality(1..Len(Pool)) = Len(Pool)
  BY <1>1, FS_Interval
<1> QED BY <1>6, <1>7

LEMMA RefusalNext == IInv /\ Conserved /\ RefusalJustified /\ [Next]_vars => RefusalJustified'
<1> SUFFICES ASSUME IInv, Conserved, RefusalJustified, [Next]_vars PROVE RefusalJustified'
  OBVIOUS
<1>0. TypeOK /\ NoAlias /\ Accepted
  BY DEF IInv
<1>1. CASE RejectTypes \/ Enter \/ LowerNode \/ LowerReturn
  BY <1>1 DEF RejectTypes, Enter, LowerNode, LowerReturn, RefusalJustified
<1>2. CASE OutOfRegisters
  <2>1. /\ outcome = "running" /\ graph.allI32 /\ FreeAfterFree = <<>>
        /\ graph' = graph /\ step' = step
    BY <1>0, <1>2 DEF OutOfRegisters, Accepted
  <2>2. Live' = Live
    BY <2>1 DEF Live, LastUseBefore
  <2>3. Range(Pool) \subseteq Range(MapAfterFree)
    <3>1. Range(Pool) \subseteq InHand
      BY <2>1 DEF Conserved, Usable
    <3>2. Range(FreeAfterFree) = {}
      BY <2>1 DEF Range
    <3> QED BY <3>1, <3>2, <1>0, FreeingConserves
  <2>4. IsInjective(MapAfterFree) /\ DOMAIN MapAfterFree = DOMAIN ref_to_reg \ Dead
    BY <1>0, AfterFree
  <2>5. DOMAIN MapAfterFree \subseteq Live
    BY <1>0, <2>4 DEF Dead, Live, TypeOK
  <2>6. IsFiniteSet(Live)
    <3>1. 0 \in Int /\ graph.n_in+step-1 \in Int
      BY <1>0 DEF TypeOK, WellFormed, Graph
    <3>2. IsFiniteSet(0..graph.n_in+step-1)
      BY <3>1, FS_Interval
    <3>3. Live \subseteq 0..graph.n_in+step-1
      BY DEF Live
    <3> QED BY <3>2, <3>3, FS_Subset
  <2>7. /\ IsFiniteSet(DOMAIN MapAfterFree)
        /\ Cardinality(DOMAIN MapAfterFree) <= Cardinality(Live)
    BY <2>5, <2>6, FS_Subset
  <2>8. Len(Pool) <= Cardinality(DOMAIN MapAfterFree)
    BY <2>3, <2>4, <2>7, CoveringPool
  <2>9. Cardinality(Live) >= Len(Pool)
    <3>1. /\ Len(Pool) \in Nat /\ Cardinality(Live) \in Nat
          /\ Cardinality(DOMAIN MapAfterFree) \in Nat
      BY <2>6, <2>7, FS_CardinalityType, RegAssumption, LenProperties
    <3> QED BY <3>1, <2>7, <2>8
  <2> QED BY <2>2, <2>9 DEF RefusalJustified
<1>3. CASE UNCHANGED vars
  BY <1>3 DEF vars, RefusalJustified, Live, LastUseBefore
<1> QED BY <1>1, <1>2, <1>3 DEF Next

(* The registers in hand are the pool and the argument registers, and a    *)
(* refusal finds them all taken, throughout every call of lower().         *)
THEOREM RegisterInvariance == Spec => []RegInv
<1>1. Init => Conserved /\ RefusalJustified
  BY ConservedInit DEF Init, RefusalJustified
<1>2. IInv /\ Conserved /\ RefusalJustified /\ [Next]_vars => Conserved' /\ RefusalJustified'
  BY ConservedNext, RefusalNext
<1> QED BY <1>1, <1>2, Invariance, PTL DEF Spec, RegInv

(* No register of the pool is ever lost, however values die and registers  *)
(* are handed out again.                                                   *)
THEOREM NothingLeaks == Spec => []NoLeak
<1>1. RegInv => NoLeak
  BY DEF RegInv, Conserved, NoLeak, InHand, Usable
<1> QED BY <1>1, RegisterInvariance, PTL

(* lower() refuses an i32 graph only where at least as many values are     *)
(* still to be read as the pool has registers.                             *)
THEOREM RefusalsJustified == Spec => []RefusalJustified
<1>1. RegInv => RefusalJustified
  BY DEF RegInv
<1> QED BY <1>1, RegisterInvariance, PTL

-----------------------------------------------------------------------------
(* The text of one block: the numbers of its labels lie in lo..hi-1, no    *)
(* label occurs twice, branches go forward to a label of the block, and    *)
(* the registers named are in R.                                           *)
LabelAt(b, l) == b[l].op = "label"

BlockText(b, lo, hi, R) ==
  /\ \A l \in 1..Len(b) : LabelAt(b, l) => b[l].lbl.num \in lo..hi-1
  /\ \A l, m \in 1..Len(b) : LabelAt(b, l) /\ LabelAt(b, m) /\ b[l].lbl = b[m].lbl => l = m
  /\ \A l \in 1..Len(b) :
       b[l].op \in {"beqz", "j"} =>
         \E m \in l+1..Len(b) : b[m].op = "label" /\ b[m].lbl = b[l].lbl
  /\ \A l \in 1..Len(b) : Range(b[l].src) \cup {b[l].rd} \subseteq R \cup {NoReg}

LEMMA InsnShapes ==
  ASSUME NEW op, NEW rd, NEW src, NEW imm, NEW lbl
  PROVE  /\ Insn(op, rd, src).op = op /\ Insn(op, rd, src).rd = rd
         /\ Insn(op, rd, src).src = src
         /\ InsnImm(op, rd, src, imm).op = op /\ InsnImm(op, rd, src, imm).rd = rd
         /\ InsnImm(op, rd, src, imm).src = src
         /\ InsnLbl(op, src, lbl).op = op /\ InsnLbl(op, src, lbl).rd = NoReg
         /\ InsnLbl(op, src, lbl).src = src /\ InsnLbl(op, src, lbl).lbl = lbl
  BY DEF Insn, InsnImm, InsnLbl

(* A block of one line that is neither a label nor a branch.               *)
LEMMA PlainLineText ==
  ASSUME NEW R, NEW lo \in Nat, NEW hi \in Nat, NEW line,
         line.op \notin {"label", "beqz", "j"},
         Range(line.src) \subseteq R, line.rd \in R \cup {NoReg}
  PROVE  BlockText(<<line>>, lo, hi, R)
<1> DEFINE b == <<line>>
<1>1. Len(b) = 1 /\ b[1] = line
  OBVIOUS
<1>2. \A l \in 1..Len(b) : b[l] = line
  BY <1>1
<1> HIDE DEF b
<1>3. \A l \in 1..Len(b) : ~LabelAt(b, l) /\ b[l].op \notin {"beqz", "j"}
  BY <1>2 DEF LabelAt
<1>4. \A l \in 1..Len(b) : Range(b[l].src) \cup {b[l].rd} \subseteq R \cup {NoReg}
  BY <1>2
<1>5. BlockText(b, lo, hi, R)
  BY <1>3, <1>4 DEF BlockText
<1> QED BY <1>5 DEF b

LEMMA EmitNodeText ==
  ASSUME NEW node \in GraphNode, node.op # "return",
         Len(node.operands) = ARITY[node.op],
         NEW R, NEW m, \A i \in 1..Len(node.operands) : m[node.operands[i]] \in R,
         NEW rd \in R, NEW n \in Nat
  PROVE  BlockText(EmitNode(node, m, rd, n), n, n + LabelsUsed(node), R)
<1> DEFINE r  == [i \in 1..Len(node.operands) |-> m[node.operands[i]]]
           b  == EmitNode(node, m, rd, n)
           hi == n + LabelsUsed(node)
<1>1. node.op \in NodeOps /\ node.operands \in Seq(Nat)
  BY DEF GraphNode
<1>2. Range(r) \subseteq R /\ \A i \in 1..Len(node.operands) : r[i] \in R
  BY DEF Range
<1>3. Range(<<>>) \subseteq R /\ \A x \in R : Range(<<x>>) \subseteq R
  BY DEF Range
<1>4. hi \in Nat /\ (node.op # "select" => hi = n) /\ (node.op = "select" => hi = n + 2)
  BY DEF LabelsUsed
<1>5. /\ node.op = "const" => b = << InsnImm("li", rd, <<>>, SignedLiteral(node.val)) >>
      /\ node.op \in ArithOps \cup BitOps => b = << Insn(Mnemonic[node.op], rd, r) >>
      /\ node.op = "neg" => b = << Insn("negw", rd, r) >>
      /\ node.op = "not" => b = << InsnImm("xori", rd, r, OnesXWord) >>
      /\ node.op = "select" => b = SelectBlock(rd, r, n)
  BY DEF EmitNode, ArithOps, BitOps
<1> HIDE DEF r, b, hi
<1>6. ASSUME NEW line, b = <<line>>, line.op \notin {"label", "beqz", "j"},
             Range(line.src) \subseteq R, line.rd = rd
      PROVE  BlockText(b, n, hi, R)
  BY <1>6, <1>4, PlainLineText
<1>7. CASE node.op = "const"
  <2> DEFINE line == InsnImm("li", rd, <<>>, SignedLiteral(node.val))
  <2>1. line.op = "li" /\ line.src = <<>> /\ line.rd = rd
    BY InsnShapes
  <2>2. b = <<line>>
    BY <1>5, <1>7
  <2> HIDE DEF line
  <2> QED BY <1>3, <1>6, <2>1, <2>2 DEF b, hi
<1>8. CASE node.op \in ArithOps \cup BitOps
  <2> DEFINE line == Insn(Mnemonic[node.op], rd, r)
  <2>1. line.op = Mnemonic[node.op] /\ line.src = r /\ line.rd = rd
    BY InsnShapes
  <2>2. Mnemonic[node.op] \notin {"label", "beqz", "j"}
    BY <1>8 DEF Mnemonic, ArithOps, BitOps
  <2>3. b = <<line>>
    BY <1>5, <1>8
  <2> HIDE DEF line
  <2> QED BY <1>2, <1>6, <2>1, <2>2, <2>3 DEF b, hi
<1>9. CASE node.op = "neg"
  <2> DEFINE line == Insn("negw", rd, r)
  <2>1. line.op = "negw" /\ line.src = r /\ line.rd = rd
    BY InsnShapes
  <2>2. b = <<line>>
    BY <1>5, <1>9
  <2> HIDE DEF line
  <2> QED BY <1>2, <1>6, <2>1, <2>2 DEF b, hi
<1>10. CASE node.op = "not"
  <2> DEFINE line == InsnImm("xori", rd, r, OnesXWord)
  <2>1. line.op = "xori" /\ line.src = r /\ line.rd = rd
    BY InsnShapes
  <2>2. b = <<line>>
    BY <1>5, <1>10
  <2> HIDE DEF line
  <2> QED BY <1>2, <1>6, <2>1, <2>2 DEF b, hi
<1>11. CASE node.op = "select"
  <2> DEFINE e == Label("sel_else", n)
             d == Label("sel_end", n + 1)
             l1 == InsnLbl("beqz", <<r[1]>>, e)
             l2 == Insn("mv", rd, <<r[2]>>)
             l3 == InsnLbl("j", <<>>, d)
             l4 == InsnLbl("label", <<>>, e)
             l5 == Insn("mv", rd, <<r[3]>>)
             l6 == InsnLbl("label", <<>>, d)
  <2>1. r[1] \in R /\ r[2] \in R /\ r[3] \in R
    BY <1>2, <1>11, Arities
  <2>2. b = <<l1, l2, l3, l4, l5, l6>>
    BY <1>5, <1>11 DEF SelectBlock
  <2>3. e # d /\ e.num = n /\ d.num = n + 1
    BY DEF Label
  <2> HIDE DEF e, d
  <2>4. /\ l1.op = "beqz" /\ l1.lbl = e /\ l1.src = <<r[1]>> /\ l1.rd = NoReg
        /\ l2.op = "mv" /\ l2.src = <<r[2]>> /\ l2.rd = rd
        /\ l3.op = "j" /\ l3.lbl = d /\ l3.src = <<>> /\ l3.rd = NoReg
        /\ l4.op = "label" /\ l4.lbl = e /\ l4.src = <<>> /\ l4.rd = NoReg
        /\ l5.op = "mv" /\ l5.src = <<r[3]>> /\ l5.rd = rd
        /\ l6.op = "label" /\ l6.lbl = d /\ l6.src = <<>> /\ l6.rd = NoReg
    <3>1. l1.op = "beqz" /\ l1.lbl = e /\ l1.src = <<r[1]>> /\ l1.rd = NoReg
      BY InsnShapes
    <3>2. l2.op = "mv" /\ l2.src = <<r[2]>> /\ l2.rd = rd
      BY InsnShapes
    <3>3. l3.op = "j" /\ l3.lbl = d /\ l3.src = <<>> /\ l3.rd = NoReg
      BY InsnShapes
    <3>4. l4.op = "label" /\ l4.lbl = e /\ l4.src = <<>> /\ l4.rd = NoReg
      BY InsnShapes
    <3>5. l5.op = "mv" /\ l5.src = <<r[3]>> /\ l5.rd = rd
      BY InsnShapes
    <3>6. l6.op = "label" /\ l6.lbl = d /\ l6.src = <<>> /\ l6.rd = NoReg
      BY InsnShapes
    <3> HIDE DEF l1, l2, l3, l4, l5, l6
    <3> QED BY <3>1, <3>2, <3>3, <3>4, <3>5, <3>6
  <2> HIDE DEF l1, l2, l3, l4, l5, l6
  <2>5. /\ Len(b) = 6 /\ b[1] = l1 /\ b[2] = l2 /\ b[3] = l3
        /\ b[4] = l4 /\ b[5] = l5 /\ b[6] = l6
    BY <2>2
  <2>6. \A l \in 1..6 : (LabelAt(b, l) <=> l \in {4, 6}) /\ (b[l].op \in {"beqz", "j"} <=> l \in {1, 3})
    BY <2>4, <2>5 DEF LabelAt
  <2>7. n \in n..hi-1 /\ n + 1 \in n..hi-1
    BY <1>4, <1>11
  <2>8. \A l \in 1..6 : LabelAt(b, l) => b[l].lbl.num \in n..hi-1
    BY <2>3, <2>4, <2>5, <2>6, <2>7
  <2>9. \A l, k \in 1..6 : LabelAt(b, l) /\ LabelAt(b, k) /\ b[l].lbl = b[k].lbl => l = k
    BY <2>3, <2>4, <2>5, <2>6
  <2>10. ASSUME NEW l \in 1..6, b[l].op \in {"beqz", "j"}
         PROVE  \E k \in l+1..6 : b[k].op = "label" /\ b[k].lbl = b[l].lbl
    <3>1. CASE l = 1
      <4>1. 4 \in l+1..6 /\ b[4].op = "label" /\ b[4].lbl = b[l].lbl
        BY <3>1, <2>4, <2>5
      <4> QED BY <4>1
    <3>2. CASE l = 3
      <4>1. 6 \in l+1..6 /\ b[6].op = "label" /\ b[6].lbl = b[l].lbl
        BY <3>2, <2>4, <2>5
      <4> QED BY <4>1
    <3> QED BY <3>1, <3>2, <2>6, <2>10
  <2>11. \A l \in 1..6 : b[l].rd \in R \cup {NoReg}
    BY <2>4, <2>5
  <2>12. \A l \in 1..6 : Range(b[l].src) \subseteq R
    <3>1. /\ Range(l1.src) \subseteq R /\ Range(l2.src) \subseteq R /\ Range(l3.src) \subseteq R
          /\ Range(l4.src) \subseteq R /\ Range(l5.src) \subseteq R /\ Range(l6.src) \subseteq R
      BY <2>1, <2>4, <1>3
    <3>2. \A l \in 1..6 : l = 1 \/ l = 2 \/ l = 3 \/ l = 4 \/ l = 5 \/ l = 6
      OBVIOUS
    <3> QED BY <3>1, <3>2, <2>5
  <2>13. \A l \in 1..6 : Range(b[l].src) \cup {b[l].rd} \subseteq R \cup {NoReg}
    BY <2>11, <2>12
  <2>14. BlockText(b, n, hi, R)
    BY <2>5, <2>8, <2>9, <2>10, <2>13 DEF BlockText
  <2> QED BY <2>14 DEF b, hi
<1> QED BY <1>1, <1>7, <1>8, <1>9, <1>10, <1>11 DEF NodeOps, UnOps

LEMMA EmitReturnText ==
  ASSUME NEW R, NEW src \in R, ArgReg[1] \in R, NEW n \in Nat
  PROVE  BlockText(EmitReturn(src), n, n, R)
<1> DEFINE a0 == ArgReg[1]
           l1 == Insn("mv", a0, <<src>>)
           l2 == Insn("ret", NoReg, <<>>)
           b  == EmitReturn(src)
<1>1. b = IF src # a0 THEN <<l1, l2>> ELSE <<l2>>
  BY DEF EmitReturn
<1>2. /\ l1.op = "mv" /\ l1.src = <<src>> /\ l1.rd = a0
      /\ l2.op = "ret" /\ l2.src = <<>> /\ l2.rd = NoReg
  BY InsnShapes
<1>3. Range(<<src>>) \subseteq R /\ Range(<<>>) \subseteq R
  BY DEF Range
<1> HIDE DEF l1, l2
<1>4. CASE src # a0
  <2>1. b = <<l1, l2>>
    BY <1>1, <1>4
  <2>2. Len(b) = 2 /\ b[1] = l1 /\ b[2] = l2
    BY <2>1
  <2> HIDE DEF b
  <2>3. \A l \in 1..Len(b) : b[l] = l1 \/ b[l] = l2
    BY <2>2
  <2>4. \A l \in 1..Len(b) : ~LabelAt(b, l) /\ b[l].op \notin {"beqz", "j"}
    BY <2>3, <1>2 DEF LabelAt
  <2>5. \A l \in 1..Len(b) : Range(b[l].src) \cup {b[l].rd} \subseteq R \cup {NoReg}
    BY <2>3, <1>2, <1>3
  <2>6. BlockText(b, n, n, R)
    BY <2>4, <2>5 DEF BlockText
  <2> QED BY <2>6 DEF b
<1>5. CASE src = a0
  <2>1. b = <<l2>>
    BY <1>1, <1>5
  <2> QED BY <2>1, <1>2, <1>3, PlainLineText
<1> QED BY <1>4, <1>5

-----------------------------------------------------------------------------
(* Every label number handed out so far is below the counter.              *)
LabelsBelow ==
  \A j \in 1..Len(asm) : \A l \in 1..Len(asm[j]) :
    LabelAt(asm[j], l) => asm[j][l].lbl.num < label_counter

(* The registers lower() names are of the target as long as the inputs'    *)
(* registers are.                                                          *)
InputsInPool == \A i \in 1..graph.n_in : ArgReg[i] \in Range(Pool)

(* CodeAssembles is not inductive alone: that a new label is new needs     *)
(* LabelsBelow, that the registers of a new block are the target's needs   *)
(* Conserved (what is in hand came from the pool or from an input).        *)
TextInv == RegInv /\ LabelsBelow /\ CodeAssembles

(* The places of the labels of a text, a list of blocks.                   *)
PositionsIn(code) ==
  UNION {{<<j, l>> : l \in {m \in 1..Len(code[j]) : code[j][m].op = "label"}} : j \in 1..Len(code)}

LEMMA PositionOfLabel ==
  ASSUME NEW code, NEW p \in PositionsIn(code)
  PROVE  \E j \in 1..Len(code) : \E l \in 1..Len(code[j]) : p = <<j, l>> /\ LabelAt(code[j], l)
<1> DEFINE labels(j) == {m \in 1..Len(code[j]) : code[j][m].op = "label"}
           at(j)     == {<<j, l>> : l \in labels(j)}
<1>1. PICK P \in {at(j) : j \in 1..Len(code)} : p \in P
  BY DEF PositionsIn
<1>2. PICK j \in 1..Len(code) : P = at(j)
  BY <1>1
<1>3. PICK l \in labels(j) : p = <<j, l>>
  BY <1>1, <1>2
<1> QED BY <1>3 DEF LabelAt

(* What a block appended at the end must satisfy, with the labels the      *)
(* counter hands out for it, for the text to go on assembling.             *)
LEMMA AppendText ==
  ASSUME TypeOK, LabelsBelow, CodeAssembles,
         NEW b \in Seq(Line), asm' = Append(asm, b), graph' = graph,
         label_counter' \in Nat, label_counter <= label_counter',
         NEW R, InputsInPool => R \subseteq Range(Pool),
         BlockText(b, label_counter, label_counter', R)
  PROVE  LabelsBelow' /\ CodeAssembles'
<1> DEFINE len == Len(asm)
<1>1. asm \in Seq(Seq(Line)) /\ len \in Nat /\ label_counter \in Nat
  BY LenProperties DEF TypeOK
<1>2. /\ asm' \in Seq(Seq(Line)) /\ Len(asm') = len + 1 /\ asm'[len + 1] = b
      /\ \A j \in 1..len : asm'[j] = asm[j]
  BY <1>1, AppendProperties
<1>3. \A j \in 1..len+1 : j \in 1..len \/ j = len + 1
  BY <1>1
<1>4. /\ \A j \in 1..len : asm[j] \in Seq(Line) /\ Len(asm[j]) \in Nat
      /\ Len(b) \in Nat
  BY <1>1, ElementOfSeq, LenProperties
<1>5. ASSUME NEW c \in Seq(Line), NEW l \in 1..Len(c) PROVE c[l].lbl.num \in Nat
  <2>1. c[l] \in Line
    BY ElementOfSeq
  <2>2. c[l].lbl \in LabelName
    BY <2>1 DEF Line
  <2> QED BY <2>2 DEF LabelName
<1> HIDE DEF len
<1>6. LabelsBelow'
  <2> SUFFICES ASSUME NEW j \in 1..len+1, NEW l \in 1..Len(asm'[j]), LabelAt(asm'[j], l)
               PROVE  asm'[j][l].lbl.num < label_counter'
    BY <1>2 DEF LabelsBelow, LabelAt
  <2>1. CASE j \in 1..len
    <3>1. asm'[j] = asm[j] /\ asm[j] \in Seq(Line)
      BY <2>1, <1>2, <1>4
    <3>2. asm[j][l].lbl.num < label_counter
      BY <2>1, <3>1 DEF LabelsBelow, len
    <3>3. asm[j][l].lbl.num \in Nat
      BY <3>1, <1>5
    <3>4. \A x \in Nat : x < label_counter => x < label_counter'
      BY <1>1
    <3> QED BY <3>1, <3>2, <3>3, <3>4
  <2>2. CASE j = len + 1
    <3>1. b[l].lbl.num \in label_counter..label_counter'-1
      BY <2>2, <1>2 DEF BlockText
    <3> QED BY <3>1, <2>2, <1>1, <1>2
  <2> QED BY <2>1, <2>2, <1>3
<1>7. ASSUME NEW j \in 1..len+1, NEW l \in 1..Len(asm'[j]),
             NEW k \in 1..len+1, NEW m \in 1..Len(asm'[k]),
             LabelAt(asm'[j], l), LabelAt(asm'[k], m), asm'[j][l].lbl = asm'[k][m].lbl
      PROVE  j = k /\ l = m
  <2>0. ASSUME NEW i \in 1..len, NEW h \in 1..Len(asm[i]), NEW g \in 1..Len(b),
               LabelAt(asm[i], h), LabelAt(b, g)
        PROVE  asm[i][h].lbl # b[g].lbl
    <3>1. asm[i][h].lbl.num < label_counter
      BY <2>0 DEF LabelsBelow, len
    <3>2. b[g].lbl.num \in label_counter..label_counter'-1
      BY <2>0 DEF BlockText
    <3>3. asm[i][h].lbl.num \in Nat
      BY <1>4, <1>5
    <3>4. \A x \in Nat : \A y \in label_counter..label_counter'-1 : x < label_counter => x # y
      BY <1>1
    <3>5. asm[i][h].lbl.num # b[g].lbl.num
      BY <3>1, <3>2, <3>3, <3>4
    <3> QED BY <3>5
  <2>1. CASE j \in 1..len /\ k \in 1..len
    <3>1. asm'[j] = asm[j] /\ asm'[k] = asm[k]
      BY <2>1, <1>2
    <3>2. <<j, l>> \in LabelPositions /\ <<k, m>> \in LabelPositions
      <4>1. \A i \in 1..len : \A h \in 1..Len(asm[i]) :
              asm[i][h].op = "label" => <<i, h>> \in LabelPositions
        BY DEF LabelPositions, len
      <4>2. /\ l \in 1..Len(asm[j]) /\ asm[j][l].op = "label"
            /\ m \in 1..Len(asm[k]) /\ asm[k][m].op = "label"
        BY <3>1, <1>7 DEF LabelAt
      <4> QED BY <2>1, <4>1, <4>2
    <3>3. asm[j][l].lbl = asm[k][m].lbl
      BY <3>1, <1>7
    <3>4. \A x, y \in LabelPositions : asm[x[1]][x[2]].lbl = asm[y[1]][y[2]].lbl => x = y
      BY DEF CodeAssembles
    <3> HIDE DEF CodeAssembles
    <3>5. <<j, l>> = <<k, m>>
      BY <3>2, <3>3, <3>4
    <3> QED BY <3>5
  <2>2. CASE j \in 1..len /\ k = len + 1
    BY <2>0, <2>2, <1>2, <1>7
  <2>3. CASE j = len + 1 /\ k \in 1..len
    BY <2>0, <2>3, <1>2, <1>7
  <2>4. CASE j = len + 1 /\ k = len + 1
    BY <2>4, <1>2, <1>7 DEF BlockText
  <2> QED BY <2>1, <2>2, <2>3, <2>4, <1>3
<1>8. \A p, q \in LabelPositions' : asm'[p[1]][p[2]].lbl = asm'[q[1]][q[2]].lbl => p = q
  <2>1. ASSUME NEW x \in LabelPositions'
        PROVE  \E j \in 1..len+1 : \E l \in 1..Len(asm'[j]) : x = <<j, l>> /\ LabelAt(asm'[j], l)
    <3>1. x \in PositionsIn(asm')
      BY DEF LabelPositions, PositionsIn
    <3> QED BY <3>1, <1>2, PositionOfLabel
  <2> SUFFICES ASSUME NEW p \in LabelPositions', NEW q \in LabelPositions',
                      asm'[p[1]][p[2]].lbl = asm'[q[1]][q[2]].lbl
               PROVE  p = q
    OBVIOUS
  <2>2. PICK j \in 1..len+1 : \E l \in 1..Len(asm'[j]) : p = <<j, l>> /\ LabelAt(asm'[j], l)
    BY <2>1
  <2>3. PICK k \in 1..len+1 : \E m \in 1..Len(asm'[k]) : q = <<k, m>> /\ LabelAt(asm'[k], m)
    BY <2>1
  <2>4. PICK l \in 1..Len(asm'[j]) : p = <<j, l>> /\ LabelAt(asm'[j], l)
    BY <2>2
  <2>5. PICK m \in 1..Len(asm'[k]) : q = <<k, m>> /\ LabelAt(asm'[k], m)
    BY <2>3
  <2>6. p[1] = j /\ p[2] = l /\ q[1] = k /\ q[2] = m
    BY <2>4, <2>5
  <2>7. j = k /\ l = m
    BY <2>4, <2>5, <2>6, <1>7
  <2> QED BY <2>4, <2>5, <2>7
<1>9. ASSUME NEW j \in 1..len+1, NEW l \in 1..Len(asm'[j])
      PROVE  /\ asm'[j][l].op \in {"beqz", "j"} =>
                  \E m \in l+1..Len(asm'[j]) : asm'[j][m].op = "label" /\ asm'[j][m].lbl = asm'[j][l].lbl
             /\ InputsInPool => Range(asm'[j][l].src) \cup {asm'[j][l].rd} \subseteq Range(Pool) \cup {NoReg}
  <2>1. CASE j \in 1..len
    <3>1. asm'[j] = asm[j]
      BY <2>1, <1>2
    <3>2. l \in 1..Len(asm[j]) /\ j \in 1..Len(asm)
      BY <2>1, <3>1 DEF len
    <3>3. asm[j][l].op \in {"beqz", "j"} =>
            \E m \in l+1..Len(asm[j]) : asm[j][m].op = "label" /\ asm[j][m].lbl = asm[j][l].lbl
      BY <3>2 DEF CodeAssembles
    <3>4. InputsInPool => Range(asm[j][l].src) \cup {asm[j][l].rd} \subseteq Range(Pool) \cup {NoReg}
      BY <3>2 DEF CodeAssembles, InputsInPool
    <3> QED BY <3>1, <3>3, <3>4
  <2>2. CASE j = len + 1
    <3>1. asm'[j] = b
      BY <2>2, <1>2
    <3>2. /\ b[l].op \in {"beqz", "j"} =>
               \E m \in l+1..Len(b) : b[m].op = "label" /\ b[m].lbl = b[l].lbl
          /\ Range(b[l].src) \cup {b[l].rd} \subseteq R \cup {NoReg}
      BY <3>1 DEF BlockText
    <3> QED BY <3>1, <3>2
  <2> QED BY <2>1, <2>2, <1>3
<1>10. CodeAssembles'
  <2>1. 1..Len(asm') = 1..len+1
    BY <1>2 DEF len
  <2>2. InputsInPool' <=> InputsInPool
    BY <1>2 DEF InputsInPool
  <2>3. \A p, q \in LabelPositions' : asm'[p[1]][p[2]].lbl = asm'[q[1]][q[2]].lbl => p = q
    BY <1>8
  <2>4. ASSUME NEW j \in 1..Len(asm'), NEW l \in 1..Len(asm'[j])
        PROVE  /\ asm'[j][l].op \in {"beqz", "j"} =>
                    \E m \in l+1..Len(asm'[j]) : asm'[j][m].op = "label" /\ asm'[j][m].lbl = asm'[j][l].lbl
               /\ InputsInPool' =>
                    Range(asm'[j][l].src) \cup {asm'[j][l].rd} \subseteq Range(Pool) \cup {NoReg}
    <3>1. j \in 1..len+1
      BY <2>1
    <3>2. asm'[j][l].op \in {"beqz", "j"} =>
            \E m \in l+1..Len(asm'[j]) : asm'[j][m].op = "label" /\ asm'[j][m].lbl = asm'[j][l].lbl
      BY <3>1, <1>9
    <3>3. InputsInPool => Range(asm'[j][l].src) \cup {asm'[j][l].rd} \subseteq Range(Pool) \cup {NoReg}
      BY <3>1, <1>9
    <3> QED BY <3>2, <3>3, <2>2
  <2> QED BY <2>3, <2>4 DEF CodeAssembles, InputsInPool
<1> QED BY <1>6, <1>10

LEMMA TextInit == Init => LabelsBelow /\ CodeAssembles
<1> SUFFICES ASSUME Init PROVE LabelsBelow /\ CodeAssembles
  OBVIOUS
<1>1. Len(asm) = 0 /\ 1..Len(asm) = {}
  BY DEF Init
<1>2. LabelPositions = {}
  BY <1>1 DEF LabelPositions
<1> QED BY <1>1, <1>2 DEF LabelsBelow, CodeAssembles

(* The steps that emit a block: what is in hand is what the block names.   *)
LEMMA LowerNodeText == TextInv /\ LowerNode => LabelsBelow' /\ CodeAssembles'
<1> SUFFICES ASSUME TextInv, LowerNode PROVE LabelsBelow' /\ CodeAssembles'
  OBVIOUS
<1>0. /\ Accepted /\ TypeOK /\ NoAlias /\ LiveMapped /\ Conserved
      /\ LabelsBelow /\ CodeAssembles
  BY DEF TextInv, RegInv, IInv
<1> DEFINE node == Node(graph, step)
           F    == FreeAfterFree
           Kept == MapAfterFree
           rd   == Head(F)
           b    == EmitNode(node, Kept, rd, label_counter)
<1>1. /\ outcome = "running" /\ node.op # "return" /\ F # <<>>
      /\ asm' = Append(asm, b) /\ label_counter' = label_counter + LabelsUsed(node)
      /\ graph' = graph
  BY DEF LowerNode
<1>2. /\ WellFormed(graph) /\ step \in 0..NSteps(graph)-1 /\ label_counter \in Nat
      /\ graph.allI32
  BY <1>0, <1>1 DEF TypeOK, Accepted
<1>3. node \in GraphNode /\ Len(node.operands) = ARITY[node.op]
  BY <1>2, NodeFacts
<1>4. InHand = Usable /\ Range(Kept) \cup Range(F) = InHand /\ F \in Seq(Reg)
  BY <1>0, <1>1, <1>2, FreeingConserves, AfterFree DEF Conserved
<1>5. rd \in Usable /\ rd \in Reg
  <2>1. rd = F[1] /\ rd \in Reg /\ 1 \in DOMAIN F
    <3> HIDE DEF F
    <3> QED BY <1>1, <1>4, HeadTailProperties, LenProperties, EmptySeq
  <2>2. rd \in Range(F)
    BY <2>1 DEF Range
  <2> QED BY <2>1, <2>2, <1>4
<1>6. \A i \in 1..Len(node.operands) :
        Kept[node.operands[i]] \in Usable /\ Kept[node.operands[i]] \in Reg
  <2> SUFFICES ASSUME NEW i \in 1..Len(node.operands)
               PROVE  Kept[node.operands[i]] \in Usable /\ Kept[node.operands[i]] \in Reg
    OBVIOUS
  <2>1. node.operands[i] \in DOMAIN Kept /\ Kept[node.operands[i]] \in Reg
    BY <1>0, <1>1, OperandsKept
  <2>2. Kept[node.operands[i]] \in Range(Kept)
    BY <2>1 DEF Range
  <2> QED BY <2>1, <2>2, <1>4
<1> HIDE DEF node, F, Kept, rd
<1>7. b \in Seq(Line)
  <2>1. BlockFor(b, node, Kept, rd)
    <3> HIDE DEF b
    <3>1. b = EmitNode(node, Kept, rd, label_counter)
      BY DEF b
    <3> QED BY <3>1, <1>1, <1>2, <1>3, <1>5, <1>6, EmitNodeFacts
  <2> QED BY <2>1 DEF BlockFor
<1>8. BlockText(b, label_counter, label_counter + LabelsUsed(node), Usable)
  BY <1>1, <1>2, <1>3, <1>5, <1>6, EmitNodeText
<1>9. LabelsUsed(node) \in Nat
  BY DEF LabelsUsed
<1>10. InputsInPool => Usable \subseteq Range(Pool)
  BY DEF InputsInPool, Usable
<1> HIDE DEF b
<1>11. label_counter' \in Nat /\ label_counter <= label_counter'
  BY <1>1, <1>2, <1>9
<1>12. BlockText(b, label_counter, label_counter', Usable)
  BY <1>1, <1>8
<1> QED BY <1>0, <1>1, <1>7, <1>10, <1>11, <1>12, AppendText

LEMMA LowerReturnText == TextInv /\ LowerReturn => LabelsBelow' /\ CodeAssembles'
<1> SUFFICES ASSUME TextInv, LowerReturn PROVE LabelsBelow' /\ CodeAssembles'
  OBVIOUS
<1>0. /\ Accepted /\ TypeOK /\ NoAlias /\ LiveMapped /\ Conserved
      /\ LabelsBelow /\ CodeAssembles
  BY DEF TextInv, RegInv, IInv
<1> DEFINE src == MapAfterFree[Node(graph, step).operands[1]]
           b   == EmitReturn(src)
           R   == Usable \cup {ArgReg[1]}
<1>1. /\ outcome = "running" /\ Node(graph, step).op = "return"
      /\ asm' = Append(asm, b) /\ label_counter' = label_counter /\ graph' = graph
  BY DEF LowerReturn
<1>2. /\ WellFormed(graph) /\ step \in 0..NSteps(graph)-1 /\ label_counter \in Nat
      /\ graph.allI32
  BY <1>0, <1>1 DEF TypeOK, Accepted
<1>3. 1 \in 1..Len(Node(graph, step).operands)
  <2>1. Len(Node(graph, step).operands) = ARITY["return"]
    BY <1>1, <1>2, NodeFacts
  <2>2. ARITY["return"] = 1
    BY Arities
  <2> QED BY <2>1, <2>2
<1>4. src \in Usable /\ src \in Reg
  <2>1. Node(graph, step).operands[1] \in DOMAIN MapAfterFree /\ src \in Reg
    BY <1>0, <1>1, <1>3, OperandsKept
  <2>2. src \in Range(MapAfterFree)
    BY <2>1 DEF Range
  <2>3. Range(MapAfterFree) \subseteq Usable
    BY <1>0, <1>1, <1>2, FreeingConserves DEF Conserved
  <2> QED BY <2>1, <2>2, <2>3
<1> HIDE DEF src
<1>5. b \in Seq(Line)
  BY <1>4, EmitReturnFacts
<1>6. BlockText(b, label_counter, label_counter, R)
  BY <1>2, <1>4, EmitReturnText
<1>7. InputsInPool => R \subseteq Range(Pool)
  BY ResultRegAssumption DEF InputsInPool, Usable
<1> HIDE DEF b, R
<1>8. label_counter' \in Nat /\ label_counter <= label_counter'
  BY <1>1, <1>2
<1>9. BlockText(b, label_counter, label_counter', R)
  BY <1>1, <1>6
<1> QED BY <1>0, <1>1, <1>5, <1>7, <1>8, <1>9, AppendText

LEMMA TextNext == TextInv /\ [Next]_vars => LabelsBelow' /\ CodeAssembles'
<1> SUFFICES ASSUME TextInv, [Next]_vars PROVE LabelsBelow' /\ CodeAssembles'
  OBVIOUS
<1>1. CASE LowerNode
  BY <1>1, LowerNodeText
<1>2. CASE LowerReturn
  BY <1>2, LowerReturnText
<1>3. CASE RejectTypes \/ Enter \/ OutOfRegisters \/ UNCHANGED vars
  <2>1. asm' = asm /\ graph' = graph /\ label_counter' = label_counter
    BY <1>3 DEF RejectTypes, Enter, OutOfRegisters, vars
  <2>2. LabelsBelow /\ CodeAssembles
    BY DEF TextInv
  <2>3. LabelsBelow'
    BY <2>1, <2>2 DEF LabelsBelow
  <2>4. CodeAssembles'
    <3>1. LabelPositions' = LabelPositions
      BY <2>1 DEF LabelPositions
    <3> QED BY <2>1, <2>2, <3>1 DEF CodeAssembles
  <2> QED BY <2>3, <2>4
<1> QED BY <1>1, <1>2, <1>3 DEF Next

(* Labels below the counter and an assembling text, throughout every call. *)
THEOREM TextInvariance == Spec => []TextInv
<1>1. Init => LabelsBelow /\ CodeAssembles
  BY TextInit
<1>2. TextInv /\ [Next]_vars => LabelsBelow' /\ CodeAssembles'
  BY TextNext
<1> QED BY <1>1, <1>2, RegisterInvariance, PTL DEF Spec, TextInv

(* The text lower() emits assembles: its labels are unique, its branches   *)
(* go forward within their block, and its registers are the target's as    *)
(* long as the inputs have argument registers.                             *)
THEOREM TextAssembles == Spec => []CodeAssembles
<1>1. TextInv => CodeAssembles
  BY DEF TextInv
<1> QED BY <1>1, TextInvariance, PTL

-----------------------------------------------------------------------------
(***************************************************************************)
(* Part two: the emitted text runs.                                        *)
(***************************************************************************)

-----------------------------------------------------------------------------
(* Registers and words.                                                    *)

(* The bit operations commute with sign extension, so the whole-register   *)
(* and, or, xor, xori of the target compute those of the 32-bit operands;  *)
(* a -w form reads the operand back; beqz sees zero exactly for zero.      *)
LEMMA BitTypes ==
  /\ \A a, b \in Word : AndBits(a, b) \in Word /\ OrBits(a, b) \in Word /\ XorBits(a, b) \in Word
  /\ \A a \in Word : NotBits(a) \in Word
  /\ \A x, y \in XWord : AndBits(x, y) \in XWord /\ OrBits(x, y) \in XWord /\ XorBits(x, y) \in XWord
<1>1. \A a, b \in Word : AndBits(a, b) \in Word /\ OrBits(a, b) \in Word /\ XorBits(a, b) \in Word
  BY DEF Word, Bit, AndBits, OrBits, XorBits
<1>2. \A a \in Word : NotBits(a) \in Word
  BY DEF Word, Bit, NotBits
<1>3. \A x, y \in XWord : AndBits(x, y) \in XWord /\ OrBits(x, y) \in XWord /\ XorBits(x, y) \in XWord
  BY DEF XWord, Bit, AndBits, OrBits, XorBits
<1> QED BY <1>1, <1>2, <1>3

LEMMA SextFacts ==
  ASSUME NEW w \in Word
  PROVE  Sext(w) \in XWord /\ Low(Sext(w)) = w /\ (Sext(w) = ZeroXWord <=> w = ZeroWord)
<1>1. /\ W \in Nat \ {0} /\ X \in Nat /\ W <= X /\ W - 1 \in 0..W-1
      /\ \A i \in 0..W-1 : i \in 0..X-1 /\ i < W
  BY WidthAssumption
<1>2. /\ \A i \in 0..W-1 : w[i] \in Bit
      /\ w = [i \in 0..W-1 |-> w[i]]
  BY DEF Word
<1>3. /\ \A i \in 0..X-1 : Sext(w)[i] = IF i < W THEN w[i] ELSE w[W-1]
      /\ \A i \in 0..W-1 : Sext(w)[i] = w[i]
  BY <1>1 DEF Sext
<1>4. Sext(w) \in XWord
  BY WordTypes
<1>5. Low(Sext(w)) = w
  BY <1>2, <1>3 DEF Low
<1>6. ASSUME w = ZeroWord PROVE Sext(w) = ZeroXWord
  <2>1. \A i \in 0..W-1 : w[i] = 0
    BY <1>6 DEF ZeroWord
  <2>2. \A i \in 0..X-1 : i < W => i \in 0..W-1
    BY <1>1
  <2> QED BY <2>1, <2>2, <1>1 DEF Sext, ZeroXWord
<1>7. ASSUME Sext(w) = ZeroXWord PROVE w = ZeroWord
  <2>1. \A i \in 0..W-1 : w[i] = 0
    BY <1>7, <1>1, <1>3 DEF ZeroXWord
  <2> QED BY <2>1, <1>2 DEF ZeroWord
<1> QED BY <1>4, <1>5, <1>6, <1>7

LEMMA SextBits ==
  ASSUME NEW a \in Word, NEW b \in Word
  PROVE  /\ AndBits(Sext(a), Sext(b)) = Sext(AndBits(a, b))
         /\ OrBits(Sext(a), Sext(b)) = Sext(OrBits(a, b))
         /\ XorBits(Sext(a), Sext(b)) = Sext(XorBits(a, b))
         /\ XorBits(Sext(a), OnesXWord) = Sext(NotBits(a))
<1>1. /\ DOMAIN a = 0..W-1 /\ DOMAIN b = 0..W-1 /\ DOMAIN Sext(a) = 0..X-1 /\ DOMAIN Sext(b) = 0..X-1
      /\ \A i \in 0..W-1 : a[i] \in {0, 1} /\ b[i] \in {0, 1}
  BY DEF Word, Bit, Sext
<1>2. \A i \in 0..X-1 : i < W => i \in 0..W-1
  BY WidthAssumption
<1>3. W - 1 \in 0..W-1
  BY WidthAssumption
<1>4. AndBits(Sext(a), Sext(b)) = Sext(AndBits(a, b))
  BY <1>1, <1>2, <1>3 DEF AndBits, Sext
<1>5. OrBits(Sext(a), Sext(b)) = Sext(OrBits(a, b))
  BY <1>1, <1>2, <1>3 DEF OrBits, Sext
<1>6. XorBits(Sext(a), Sext(b)) = Sext(XorBits(a, b))
  BY <1>1, <1>2, <1>3 DEF XorBits, Sext
<1>7. XorBits(Sext(a), OnesXWord) = Sext(NotBits(a))
  <2> DEFINE l == XorBits(Sext(a), OnesXWord)
             r == Sext(NotBits(a))
  <2>1. /\ l = [i \in 0..X-1 |-> IF Sext(a)[i] = OnesXWord[i] THEN 0 ELSE 1]
        /\ r = [i \in 0..X-1 |-> r[i]]
    BY <1>1 DEF XorBits, Sext
  <2>2. \A i \in 0..X-1 : OnesXWord[i] = 1 /\ Sext(a)[i] = IF i < W THEN a[i] ELSE a[W-1]
    BY DEF OnesXWord, Sext
  <2>3. \A i \in 0..W-1 : NotBits(a)[i] = 1 - a[i]
    BY <1>1 DEF NotBits
  <2>4. \A i \in 0..X-1 : r[i] = IF i < W THEN 1 - a[i] ELSE 1 - a[W-1]
    BY <1>2, <1>3, <2>3 DEF Sext
  <2>5. \A i \in 0..W-1 : 1 - a[i] = IF a[i] = 1 THEN 0 ELSE 1
    BY <1>1
  <2>6. \A i \in 0..X-1 : r[i] = IF Sext(a)[i] = OnesXWord[i] THEN 0 ELSE 1
    BY <1>2, <1>3, <2>2, <2>4, <2>5
  <2> HIDE DEF l, r
  <2>7. l = r
    BY <2>1, <2>6
  <2> QED BY <2>7 DEF l, r
<1> QED BY <1>4, <1>5, <1>6, <1>7

(* The machine's words are the lowering's.                                 *)
LEMMA SameWords ==
  /\ M!ZeroWord = ZeroWord /\ M!ZeroXWord = ZeroXWord
  /\ \A w : M!Sext(w) = Sext(w) /\ M!Low(w) = Low(w)
  /\ \A x, y : /\ M!AndBits(x, y) = AndBits(x, y) /\ M!OrBits(x, y) = OrBits(x, y)
               /\ M!XorBits(x, y) = XorBits(x, y)
<1>1. M!ZeroWord = ZeroWord /\ M!ZeroXWord = ZeroXWord
  BY DEF M!ZeroWord, ZeroWord, M!ZeroXWord, ZeroXWord
<1>2. \A w : M!Sext(w) = Sext(w) /\ M!Low(w) = Low(w)
  BY DEF M!Sext, Sext, M!Low, Low
<1>3. \A x, y : M!AndBits(x, y) = AndBits(x, y) /\ M!OrBits(x, y) = OrBits(x, y)
  BY DEF M!AndBits, AndBits, M!OrBits, OrBits
<1>4. \A x, y : M!XorBits(x, y) = XorBits(x, y)
  BY DEF M!XorBits, XorBits
<1> QED BY <1>1, <1>2, <1>3, <1>4

(* What one line does, by its mnemonic.                                    *)
Here == asm[pc[1]][pc[2]]
Operand(i) == regs[Here.src[i]]

Sets(x) ==
  regs' = [regs EXCEPT ![Here.rd] = x] /\ pc' = M!NextPoint /\ halted' = halted
Goes(p) == regs' = regs /\ pc' = p /\ halted' = halted

LEMMA LineEffect ==
  ASSUME M!Step
  PROVE  /\ ~halted /\ asm' = asm
         /\ Here.op = "li"   => Sets(Here.imm)
         /\ Here.op = "mv"   => Sets(Operand(1))
         /\ Here.op \in M!WForms => Sets(Sext(WInsn(Here.op, Low(Operand(1)), Low(Operand(2)))))
         /\ Here.op = "negw" => Sets(Sext(WInsn("subw", ZeroWord, Low(Operand(1)))))
         /\ Here.op = "and"  => Sets(AndBits(Operand(1), Operand(2)))
         /\ Here.op = "or"   => Sets(OrBits(Operand(1), Operand(2)))
         /\ Here.op = "xor"  => Sets(XorBits(Operand(1), Operand(2)))
         /\ Here.op = "xori" => Sets(XorBits(Operand(1), Here.imm))
         /\ Here.op = "beqz" =>
              IF Operand(1) = ZeroXWord THEN \E t \in M!Targets(Here.lbl) : Goes(t)
                                        ELSE Goes(M!NextPoint)
         /\ Here.op = "j"     => \E t \in M!Targets(Here.lbl) : Goes(t)
         /\ Here.op = "label" => Goes(M!NextPoint)
         /\ Here.op = "ret"   => halted' = TRUE /\ regs' = regs /\ pc' = pc
<1>1. M!line = Here /\ \A i : M!val(i) = Operand(i)
  BY DEF M!line, Here, M!val, Operand
<1>2. \A x : M!SetReg(x) => Sets(x) /\ asm' = asm
  BY <1>1 DEF M!SetReg, Sets
<1>3. \A p : M!Goto(p) => Goes(p) /\ asm' = asm
  BY DEF M!Goto, Goes
<1> USE DEF M!WForms, M!Bitwise3
<1>4. CASE M!LoadImm
  BY <1>1, <1>2, <1>4 DEF M!Step, M!LoadImm
<1>5. CASE M!Move
  BY <1>1, <1>2, <1>5 DEF M!Step, M!Move
<1>6. CASE M!WordOp
  BY <1>1, <1>2, <1>6, SameWords DEF M!Step, M!WordOp
<1>7. CASE M!NegWord
  BY <1>1, <1>2, <1>7, SameWords DEF M!Step, M!NegWord
<1>8. CASE M!BitwiseOp
  BY <1>1, <1>2, <1>8, SameWords DEF M!Step, M!BitwiseOp
<1>9. CASE M!XorImm
  BY <1>1, <1>2, <1>9, SameWords DEF M!Step, M!XorImm
<1>10. CASE M!BranchIfZero
  BY <1>1, <1>3, <1>10, SameWords DEF M!Step, M!BranchIfZero
<1>11. CASE M!Jump
  BY <1>1, <1>3, <1>11 DEF M!Step, M!Jump
<1>12. CASE M!Label
  BY <1>1, <1>3, <1>12 DEF M!Step, M!Label
<1>13. CASE M!Ret
  BY <1>1, <1>13 DEF M!Step, M!Ret
<1> QED BY <1>4, <1>5, <1>6, <1>7, <1>8, <1>9, <1>10, <1>11, <1>12, <1>13 DEF M!Step

-----------------------------------------------------------------------------
(* The inductive invariant of the pipeline.                                *)
WordOrUB == Word \cup {UB}

(* The interpreter: what it has evaluated so far is what the nodes mean.   *)
ValsOK ==
  /\ Todo \in 0..NSteps(graph)-1
  /\ DOMAIN vals = 0..graph.n_in+Todo-1
  /\ vals \in [DOMAIN vals -> WordOrUB]
  /\ \A ref \in 0..graph.n_in-1 : vals[ref] \in Word
  /\ \A ref \in graph.n_in..graph.n_in+Todo-1 :
       vals[ref] = InterpretNode(Node(graph, ref - graph.n_in), vals)

(* The three programs take turns; before the function runs, the registers  *)
(* are those of the call.                                                  *)
InTurn ==
  /\ regs \in [Reg -> XWord]
  /\ outcome # "called" => Interpreted
  /\ outcome = "returned" => step = NSteps(graph) - 1
  /\ outcome # "returned" =>
       /\ pc = <<1, 1>> /\ halted = FALSE
       /\ \A i \in 0..graph.n_in-1 : regs[ArgReg[i + 1]] = Sext(vals[i])

(* The blocks are those of the nodes, for some registers and labels.       *)
NodeBlock(b, node, m, rd, n) ==
  /\ rd \in Reg /\ n \in Nat
  /\ \A i \in 1..Len(node.operands) : m[node.operands[i]] \in Reg
  /\ b = EmitNode(node, m, rd, n)

Shaped ==
  \A k \in 0..Len(asm)-1 :
    IF Node(graph, k).op = "return"
    THEN \E src \in Reg : asm[k + 1] = EmitReturn(src)
    ELSE \E m, rd, n : NodeBlock(asm[k + 1], Node(graph, k), m, rd, n)

(* Register file rs in front of block k: a register that holds a defined   *)
(* value by the dataflow of the code contains it.                          *)
HoldIn(rs, k) ==
  \A r \in Reg : \A ref \in 0..graph.n_in+k-1 :
    Holds(asm, graph.n_in, r, ref, k) /\ vals[ref] # UB => rs[r] = Sext(vals[ref])

(* The value of node k, if it has one, is that of its i-th operand.        *)
Chosen(k, i) ==
  vals[graph.n_in + k] # UB => vals[graph.n_in + k] = vals[Node(graph, k).operands[i]]

Ready(rs) == Result # UB => rs[ArgReg[1]] = Sext(Result)

(* With register file rs, at line l of block k.                            *)
AtPoint(rs, k, l) ==
  \/ l = 1 /\ HoldIn(rs, k)
  \/ Node(graph, k).op = "select" /\ l = 2 /\ HoldIn(rs, k) /\ Chosen(k, 2)
  \/ Node(graph, k).op = "select" /\ l \in {4, 5} /\ HoldIn(rs, k) /\ Chosen(k, 3)
  \/ Node(graph, k).op = "select" /\ l \in {3, 6} /\ HoldIn(rs, k + 1)
  \/ Node(graph, k).op = "return" /\ l = 2 /\ Len(asm[k + 1]) = 2 /\ Ready(rs)

RunsFrom(rs, p, h) ==
  /\ p \in (1..NSteps(graph)) \X (1..6)
  /\ IF h THEN Ready(rs) ELSE AtPoint(rs, p[1] - 1, p[2])

Running == outcome = "returned" => RunsFrom(regs, pc, halted)

PipeInv == TextInv /\ Shaped /\ ValsOK /\ InTurn /\ Running

-----------------------------------------------------------------------------
(* The lowering inside the pipeline is the lowering.                       *)
LEMMA StepLowers == [RunNext]_allVars => [Next]_vars
<1> SUFFICES ASSUME [RunNext]_allVars PROVE [Next]_vars
  OBVIOUS
<1>1. CASE Interpret
  BY <1>1 DEF Interpret
<1>2. CASE Lower
  BY <1>2 DEF Lower
<1>3. CASE Run
  <2>1. asm' = asm
    BY <1>3, LineEffect DEF Run
  <2> QED BY <1>3, <2>1 DEF Run, vars
<1>4. CASE UNCHANGED allVars
  BY <1>4 DEF allVars
<1> QED BY <1>1, <1>2, <1>3, <1>4 DEF RunNext

LEMMA RunLowers == RunSpec => Spec
<1>1. RunInit => Init
  BY DEF RunInit
<1> QED BY <1>1, StepLowers, PTL DEF RunSpec, Spec

LEMMA ShapedNext == TextInv /\ Shaped /\ [Next]_vars => Shaped'
<1> SUFFICES ASSUME TextInv, Shaped, [Next]_vars PROVE Shaped'
  OBVIOUS
<1>0. Accepted /\ TypeOK /\ NoAlias /\ LiveMapped
  BY DEF TextInv, RegInv, IInv
<1>1. asm \in Seq(Seq(Line)) /\ Len(asm) \in Nat
  BY <1>0, LenProperties DEF TypeOK
<1>2. ASSUME NEW b, asm' = Append(asm, b), graph' = graph,
             IF Node(graph, Len(asm)).op = "return"
             THEN \E src \in Reg : b = EmitReturn(src)
             ELSE \E m, rd, n : NodeBlock(b, Node(graph, Len(asm)), m, rd, n)
      PROVE  Shaped'
  <2>0. asm \in Seq(Seq(Line) \cup {b}) /\ b \in Seq(Line) \cup {b}
    BY <1>1
  <2>1. /\ Len(asm') = Len(asm) + 1 /\ asm'[Len(asm) + 1] = b
        /\ \A j \in 1..Len(asm) : asm'[j] = asm[j]
    BY <1>2, <2>0, AppendProperties
  <2>2. ASSUME NEW k \in 0..Len(asm)
        PROVE  IF Node(graph, k).op = "return"
               THEN \E src \in Reg : asm'[k + 1] = EmitReturn(src)
               ELSE \E m, rd, n : NodeBlock(asm'[k + 1], Node(graph, k), m, rd, n)
    <3>1. CASE k = Len(asm)
      BY <3>1, <2>1, <1>2
    <3>2. CASE k # Len(asm)
      <4>1. k \in 0..Len(asm)-1 /\ k + 1 \in 1..Len(asm)
        BY <3>2, <1>1
      <4> QED BY <4>1, <2>1 DEF Shaped
    <3> QED BY <3>1, <3>2
  <2>3. 0..Len(asm')-1 = 0..Len(asm) /\ graph' = graph
    BY <2>1, <1>1, <1>2
  <2> QED BY <2>2, <2>3 DEF Shaped
<1>3. CASE LowerNode
  <2> DEFINE node == Node(graph, step)
             rd   == Head(FreeAfterFree)
             b    == EmitNode(node, MapAfterFree, rd, label_counter)
  <2>1. /\ outcome = "running" /\ node.op # "return" /\ FreeAfterFree # <<>>
        /\ asm' = Append(asm, b) /\ graph' = graph
    BY <1>3 DEF LowerNode
  <2>2. Len(asm) = step /\ label_counter \in Nat
    BY <1>0, <2>1 DEF TypeOK
  <2>3. rd \in Reg
    <3>1. FreeAfterFree \in Seq(Reg)
      BY <1>0, AfterFree
    <3> QED BY <3>1, <2>1, HeadTailProperties
  <2>4. \A i \in 1..Len(node.operands) : MapAfterFree[node.operands[i]] \in Reg
    BY <1>0, <2>1, OperandsKept
  <2>5. NodeBlock(b, node, MapAfterFree, rd, label_counter)
    BY <2>2, <2>3, <2>4 DEF NodeBlock
  <2> HIDE DEF b
  <2> QED BY <1>2, <2>1, <2>2, <2>5
<1>4. CASE LowerReturn
  <2> DEFINE src == MapAfterFree[Node(graph, step).operands[1]]
  <2>1. /\ outcome = "running" /\ Node(graph, step).op = "return"
        /\ asm' = Append(asm, EmitReturn(src)) /\ graph' = graph
    BY <1>4 DEF LowerReturn
  <2>2. Len(asm) = step
    BY <1>0, <2>1 DEF TypeOK
  <2>3. 1 \in 1..Len(Node(graph, step).operands)
    <3>1. Len(Node(graph, step).operands) = ARITY["return"]
      BY <1>0, <2>1, NodeFacts DEF TypeOK
    <3> QED BY <3>1, Arities
  <2>4. src \in Reg
    BY <1>0, <2>1, <2>3, OperandsKept
  <2> HIDE DEF src
  <2> QED BY <1>2, <2>1, <2>2, <2>4
<1>5. CASE RejectTypes \/ Enter \/ OutOfRegisters \/ UNCHANGED vars
  <2>1. asm' = asm /\ graph' = graph
    BY <1>5 DEF RejectTypes, Enter, OutOfRegisters, vars
  <2> QED BY <2>1 DEF Shaped
<1> QED BY <1>3, <1>4, <1>5 DEF Next

-----------------------------------------------------------------------------
(* Values are words or undefined.                                         *)
LEMMA ArithTypes ==
  /\ ZeroWord \in Word /\ "sub" \in ArithOps
  /\ \A op \in ArithOps : \A a, b \in Word : Arith(op, a, b) \in Word /\ WInsn(Mnemonic[op], a, b) \in Word
  /\ Mnemonic["sub"] = "subw"
  BY OpAssumption, WordTypes DEF OpsAgree, ArithOps, Mnemonic

(* A node has a value or is undefined, given that its operands are.        *)
LEMMA ValueType ==
  ASSUME NEW node \in GraphNode, node.op # "return",
         Len(node.operands) = ARITY[node.op],
         NEW v, \A i \in 1..Len(node.operands) : v[node.operands[i]] \in WordOrUB
  PROVE  InterpretNode(node, v) \in WordOrUB
<1>1. node.op \in NodeOps /\ node.val \in Word
  BY DEF GraphNode
<1>2. CASE node.op = "const"
  BY <1>1, <1>2 DEF InterpretNode, WordOrUB, ArithOps, BitOps, UnOps
<1>3. CASE node.op \in ArithOps \cup BitOps
  <2>1. v[node.operands[1]] \in WordOrUB /\ v[node.operands[2]] \in WordOrUB
    BY <1>3, Arities
  <2>2. \A a, b \in WordOrUB : BinValue(node.op, a, b) \in WordOrUB
    BY <1>3, BitTypes, ArithTypes DEF BinValue, WordOrUB, ArithOps, BitOps
  <2>3. InterpretNode(node, v) = BinValue(node.op, v[node.operands[1]], v[node.operands[2]])
    BY <1>3 DEF InterpretNode, ArithOps, BitOps, UnOps
  <2> QED BY <2>1, <2>2, <2>3
<1>4. CASE node.op \in UnOps
  <2>1. v[node.operands[1]] \in WordOrUB
    BY <1>4, Arities
  <2>2. \A a \in WordOrUB : UnValue(node.op, a) \in WordOrUB
    BY <1>4, BitTypes, ArithTypes DEF UnValue, WordOrUB, UnOps
  <2>3. InterpretNode(node, v) = UnValue(node.op, v[node.operands[1]])
    BY <1>4 DEF InterpretNode, ArithOps, BitOps, UnOps
  <2> QED BY <2>1, <2>2, <2>3
<1>5. CASE node.op = "select"
  <2>1. /\ v[node.operands[1]] \in WordOrUB /\ v[node.operands[2]] \in WordOrUB
        /\ v[node.operands[3]] \in WordOrUB
    BY <1>5, Arities
  <2>2. InterpretNode(node, v)
          = SelectValue(v[node.operands[1]], v[node.operands[2]], v[node.operands[3]])
    BY <1>5 DEF InterpretNode, ArithOps, BitOps, UnOps
  <2> QED BY <2>1, <2>2 DEF SelectValue, WordOrUB
<1> QED BY <1>1, <1>2, <1>3, <1>4, <1>5 DEF NodeOps

(* The value of a node depends on its operands alone.                      *)
LEMMA SameOperands ==
  ASSUME NEW node \in GraphNode, node.op # "return",
         Len(node.operands) = ARITY[node.op], NEW u, NEW v,
         \A i \in 1..Len(node.operands) : u[node.operands[i]] = v[node.operands[i]]
  PROVE  InterpretNode(node, u) = InterpretNode(node, v)
<1>1. node.op \in NodeOps
  BY DEF GraphNode
<1>2. CASE node.op = "const"
  BY <1>2 DEF InterpretNode, ArithOps, BitOps, UnOps
<1>3. CASE node.op \in ArithOps \cup BitOps
  <2>1. u[node.operands[1]] = v[node.operands[1]] /\ u[node.operands[2]] = v[node.operands[2]]
    BY <1>3, Arities
  <2>2. \A w : InterpretNode(node, w) = BinValue(node.op, w[node.operands[1]], w[node.operands[2]])
    BY <1>3 DEF InterpretNode, ArithOps, BitOps, UnOps
  <2> QED BY <2>1, <2>2
<1>4. CASE node.op \in UnOps
  <2>1. u[node.operands[1]] = v[node.operands[1]]
    BY <1>4, Arities
  <2>2. \A w : InterpretNode(node, w) = UnValue(node.op, w[node.operands[1]])
    BY <1>4 DEF InterpretNode, ArithOps, BitOps, UnOps
  <2> QED BY <2>1, <2>2
<1>5. CASE node.op = "select"
  <2>1. /\ u[node.operands[1]] = v[node.operands[1]] /\ u[node.operands[2]] = v[node.operands[2]]
        /\ u[node.operands[3]] = v[node.operands[3]]
    BY <1>5, Arities
  <2>2. \A w : InterpretNode(node, w)
          = SelectValue(w[node.operands[1]], w[node.operands[2]], w[node.operands[3]])
    BY <1>5 DEF InterpretNode, ArithOps, BitOps, UnOps
  <2> QED BY <2>1, <2>2
<1> QED BY <1>1, <1>2, <1>3, <1>4, <1>5 DEF NodeOps

-----------------------------------------------------------------------------
(* The first state, and the steps of the interpreter and of lower().       *)
LEMMA PipeInit == RunInit => Shaped /\ ValsOK /\ InTurn /\ Running
<1> SUFFICES ASSUME RunInit PROVE Shaped /\ ValsOK /\ InTurn /\ Running
  OBVIOUS
<1>1. graph \in Graphs /\ outcome = "called" /\ asm = <<>> /\ pc = <<1, 1>> /\ halted = FALSE
  BY DEF RunInit, Init
<1>2. WellFormed(graph) /\ graph.n_in <= Len(ArgReg)
  BY <1>1, GraphsAssumption
<1>3. graph.n_in \in Nat /\ NSteps(graph) \in Nat \ {0}
  <2>1. 0 \in 0..NSteps(graph)-1
    BY <1>2, LenProperties DEF WellFormed, Graph, NSteps
  <2> QED BY <2>1, <1>2, NodeFacts
<1>4. PICK rest \in InitialRegs : vals \in Inputs(graph) /\ regs = EntryRegs(graph, vals, rest)
  BY DEF RunInit
<1>5. vals \in [0..graph.n_in-1 -> Word] /\ rest \in [Reg -> XWord]
  BY <1>1, <1>4, RunAssumption
<1>6. Todo = 0
  <2>1. Cardinality(DOMAIN vals) = graph.n_in
    <3>1. DOMAIN vals = 0..graph.n_in-1
      BY <1>5
    <3>2. \A n \in Nat : Cardinality(0..n-1) = n
      BY FS_Interval
    <3> QED BY <3>1, <3>2, <1>3
  <2> QED BY <2>1, <1>3 DEF Todo
<1>7. Shaped
  <2>1. 0..Len(asm)-1 = {}
    BY <1>1
  <2> QED BY <2>1 DEF Shaped
<1>8. ValsOK
  BY <1>3, <1>5, <1>6 DEF ValsOK, WordOrUB
<1>9. InTurn
  <2>1. \A i \in 0..graph.n_in-1 : i + 1 \in 1..Len(ArgReg) /\ ArgReg[i + 1] \in Reg
    <3>1. \A i \in 0..graph.n_in-1 : i + 1 \in 1..Len(ArgReg)
      BY <1>2, <1>3, RegAssumption, LenProperties
    <3> QED BY <3>1, RegAssumption, ElementOfSeq
  <2>2. \A i, j \in 0..graph.n_in-1 : ArgReg[i + 1] = ArgReg[j + 1] => i = j
    <3>1. DOMAIN ArgReg = 1..Len(ArgReg)
      BY RegAssumption, LenProperties
    <3>2. ASSUME NEW i \in 0..graph.n_in-1, NEW j \in 0..graph.n_in-1,
                 ArgReg[i + 1] = ArgReg[j + 1]
          PROVE  i = j
      <4>1. i + 1 = j + 1
        BY <2>1, <3>1, <3>2, RegAssumption DEF IsInjective
      <4> QED BY <4>1, <1>3
    <3> QED BY <3>2
  <2>3. \A i \in 0..graph.n_in-1 : regs[ArgReg[i + 1]] = Sext(vals[i])
    <3> SUFFICES ASSUME NEW i \in 0..graph.n_in-1 PROVE regs[ArgReg[i + 1]] = Sext(vals[i])
      OBVIOUS
    <3> DEFINE c == CHOOSE j \in 0..graph.n_in-1 : ArgReg[i + 1] = ArgReg[j + 1]
    <3>1. c \in 0..graph.n_in-1 /\ ArgReg[i + 1] = ArgReg[c + 1]
      OBVIOUS
    <3>2. regs[ArgReg[i + 1]] = Sext(vals[c])
      BY <1>4, <2>1 DEF EntryRegs
    <3> HIDE DEF c
    <3>3. c = i
      BY <2>2, <3>1
    <3> QED BY <3>2, <3>3
  <2>4. regs \in [Reg -> XWord]
    <3>1. \A r \in Reg : EntryRegs(graph, vals, rest)[r] \in XWord
      <4> SUFFICES ASSUME NEW r \in Reg PROVE EntryRegs(graph, vals, rest)[r] \in XWord
        OBVIOUS
      <4>1. CASE \E i \in 0..graph.n_in-1 : r = ArgReg[i + 1]
        <5>1. (CHOOSE i \in 0..graph.n_in-1 : r = ArgReg[i + 1]) \in 0..graph.n_in-1
          BY <4>1
        <5> QED BY <4>1, <5>1, <1>5, WordTypes DEF EntryRegs
      <4>2. CASE ~ \E i \in 0..graph.n_in-1 : r = ArgReg[i + 1]
        BY <4>2, <1>5 DEF EntryRegs
      <4> QED BY <4>1, <4>2
    <3>2. EntryRegs(graph, vals, rest) = [r \in Reg |-> EntryRegs(graph, vals, rest)[r]]
      BY DEF EntryRegs
    <3> QED BY <3>1, <3>2, <1>4
  <2> QED BY <1>1, <2>3, <2>4 DEF InTurn
<1>10. Running
  BY <1>1 DEF Running
<1> QED BY <1>7, <1>8, <1>9, <1>10

LEMMA InterpretStep == PipeInv /\ Interpret => ValsOK' /\ InTurn' /\ Running'
<1> SUFFICES ASSUME PipeInv, Interpret PROVE ValsOK' /\ InTurn' /\ Running'
  OBVIOUS
<1> DEFINE n == graph.n_in
           t == Todo
           node == Node(graph, t)
           v == InterpretNode(node, vals)
<1>1. /\ ~Interpreted /\ graph' = graph /\ outcome' = outcome /\ regs' = regs
      /\ pc' = pc /\ halted' = halted /\ vals' = Bind(vals, n + t, v)
  BY DEF Interpret, vars
<1>2. TypeOK /\ ValsOK /\ InTurn
  BY DEF PipeInv, TextInv, RegInv, IInv
<1>3. outcome = "called"
  BY <1>1, <1>2 DEF InTurn
<1>4. /\ t \in 0..NSteps(graph)-1 /\ t # NSteps(graph) - 1
      /\ DOMAIN vals = 0..n+t-1 /\ \A ref \in 0..n+t-1 : vals[ref] \in WordOrUB
  BY <1>1, <1>2 DEF ValsOK, Interpreted
<1>5. /\ WellFormed(graph) /\ n \in Nat /\ NSteps(graph) \in Nat \ {0}
      /\ node \in GraphNode /\ node.op # "return"
      /\ Len(node.operands) = ARITY[node.op]
      /\ \A i \in 1..Len(node.operands) : node.operands[i] \in 0..n+t-1
  <2>1. WellFormed(graph)
    BY <1>2 DEF TypeOK
  <2> HIDE DEF t
  <2> QED BY <2>1, <1>4, NodeFacts
<1>6. v \in WordOrUB
  BY <1>4, <1>5, ValueType
<1> HIDE DEF v, node, n, t
<1>7. /\ DOMAIN vals' = 0..n+t /\ vals'[n + t] = v
      /\ \A ref \in 0..n+t-1 : vals'[ref] = vals[ref]
  BY <1>1, <1>4, <1>5 DEF Bind
<1>8. Todo' = t + 1
  <2>1. Cardinality(DOMAIN vals') = n + t + 1
    BY <1>4, <1>5, <1>7, FS_Interval
  <2>2. graph'.n_in = n
    BY <1>1 DEF n
  <2> QED BY <2>1, <2>2, <1>4, <1>5 DEF Todo
<1>9. \A ref \in 0..n+t : ref \in 0..n+t-1 \/ ref = n + t
  BY <1>4, <1>5
<1>10. \A ref \in 0..n+t : vals'[ref] \in WordOrUB
  BY <1>4, <1>6, <1>7, <1>9
<1>11. vals' = [ref \in 0..n+t |-> vals'[ref]]
  BY <1>1, <1>7 DEF Bind
<1>12. \A ref \in 0..n-1 : ref \in 0..n+t-1 /\ vals[ref] \in Word /\ vals'[ref] = vals[ref]
  BY <1>2, <1>4, <1>5, <1>7 DEF ValsOK, n
<1>13. \A ref \in n..n+t : vals'[ref] = InterpretNode(Node(graph, ref - n), vals')
  <2> SUFFICES ASSUME NEW ref \in n..n+t
               PROVE  vals'[ref] = InterpretNode(Node(graph, ref - n), vals')
    OBVIOUS
  <2> DEFINE q == Node(graph, ref - n)
  <2>1. ref - n \in 0..NSteps(graph)-1 /\ ref - n <= t /\ ref - n # NSteps(graph) - 1
    BY <1>4, <1>5
  <2>2. q.op # "return" /\ Len(q.operands) = ARITY[q.op]
    BY <2>1, <1>5, NodeFacts
  <2>3. \A i \in 1..Len(q.operands) : q.operands[i] \in 0..n+t-1
    <3>1. \A i \in 1..Len(q.operands) : q.operands[i] \in 0..n+(ref-n)-1
      BY <2>1, <1>5, NodeFacts DEF n
    <3> QED BY <3>1, <2>1, <1>4, <1>5
  <2>4. vals[ref] = InterpretNode(q, vals) \/ ref = n + t
    <3>1. ref = n + t \/ ref \in n..n+t-1
      BY <1>4, <1>5
    <3> QED BY <3>1, <1>2 DEF ValsOK, n, t
  <2>5. vals'[ref] = InterpretNode(q, vals)
    <3>1. CASE ref = n + t
      <4>1. q = node
        BY <3>1, <1>4, <1>5 DEF node
      <4> QED BY <3>1, <4>1, <1>7 DEF v
    <3>2. CASE ref # n + t
      <4>1. ref \in 0..n+t-1
        BY <3>2, <1>4, <1>5
      <4> QED BY <3>2, <4>1, <2>4, <1>7
    <3> QED BY <3>1, <3>2
  <2>6. q \in GraphNode
    BY <2>1, <1>5, NodeFacts
  <2> HIDE DEF q
  <2>7. InterpretNode(q, vals') = InterpretNode(q, vals)
    BY <2>2, <2>3, <2>6, <1>7, SameOperands
  <2> QED BY <2>5, <2>7 DEF q
<1>14. ValsOK'
  <2>1. Todo' \in 0..NSteps(graph')-1
    BY <1>1, <1>4, <1>5, <1>8
  <2>2. graph'.n_in = n /\ n + (t + 1) - 1 = n + t
    BY <1>1, <1>4, <1>5 DEF n
  <2>3. vals' \in [DOMAIN vals' -> WordOrUB]
    BY <1>7, <1>10, <1>11
  <2> QED BY <2>1, <2>2, <2>3, <1>1, <1>7, <1>8, <1>12, <1>13 DEF ValsOK
<1>15. InTurn'
  BY <1>1, <1>2, <1>3, <1>12 DEF InTurn, n
<1>16. Running'
  BY <1>1, <1>3 DEF Running
<1> QED BY <1>14, <1>15, <1>16

LEMMA LowerStep == PipeInv /\ Lower => ValsOK' /\ InTurn' /\ Running'
<1> SUFFICES ASSUME PipeInv, Lower PROVE ValsOK' /\ InTurn' /\ Running'
  OBVIOUS
<1>1. /\ Interpreted /\ Next /\ vals' = vals /\ regs' = regs /\ pc' = pc /\ halted' = halted
  BY DEF Lower, runVars
<1>2. graph' = graph /\ outcome # "returned" /\ (outcome' = "returned" => LowerReturn)
  BY <1>1 DEF Next, RejectTypes, Enter, LowerNode, OutOfRegisters, LowerReturn
<1>3. Todo' = Todo /\ Interpreted'
  BY <1>1, <1>2 DEF Todo, Interpreted
<1>4. TypeOK /\ ValsOK /\ InTurn
  BY DEF PipeInv, TextInv, RegInv, IInv
<1>5. ValsOK'
  BY <1>1, <1>2, <1>3, <1>4 DEF ValsOK
<1>6. /\ WellFormed(graph) /\ step \in 0..NSteps(graph)-1
  BY <1>4 DEF TypeOK
<1>7. outcome' = "returned" => step' = NSteps(graph') - 1
  BY <1>2, <1>6, NodeFacts DEF LowerReturn
<1>8. /\ pc = <<1, 1>> /\ halted = FALSE /\ regs \in [Reg -> XWord]
      /\ \A i \in 0..graph.n_in-1 : regs[ArgReg[i + 1]] = Sext(vals[i])
  BY <1>2, <1>4 DEF InTurn
<1>9. InTurn'
  BY <1>1, <1>2, <1>3, <1>7, <1>8 DEF InTurn
<1>10. Running'
  <2>1. HoldIn(regs, 0)'
    <3>1. \A ref \in 0..graph.n_in+0-1 : ref < graph.n_in /\ ref \in 0..graph.n_in-1
      BY <1>6, NodeFacts
    <3> QED BY <3>1, <1>1, <1>2, <1>8 DEF HoldIn, Holds
  <2>2. AtPoint(regs, 0, 1)'
    BY <2>1 DEF AtPoint
  <2>3. pc' \in (1..NSteps(graph')) \X (1..6) /\ pc'[1] - 1 = 0 /\ pc'[2] = 1
    <3>1. NSteps(graph) \in Nat \ {0}
      BY <1>6, NodeFacts
    <3>2. pc' = <<1, 1>> /\ graph' = graph /\ 1 \in 1..NSteps(graph) /\ 1 \in 1..6
      BY <3>1, <1>1, <1>2, <1>8
    <3> QED BY <3>2
  <2>4. halted' = FALSE
    BY <1>1, <1>8
  <2> QED BY <2>2, <2>3, <2>4 DEF Running, RunsFrom
<1> QED BY <1>5, <1>9, <1>10

-----------------------------------------------------------------------------
(* The emitted function running.                                           *)

(* Block k is that of a node other than RETURN, with destination rd, and   *)
(* in front of it the operands that have values are in its sources.        *)
Compiled(k, m, rd, n) ==
  LET node == Node(graph, k) IN
  /\ node \in GraphNode /\ node.op # "return" /\ Len(node.operands) = ARITY[node.op]
  /\ rd \in Reg /\ n \in Nat
  /\ asm[k + 1] = EmitNode(node, m, rd, n)
  /\ BlockFor(asm[k + 1], node, m, rd)
  /\ \A i \in 1..Len(node.operands) :
       /\ m[node.operands[i]] \in Reg /\ vals[node.operands[i]] \in WordOrUB
       /\ \A rs : HoldIn(rs, k) /\ vals[node.operands[i]] # UB =>
                  rs[m[node.operands[i]]] = Sext(vals[node.operands[i]])
  /\ vals[graph.n_in + k] = InterpretNode(node, vals)

AtWork == PipeInv /\ outcome = "returned" /\ ~halted

LEMMA Situation ==
  ASSUME AtWork
  PROVE  /\ WellFormed(graph) /\ graph.n_in \in Nat /\ NSteps(graph) \in Nat \ {0}
         /\ asm \in Seq(Seq(Line)) /\ Len(asm) = NSteps(graph)
         /\ pc \in (1..NSteps(graph)) \X (1..6) /\ ~halted
         /\ AtPoint(regs, pc[1] - 1, pc[2])
         /\ Todo = NSteps(graph) - 1 /\ DOMAIN vals = 0..graph.n_in+NSteps(graph)-2
         /\ regs \in [Reg -> XWord]
<1>1. /\ TypeOK /\ ValsOK /\ InTurn /\ Running /\ outcome = "returned" /\ ~halted
  BY DEF AtWork, PipeInv, TextInv, RegInv, IInv
<1>2. WellFormed(graph) /\ asm \in Seq(Seq(Line)) /\ Len(asm) = step + 1 /\ step \in 0..NSteps(graph)-1
  BY <1>1 DEF TypeOK
<1>3. graph.n_in \in Nat /\ NSteps(graph) \in Nat \ {0}
  BY <1>2, NodeFacts
<1>4. step = NSteps(graph) - 1 /\ Interpreted /\ regs \in [Reg -> XWord]
  BY <1>1 DEF InTurn
<1>5. Todo = NSteps(graph) - 1
  BY <1>4 DEF Interpreted
<1>6. DOMAIN vals = 0..graph.n_in+NSteps(graph)-2
  <2>1. graph.n_in + (NSteps(graph) - 1) - 1 = graph.n_in + NSteps(graph) - 2
    BY <1>3
  <2> QED BY <2>1, <1>1, <1>5 DEF ValsOK
<1>7. pc \in (1..NSteps(graph)) \X (1..6) /\ AtPoint(regs, pc[1] - 1, pc[2])
  BY <1>1 DEF Running, RunsFrom
<1> QED BY <1>1, <1>2, <1>3, <1>4, <1>5, <1>6, <1>7

LEMMA BlockHere ==
  ASSUME AtWork, NEW k \in 0..NSteps(graph)-1, Node(graph, k).op # "return"
  PROVE  /\ \E m, rd, n : Compiled(k, m, rd, n)
         /\ k \in 0..NSteps(graph)-2
<1> DEFINE node == Node(graph, k)
<1>1. /\ WellFormed(graph) /\ graph.n_in \in Nat /\ NSteps(graph) \in Nat \ {0}
      /\ asm \in Seq(Seq(Line)) /\ Len(asm) = NSteps(graph)
      /\ Todo = NSteps(graph) - 1 /\ DOMAIN vals = 0..graph.n_in+NSteps(graph)-2
  BY Situation
<1>2. /\ node \in GraphNode /\ node.op # "return" /\ Len(node.operands) = ARITY[node.op]
      /\ \A i \in 1..Len(node.operands) : node.operands[i] \in 0..graph.n_in+k-1
      /\ k # NSteps(graph) - 1
  BY <1>1, NodeFacts
<1>3. k \in 0..NSteps(graph)-2 /\ k \in 0..Len(asm)-1
  BY <1>1, <1>2
<1>4. Shaped /\ OperandsReach /\ ValsOK
  BY DEF AtWork, PipeInv, TextInv, RegInv, IInv
<1>5. PICK m, rd, n : NodeBlock(asm[k + 1], node, m, rd, n)
  BY <1>2, <1>3, <1>4 DEF Shaped
<1>6. /\ rd \in Reg /\ n \in Nat /\ asm[k + 1] = EmitNode(node, m, rd, n)
      /\ \A i \in 1..Len(node.operands) : m[node.operands[i]] \in Reg
  BY <1>5 DEF NodeBlock
<1>7. BlockFor(asm[k + 1], node, m, rd)
  BY <1>2, <1>6, EmitNodeFacts
<1>8. ASSUME NEW i \in 1..Len(node.operands)
      PROVE  /\ vals[node.operands[i]] \in WordOrUB
             /\ \A rs : HoldIn(rs, k) /\ vals[node.operands[i]] # UB =>
                        rs[m[node.operands[i]]] = Sext(vals[node.operands[i]])
  <2>1. node.operands[i] \in DOMAIN vals
    <3>1. node.operands[i] \in 0..graph.n_in+k-1
      BY <1>2
    <3>2. \A a, s \in Nat : \A j \in 0..s-2 : \A ref \in 0..a+j-1 : ref \in 0..a+s-2
      OBVIOUS
    <3> QED BY <1>1, <1>3, <3>1, <3>2
  <2>2. vals[node.operands[i]] \in WordOrUB
    BY <2>1, <1>4 DEF ValsOK
  <2>3. SourceReg(k, i) = m[node.operands[i]]
    BY <1>7 DEF SourceReg, BlockFor
  <2>4. Holds(asm, graph.n_in, m[node.operands[i]], node.operands[i], k)
    BY <2>3, <1>3, <1>4 DEF OperandsReach
  <2>5. m[node.operands[i]] \in Reg /\ node.operands[i] \in 0..graph.n_in+k-1
    BY <1>2, <1>6
  <2> HIDE DEF node
  <2> QED BY <2>2, <2>4, <2>5 DEF HoldIn
<1>9. vals[graph.n_in + k] = InterpretNode(node, vals)
  <2>1. \A a, s \in Nat : \A j \in 0..s-2 : a + j \in a..a+(s-1)-1 /\ (a + j) - a = j
    OBVIOUS
  <2>2. graph.n_in + k \in graph.n_in..graph.n_in+Todo-1 /\ (graph.n_in + k) - graph.n_in = k
    BY <2>1, <1>1, <1>3
  <2> QED BY <2>2, <1>4 DEF ValsOK
<1>10. Compiled(k, m, rd, n)
  BY <1>2, <1>6, <1>7, <1>8, <1>9 DEF Compiled
<1> QED BY <1>3, <1>10

(* When the block has written the value of its node to its destination,    *)
(* the registers are those in front of the next one.                       *)
LEMMA Advance ==
  ASSUME AtWork, NEW k \in 0..NSteps(graph)-2, NEW m, NEW rd, NEW n, Compiled(k, m, rd, n),
         HoldIn(regs, k), NEW x, vals[graph.n_in + k] # UB => x = Sext(vals[graph.n_in + k])
  PROVE  HoldIn([regs EXCEPT ![rd] = x], k + 1)
<1> DEFINE rs == [regs EXCEPT ![rd] = x]
<1>1. /\ graph.n_in \in Nat /\ NSteps(graph) \in Nat \ {0} /\ regs \in [Reg -> XWord]
  BY Situation
<1>2. rd \in Reg /\ NoReg \notin Reg
  BY RegAssumption DEF Compiled
<1>3. rs[rd] = x /\ \A r \in Reg : r # rd => rs[r] = regs[r]
  BY <1>1, <1>2
<1>4. Writes(asm, k, rd) /\ \A r \in Reg : Writes(asm, k, r) => r = rd
  BY <1>2 DEF Compiled, BlockFor, Writes
<1> HIDE DEF rs
<1>5. ASSUME NEW r \in Reg, NEW ref \in 0..graph.n_in+(k+1)-1,
             Holds(asm, graph.n_in, r, ref, k + 1), vals[ref] # UB
      PROVE  rs[r] = Sext(vals[ref])
  <2>1. CASE ref = graph.n_in + k
    <3>1. ~(ref < graph.n_in) /\ ref - graph.n_in = k
      BY <1>1, <2>1
    <3>2. Writes(asm, k, r)
      BY <3>1, <1>5 DEF Holds
    <3> QED BY <3>2, <2>1, <1>3, <1>4, <1>5
  <2>2. CASE ref # graph.n_in + k
    <3>1. ref \in 0..graph.n_in+k-1
      BY <1>1, <2>2
    <3>2. Holds(asm, graph.n_in, r, ref, k) /\ ~Writes(asm, k, r)
      <4>1. CASE ref < graph.n_in
        <5>1. k \in 0..(k+1)-1 /\ \A j \in 0..k-1 : j \in 0..(k+1)-1
          OBVIOUS
        <5> QED BY <5>1, <4>1, <1>5 DEF Holds
      <4>2. CASE ~(ref < graph.n_in)
        <5>1. /\ k \in ref-graph.n_in+1..(k+1)-1
              /\ \A j \in ref-graph.n_in+1..k-1 : j \in ref-graph.n_in+1..(k+1)-1
          BY <3>1, <4>2, <1>1
        <5> QED BY <5>1, <4>2, <1>5 DEF Holds
      <4> QED BY <4>1, <4>2
    <3>3. r # rd /\ regs[r] = Sext(vals[ref])
      BY <3>1, <3>2, <1>4, <1>5 DEF HoldIn
    <3> QED BY <3>3, <1>3
  <2> QED BY <2>1, <2>2
<1>6. HoldIn(rs, k + 1)
  BY <1>5 DEF HoldIn
<1> QED BY <1>6 DEF rs

(* A block of one line writes the value of its node, if it has one.        *)
LEMMA OneLine ==
  ASSUME AtWork, M!Step, NEW k \in 0..NSteps(graph)-2, NEW m, NEW rd, NEW n, Compiled(k, m, rd, n),
         HoldIn(regs, k), Node(graph, k).op # "select", pc = <<k + 1, 1>>
  PROVE  /\ Len(asm[k + 1]) = 1
         /\ \E x \in XWord :
              /\ regs' = [regs EXCEPT ![rd] = x] /\ pc' = M!NextPoint /\ halted' = halted
              /\ vals[graph.n_in + k] # UB => x = Sext(vals[graph.n_in + k])
<1> DEFINE node == Node(graph, k)
           r == [i \in 1..Len(node.operands) |-> m[node.operands[i]]]
           v == vals[graph.n_in + k]
           o(i) == vals[node.operands[i]]
<1>1. /\ node \in GraphNode /\ node.op # "return" /\ Len(node.operands) = ARITY[node.op]
      /\ asm[k + 1] = EmitNode(node, m, rd, n)
      /\ \A i \in 1..Len(node.operands) :
           m[node.operands[i]] \in Reg /\ o(i) \in WordOrUB
             /\ (o(i) # UB => regs[m[node.operands[i]]] = Sext(o(i)))
      /\ v = InterpretNode(node, vals)
  BY DEF Compiled
<1>2. /\ \A i \in 1..Len(node.operands) :
           /\ r[i] = m[node.operands[i]] /\ regs[r[i]] \in XWord
           /\ o(i) \in WordOrUB /\ (o(i) # UB => o(i) \in Word /\ regs[r[i]] = Sext(o(i)))
  BY <1>1, Situation DEF WordOrUB
<1>3. node.op \in NodeOps /\ node.val \in Word
  BY <1>1 DEF GraphNode
<1>4. Here = asm[k + 1][1]
  BY DEF Here
<1>5. ASSUME NEW line, asm[k + 1] = <<line>>, line.rd = rd, NEW x \in XWord,
             Here = line => Sets(x), v # UB => x = Sext(v)
      PROVE  /\ Len(asm[k + 1]) = 1
             /\ \E y \in XWord :
                  /\ regs' = [regs EXCEPT ![rd] = y] /\ pc' = M!NextPoint /\ halted' = halted
                  /\ v # UB => y = Sext(v)
  <2>1. Here = line /\ Len(asm[k + 1]) = 1 /\ Here.rd = rd
    BY <1>4, <1>5
  <2>2. Sets(x)
    BY <2>1, <1>5
  <2> QED BY <2>1, <2>2, <1>5 DEF Sets
<1>6. ASSUME NEW i \in 1..Len(node.operands)
      PROVE  /\ Low(regs[r[i]]) \in Word
             /\ o(i) # UB => o(i) \in Word /\ Low(regs[r[i]]) = o(i) /\ regs[r[i]] = Sext(o(i))
  BY <1>2, WordTypes, SextFacts
<1> HIDE DEF r, v, o, node
<1>7. CASE node.op = "const"
  <2> DEFINE imm == SignedLiteral(node.val)
             s0 == <<>>
             line == InsnImm("li", rd, s0, imm)
  <2>1. asm[k + 1] = <<line>>
    BY <1>1, <1>7 DEF EmitNode, ArithOps, BitOps
  <2>2. line.op = "li" /\ line.imm = imm /\ line.rd = rd
    BY DEF InsnImm, Insn
  <2>3. v = node.val /\ imm = Sext(node.val) /\ imm \in XWord
    BY <1>1, <1>3, <1>7, WordTypes DEF InterpretNode, ArithOps, BitOps, UnOps, SignedLiteral
  <2> HIDE DEF line, imm
  <2>4. Here = line => Sets(imm)
    BY <2>2, LineEffect
  <2> QED BY <2>1, <2>2, <2>3, <2>4, <1>5 DEF v, node
<1>8. CASE node.op \in ArithOps
  <2> DEFINE line == Insn(Mnemonic[node.op], rd, r)
             x == Sext(WInsn(Mnemonic[node.op], Low(regs[r[1]]), Low(regs[r[2]])))
  <2>1. asm[k + 1] = <<line>>
    BY <1>1, <1>8 DEF EmitNode, ArithOps, BitOps, r
  <2>2. line.op = Mnemonic[node.op] /\ line.rd = rd /\ line.src = r
    BY InsnShapes
  <2>3. Mnemonic[node.op] \in M!WForms
    BY <1>8 DEF ArithOps, Mnemonic, M!WForms
  <2>4. 1 \in 1..Len(node.operands) /\ 2 \in 1..Len(node.operands)
    BY <1>1, <1>8, Arities
  <2>5. x \in XWord
    BY <1>6, <1>8, <2>4, ArithTypes, WordTypes
  <2>6. v = BinValue(node.op, o(1), o(2))
    BY <1>1, <1>8 DEF InterpretNode, ArithOps, BitOps, UnOps, o
  <2>7. ASSUME v # UB PROVE x = Sext(v)
    <3>1. o(1) # UB /\ o(2) # UB
      BY <2>6, <2>7 DEF BinValue
    <3>2. v = IF Defined(node.op, o(1), o(2)) THEN Arith(node.op, o(1), o(2)) ELSE UB
      BY <2>6, <3>1, <1>8 DEF BinValue, ArithOps
    <3>3. Defined(node.op, o(1), o(2)) /\ v = Arith(node.op, o(1), o(2))
      BY <2>7, <3>2
    <3>4. /\ o(1) \in Word /\ Low(regs[r[1]]) = o(1)
          /\ o(2) \in Word /\ Low(regs[r[2]]) = o(2)
      BY <3>1, <2>4, <1>6
    <3>5. WInsn(Mnemonic[node.op], o(1), o(2)) = Arith(node.op, o(1), o(2))
      BY <3>3, <3>4, <1>8, OpAssumption DEF OpsAgree
    <3> QED BY <3>3, <3>4, <3>5
  <2>8. Here = line => Sets(x)
    <3> HIDE DEF line
    <3> QED BY <2>2, <2>3, LineEffect DEF Operand
  <2> HIDE DEF line, x
  <2> QED BY <2>1, <2>2, <2>5, <2>7, <2>8, <1>5 DEF v, node
<1>9. CASE node.op \in BitOps
  <2> DEFINE line == Insn(Mnemonic[node.op], rd, r)
             f(a, b) == CASE node.op = "and" -> AndBits(a, b)
                          [] node.op = "or"  -> OrBits(a, b)
                          [] node.op = "xor" -> XorBits(a, b)
             x == f(regs[r[1]], regs[r[2]])
  <2>1. asm[k + 1] = <<line>>
    BY <1>1, <1>9 DEF EmitNode, ArithOps, BitOps, r
  <2>2. line.op = Mnemonic[node.op] /\ line.rd = rd /\ line.src = r
    BY InsnShapes
  <2>3. Mnemonic[node.op] = node.op
    BY <1>9 DEF BitOps, Mnemonic
  <2>4. 1 \in 1..Len(node.operands) /\ 2 \in 1..Len(node.operands)
    BY <1>1, <1>9, Arities
  <2>5. x \in XWord
    BY <1>2, <1>9, <2>4, BitTypes DEF BitOps
  <2>6. v = BinValue(node.op, o(1), o(2))
    BY <1>1, <1>9 DEF InterpretNode, ArithOps, BitOps, UnOps, o
  <2>7. ASSUME v # UB PROVE x = Sext(v)
    <3>1. o(1) # UB /\ o(2) # UB
      BY <2>6, <2>7 DEF BinValue
    <3>2. v = f(o(1), o(2))
      BY <2>6, <3>1, <1>9 DEF BinValue, ArithOps, BitOps
    <3>4. /\ o(1) \in Word /\ regs[r[1]] = Sext(o(1))
          /\ o(2) \in Word /\ regs[r[2]] = Sext(o(2))
      BY <3>1, <2>4, <1>6
    <3> QED BY <3>2, <3>4, <1>9, SextBits DEF BitOps
  <2>8. Here = line => Sets(x)
    <3> HIDE DEF line
    <3> QED BY <2>2, <2>3, <1>9, LineEffect DEF Operand, BitOps
  <2> HIDE DEF line, x
  <2> QED BY <2>1, <2>2, <2>5, <2>7, <2>8, <1>5 DEF v, node
<1>10. CASE node.op = "neg"
  <2> DEFINE line == Insn("negw", rd, r)
             x == Sext(WInsn("subw", ZeroWord, Low(regs[r[1]])))
  <2>1. asm[k + 1] = <<line>>
    BY <1>1, <1>10 DEF EmitNode, ArithOps, BitOps, r
  <2>2. line.op = "negw" /\ line.rd = rd /\ line.src = r
    BY InsnShapes
  <2>4. 1 \in 1..Len(node.operands)
    BY <1>1, <1>10, Arities DEF UnOps
  <2>5. x \in XWord
    BY <1>6, <2>4, ArithTypes, WordTypes
  <2>6. v = UnValue("neg", o(1))
    BY <1>1, <1>10 DEF InterpretNode, ArithOps, BitOps, UnOps, o
  <2>7. ASSUME v # UB PROVE x = Sext(v)
    <3>1. o(1) # UB /\ v = Arith("sub", ZeroWord, o(1))
      BY <2>6, <2>7 DEF UnValue
    <3>2. o(1) \in Word /\ Low(regs[r[1]]) = o(1)
      BY <3>1, <2>4, <1>6
    <3> QED BY <3>1, <3>2, OpAssumption DEF OpsAgree
  <2>8. Here = line => Sets(x)
    <3> HIDE DEF line
    <3> QED BY <2>2, LineEffect DEF Operand
  <2> HIDE DEF line, x
  <2> QED BY <2>1, <2>2, <2>5, <2>7, <2>8, <1>5 DEF v, node
<1>11. CASE node.op = "not"
  <2> DEFINE line == InsnImm("xori", rd, r, OnesXWord)
             x == XorBits(regs[r[1]], OnesXWord)
  <2>1. asm[k + 1] = <<line>>
    BY <1>1, <1>11 DEF EmitNode, ArithOps, BitOps, r
  <2>2. line.op = "xori" /\ line.rd = rd /\ line.src = r /\ line.imm = OnesXWord
    BY DEF InsnImm, Insn
  <2>4. 1 \in 1..Len(node.operands)
    BY <1>1, <1>11, Arities DEF UnOps
  <2>5. x \in XWord
    BY <1>2, <2>4, BitTypes, WordTypes
  <2>6. v = UnValue("not", o(1))
    BY <1>1, <1>11 DEF InterpretNode, ArithOps, BitOps, UnOps, o
  <2>7. ASSUME v # UB PROVE x = Sext(v)
    <3>1. o(1) # UB /\ v = NotBits(o(1))
      BY <2>6, <2>7 DEF UnValue
    <3>2. o(1) \in Word /\ regs[r[1]] = Sext(o(1))
      BY <3>1, <2>4, <1>6
    <3> QED BY <3>1, <3>2, SextBits
  <2>8. Here = line => Sets(x)
    <3> HIDE DEF line
    <3> QED BY <2>2, LineEffect DEF Operand
  <2> HIDE DEF line, x
  <2> QED BY <2>1, <2>2, <2>5, <2>7, <2>8, <1>5 DEF v, node
<1>12. node.op # "select"
  BY DEF node
<1> QED BY <1>1, <1>3, <1>7, <1>8, <1>9, <1>10, <1>11, <1>12 DEF NodeOps, UnOps

(* The lines of a select, and where its branches go.                       *)
LEMMA SelectLines ==
  ASSUME NEW rd, NEW r, NEW n \in Nat, NEW b, b = SelectBlock(rd, r, n)
  PROVE  /\ Len(b) = 6
         /\ b[1].op = "beqz"  /\ b[1].src = <<r[1]>> /\ b[1].lbl = Label("sel_else", n)
         /\ b[2].op = "mv"    /\ b[2].src = <<r[2]>> /\ b[2].rd = rd
         /\ b[3].op = "j"     /\ b[3].lbl = Label("sel_end", n + 1)
         /\ b[4].op = "label" /\ b[4].lbl = Label("sel_else", n)
         /\ b[5].op = "mv"    /\ b[5].src = <<r[3]>> /\ b[5].rd = rd
         /\ b[6].op = "label" /\ b[6].lbl = Label("sel_end", n + 1)
<1> DEFINE e == Label("sel_else", n)
           f == Label("sel_end", n + 1)
           s1 == <<r[1]>>
           s2 == <<r[2]>>
           s3 == <<r[3]>>
           s0 == <<>>
           l1 == InsnLbl("beqz", s1, e)
           l2 == Insn("mv", rd, s2)
           l3 == InsnLbl("j", s0, f)
           l4 == InsnLbl("label", s0, e)
           l5 == Insn("mv", rd, s3)
           l6 == InsnLbl("label", s0, f)
<1>1. b = <<l1, l2, l3, l4, l5, l6>>
  BY DEF SelectBlock
<1> HIDE DEF e, f, s1, s2, s3, s0
<1>2. /\ l1.op = "beqz" /\ l1.src = s1 /\ l1.lbl = e /\ l2.op = "mv" /\ l2.src = s2 /\ l2.rd = rd
      /\ l3.op = "j" /\ l3.lbl = f /\ l4.op = "label" /\ l4.lbl = e
      /\ l5.op = "mv" /\ l5.src = s3 /\ l5.rd = rd /\ l6.op = "label" /\ l6.lbl = f
  <2>1. l1.op = "beqz" /\ l1.src = s1 /\ l1.lbl = e
    BY InsnShapes
  <2>2. l2.op = "mv" /\ l2.src = s2 /\ l2.rd = rd
    BY InsnShapes
  <2>3. l3.op = "j" /\ l3.lbl = f
    BY InsnShapes
  <2>4. l4.op = "label" /\ l4.lbl = e
    BY InsnShapes
  <2>5. l5.op = "mv" /\ l5.src = s3 /\ l5.rd = rd
    BY InsnShapes
  <2>6. l6.op = "label" /\ l6.lbl = f
    BY InsnShapes
  <2> HIDE DEF l1, l2, l3, l4, l5, l6
  <2> QED BY <2>1, <2>2, <2>3, <2>4, <2>5, <2>6
<1> HIDE DEF l1, l2, l3, l4, l5, l6
<1>3. /\ Len(b) = 6 /\ b[1] = l1 /\ b[2] = l2 /\ b[3] = l3 /\ b[4] = l4 /\ b[5] = l5 /\ b[6] = l6
  BY <1>1
<1> QED BY <1>2, <1>3 DEF e, f, s1, s2, s3

(* A branch has one target: the place of its label.                        *)
LEMMA TargetUnique ==
  ASSUME CodeAssembles, NEW j \in 1..Len(asm), NEW l \in 1..Len(asm[j]),
         asm[j][l].op = "label", NEW t \in M!Targets(asm[j][l].lbl)
  PROVE  t = <<j, l>>
<1> DEFINE lbl == asm[j][l].lbl
<1>1. \E c \in 1..Len(asm) : \E d \in 1..Len(asm[c]) :
        t = <<c, d>> /\ asm[c][d].op = "label" /\ asm[c][d].lbl = lbl
  <2> HIDE DEF lbl
  <2>1. t \in M!Targets(lbl)
    BY DEF lbl
  <2> QED BY <2>1 DEF M!Targets
<1>2. PICK c \in 1..Len(asm) : \E d \in 1..Len(asm[c]) :
        t = <<c, d>> /\ asm[c][d].op = "label" /\ asm[c][d].lbl = lbl
  BY <1>1
<1>3. PICK d \in 1..Len(asm[c]) : t = <<c, d>> /\ asm[c][d].op = "label" /\ asm[c][d].lbl = lbl
  BY <1>2
<1>4. <<c, d>> \in LabelPositions
  <2> DEFINE P(y) == {<<y, z>> : z \in {q \in 1..Len(asm[y]) : asm[y][q].op = "label"}}
  <2>1. <<c, d>> \in P(c)
    BY <1>3
  <2> QED BY <2>1 DEF LabelPositions
<1>5. <<j, l>> \in LabelPositions
  <2> DEFINE P(y) == {<<y, z>> : z \in {q \in 1..Len(asm[y]) : asm[y][q].op = "label"}}
  <2>1. <<j, l>> \in P(j)
    OBVIOUS
  <2> QED BY <2>1 DEF LabelPositions
<1> QED BY <1>3, <1>4, <1>5 DEF CodeAssembles

(* What a step of the machine has to establish.                            *)
Onward == regs' \in [Reg -> XWord] /\ RunsFrom(regs', pc', halted')

LEMMA GoOn ==
  ASSUME AtWork, NEW p, p \in (1..NSteps(graph)) \X (1..6), Goes(p), AtPoint(regs, p[1] - 1, p[2])
  PROVE  Onward
<1>1. regs \in [Reg -> XWord] /\ ~halted /\ regs' = regs /\ pc' = p /\ halted' = halted
  BY Situation DEF Goes
<1> QED BY <1>1 DEF Onward, RunsFrom

LEMMA OneLineOnward ==
  ASSUME AtWork, M!Step, NEW k \in 0..NSteps(graph)-1, pc = <<k + 1, 1>>, HoldIn(regs, k),
         Node(graph, k).op \notin {"select", "return"}
  PROVE  Onward
<1>1. k \in 0..NSteps(graph)-2 /\ \E m, rd, n : Compiled(k, m, rd, n)
  BY BlockHere
<1>2. PICK m, rd, n : Compiled(k, m, rd, n)
  BY <1>1
<1>3. Len(asm[k + 1]) = 1
  BY <1>1, <1>2, OneLine
<1>4. PICK x \in XWord :
        /\ regs' = [regs EXCEPT ![rd] = x] /\ pc' = M!NextPoint /\ halted' = halted
        /\ vals[graph.n_in + k] # UB => x = Sext(vals[graph.n_in + k])
  BY <1>1, <1>2, OneLine
<1>5. HoldIn(regs', k + 1)
  BY <1>1, <1>2, <1>4, Advance
<1>6. pc' = <<k + 2, 1>>
  <2>1. pc[1] = k + 1 /\ pc[2] = 1 /\ (k + 1) + 1 = k + 2
    BY <1>1
  <2>2. ~(pc[2] < Len(asm[pc[1]]))
    <3>1. pc[2] = 1 /\ Len(asm[pc[1]]) = 1
      BY <2>1, <1>3, Zenon
    <3> QED BY <3>1
  <2>3. M!NextPoint = <<pc[1] + 1, 1>>
    BY <2>2 DEF M!NextPoint
  <2> QED BY <2>1, <2>3, <1>4
<1>7. regs \in [Reg -> XWord] /\ ~halted /\ NSteps(graph) \in Nat
  BY Situation
<1>8. regs' \in [Reg -> XWord]
  BY <1>4, <1>7
<1>9. pc' \in (1..NSteps(graph)) \X (1..6) /\ pc'[1] - 1 = k + 1 /\ pc'[2] = 1
  BY <1>1, <1>6, <1>7
<1>10. AtPoint(regs', k + 1, 1)
  BY <1>5 DEF AtPoint
<1> QED BY <1>4, <1>7, <1>8, <1>9, <1>10 DEF Onward, RunsFrom

LEMMA SelectOnward ==
  ASSUME AtWork, M!Step, NEW k \in 0..NSteps(graph)-1, NEW l \in 1..6, pc = <<k + 1, l>>,
         AtPoint(regs, k, l), Node(graph, k).op = "select"
  PROVE  Onward
<1> DEFINE node == Node(graph, k)
           b == asm[k + 1]
           o(i) == vals[node.operands[i]]
           v == vals[graph.n_in + k]
<1>1. k \in 0..NSteps(graph)-2 /\ \E m, rd, n : Compiled(k, m, rd, n)
  BY BlockHere
<1>2. PICK m, rd, n : Compiled(k, m, rd, n)
  BY <1>1
<1> DEFINE r == [i \in 1..Len(node.operands) |-> m[node.operands[i]]]
<1>3. /\ rd \in Reg /\ n \in Nat /\ b = SelectBlock(rd, r, n) /\ Len(node.operands) = 3
      /\ \A i \in 1..3 : r[i] = m[node.operands[i]] /\ r[i] \in Reg /\ o(i) \in WordOrUB
      /\ \A i \in 1..3 : HoldIn(regs, k) /\ o(i) # UB => regs[r[i]] = Sext(o(i))
      /\ v = SelectValue(o(1), o(2), o(3))
  <2>1. /\ b = EmitNode(node, m, rd, n) /\ rd \in Reg /\ n \in Nat
        /\ Len(node.operands) = ARITY["select"]
        /\ v = InterpretNode(node, vals)
    BY <1>2 DEF Compiled
  <2>2. Len(node.operands) = 3
    BY <2>1, Arities
  <2>3. b = SelectBlock(rd, r, n)
    BY <2>1 DEF EmitNode, ArithOps, BitOps
  <2>4. \A i \in 1..3 : r[i] = m[node.operands[i]]
    BY <2>2
  <2>5. \A i \in 1..3 : m[node.operands[i]] \in Reg /\ o(i) \in WordOrUB
    BY <1>2, <2>2 DEF Compiled
  <2>6. \A i \in 1..3 : HoldIn(regs, k) /\ o(i) # UB => regs[m[node.operands[i]]] = Sext(o(i))
    BY <1>2, <2>2 DEF Compiled
  <2>7. v = SelectValue(o(1), o(2), o(3))
    BY <2>1 DEF InterpretNode, ArithOps, BitOps, UnOps
  <2> QED BY <2>1, <2>2, <2>3, <2>4, <2>5, <2>6, <2>7
<1>4. /\ NSteps(graph) \in Nat \ {0} /\ Len(asm) = NSteps(graph) /\ regs \in [Reg -> XWord]
      /\ ~halted /\ graph.n_in \in Nat
  BY Situation
<1>5. CodeAssembles
  BY DEF AtWork, PipeInv, TextInv
<1> HIDE DEF r, b, o, v
<1>6. /\ Len(b) = 6
      /\ b[1].op = "beqz"  /\ b[1].src = <<r[1]>> /\ b[1].lbl = Label("sel_else", n)
      /\ b[2].op = "mv"    /\ b[2].src = <<r[2]>> /\ b[2].rd = rd
      /\ b[3].op = "j"     /\ b[3].lbl = Label("sel_end", n + 1)
      /\ b[4].op = "label" /\ b[4].lbl = Label("sel_else", n)
      /\ b[5].op = "mv"    /\ b[5].src = <<r[3]>> /\ b[5].rd = rd
      /\ b[6].op = "label" /\ b[6].lbl = Label("sel_end", n + 1)
  BY <1>3, SelectLines
<1>7. Here = b[l] /\ (l < 6 => M!NextPoint = <<k + 1, l + 1>>) /\ (l = 6 => M!NextPoint = <<k + 2, 1>>)
  <2>1. Here = b[l]
    BY DEF Here, b
  <2>2. M!NextPoint = IF l < 6 THEN <<k + 1, l + 1>> ELSE <<(k + 1) + 1, 1>>
    BY <1>6 DEF M!NextPoint, b
  <2> QED BY <2>1, <2>2
<1>8. /\ \A t \in M!Targets(Label("sel_else", n)) : t = <<k + 1, 4>>
      /\ \A t \in M!Targets(Label("sel_end", n + 1)) : t = <<k + 1, 6>>
  <2>1. k + 1 \in 1..Len(asm) /\ 4 \in 1..Len(b) /\ 6 \in 1..Len(b)
    BY <1>1, <1>4, <1>6
  <2>2. \A t \in M!Targets(asm[k + 1][4].lbl) : t = <<k + 1, 4>>
    BY <2>1, <1>5, <1>6, TargetUnique DEF b
  <2>3. \A t \in M!Targets(asm[k + 1][6].lbl) : t = <<k + 1, 6>>
    BY <2>1, <1>5, <1>6, TargetUnique DEF b
  <2> QED BY <2>2, <2>3, <1>6 DEF b
<1>9. \A q \in 1..6 : <<k + 1, q>> \in (1..NSteps(graph)) \X (1..6)
  BY <1>1, <1>4
<1>10. \A q \in 1..6 : Goes(<<k + 1, q>>) /\ AtPoint(regs, k, q) => Onward
  <2> SUFFICES ASSUME NEW q \in 1..6, Goes(<<k + 1, q>>), AtPoint(regs, k, q) PROVE Onward
    OBVIOUS
  <2> DEFINE p == <<k + 1, q>>
  <2>1. p[1] - 1 = k /\ p[2] = q /\ p \in (1..NSteps(graph)) \X (1..6)
    BY <1>1, <1>9
  <2>2. AtPoint(regs, p[1] - 1, p[2])
    BY <2>1
  <2> QED BY <2>1, <2>2, GoOn
<1>11. ASSUME NEW i \in {2, 3}, HoldIn(regs, k), Chosen(k, i), Here.rd = rd,
              Here.src = <<r[i]>>, Here.op = "mv", NEW q \in {3, 6}, M!NextPoint = <<k + 1, q>>
       PROVE  Onward
  <2> DEFINE x == regs[r[i]]
  <2>1. regs' = [regs EXCEPT ![rd] = x] /\ pc' = <<k + 1, q>> /\ halted' = halted
    <3>1. Sets(Operand(1))
      BY <1>11, LineEffect
    <3>2. Operand(1) = x
      BY <1>11 DEF Operand
    <3> QED BY <3>1, <3>2, <1>11 DEF Sets
  <2>2. v # UB => x = Sext(v)
    <3>1. v # UB => v = o(i)
      BY <1>11 DEF Chosen, v, o
    <3> QED BY <3>1, <1>3, <1>11
  <2>3. x \in XWord
    BY <1>3, <1>4
  <2> HIDE DEF x
  <2>4. HoldIn(regs', k + 1)
    BY <2>1, <2>2, <1>1, <1>2, <1>11, Advance DEF v
  <2>5. regs' \in [Reg -> XWord]
    BY <2>1, <2>3, <1>4
  <2>6. AtPoint(regs', k, q)
    BY <2>4, <1>11 DEF AtPoint
  <2>7. pc' \in (1..NSteps(graph)) \X (1..6) /\ pc'[1] - 1 = k /\ pc'[2] = q
    BY <2>1, <1>1, <1>4
  <2> QED BY <2>1, <2>5, <2>6, <2>7, <1>4 DEF Onward, RunsFrom
<1>12. CASE l = 1
  <2>1. HoldIn(regs, k)
    BY <1>12 DEF AtPoint
  <2>2. Here.op = "beqz" /\ Operand(1) = regs[r[1]]
    BY <1>6, <1>7, <1>12 DEF Operand
  <2>3. IF regs[r[1]] = ZeroXWord THEN \E t \in M!Targets(Here.lbl) : Goes(t) ELSE Goes(M!NextPoint)
    BY <2>2, LineEffect
  <2>4. CASE regs[r[1]] = ZeroXWord
    <3>1. Goes(<<k + 1, 4>>)
      BY <2>3, <2>4, <1>6, <1>7, <1>8, <1>12
    <3>2. ASSUME v # UB PROVE v = o(3)
      <4>1. o(1) # UB /\ v = IF o(1) # ZeroWord THEN o(2) ELSE o(3)
        BY <3>2, <1>3 DEF SelectValue
      <4>2. o(1) \in Word /\ Sext(o(1)) = ZeroXWord
        BY <4>1, <1>3, <2>1, <2>4 DEF WordOrUB
      <4>3. o(1) = ZeroWord
        BY <4>2, SextFacts
      <4> QED BY <4>1, <4>3
    <3>3. Chosen(k, 3)
      BY <3>2 DEF Chosen, v, o
    <3>4. AtPoint(regs, k, 4)
      BY <2>1, <3>3 DEF AtPoint
    <3> QED BY <3>1, <3>4, <1>10
  <2>5. CASE regs[r[1]] # ZeroXWord
    <3>1. Goes(<<k + 1, 2>>)
      BY <2>3, <2>5, <1>7, <1>12
    <3>2. ASSUME v # UB PROVE v = o(2)
      <4>1. o(1) # UB /\ v = IF o(1) # ZeroWord THEN o(2) ELSE o(3)
        BY <3>2, <1>3 DEF SelectValue
      <4>2. o(1) \in Word /\ Sext(o(1)) # ZeroXWord
        BY <4>1, <1>3, <2>1, <2>5 DEF WordOrUB
      <4>3. o(1) # ZeroWord
        BY <4>2, SextFacts
      <4> QED BY <4>1, <4>3
    <3>3. Chosen(k, 2)
      BY <3>2 DEF Chosen, v, o
    <3>4. AtPoint(regs, k, 2)
      BY <2>1, <3>3 DEF AtPoint
    <3> QED BY <3>1, <3>4, <1>10
  <2> QED BY <2>4, <2>5
<1>13. CASE l = 2
  <2>1. HoldIn(regs, k) /\ Chosen(k, 2)
    BY <1>13 DEF AtPoint
  <2>2. M!NextPoint = <<k + 1, 3>>
    BY <1>7, <1>13
  <2> QED BY <2>1, <2>2, <1>6, <1>7, <1>11, <1>13
<1>14. CASE l = 3
  <2>1. HoldIn(regs, k + 1)
    BY <1>14 DEF AtPoint
  <2>2. \E t \in M!Targets(Here.lbl) : Goes(t)
    BY <1>6, <1>7, <1>14, LineEffect
  <2>3. Goes(<<k + 1, 6>>)
    BY <2>2, <1>6, <1>7, <1>8, <1>14
  <2>4. AtPoint(regs, k, 6)
    BY <2>1 DEF AtPoint
  <2> QED BY <2>3, <2>4, <1>10
<1>15. CASE l = 4
  <2>1. HoldIn(regs, k) /\ Chosen(k, 3)
    BY <1>15 DEF AtPoint
  <2>2. Goes(<<k + 1, 5>>)
    BY <1>6, <1>7, <1>15, LineEffect
  <2>3. AtPoint(regs, k, 5)
    BY <2>1 DEF AtPoint
  <2> QED BY <2>2, <2>3, <1>10
<1>16. CASE l = 5
  <2>1. HoldIn(regs, k) /\ Chosen(k, 3)
    BY <1>16 DEF AtPoint
  <2>2. M!NextPoint = <<k + 1, 6>>
    BY <1>7, <1>16
  <2> QED BY <2>1, <2>2, <1>6, <1>7, <1>11, <1>16
<1>17. CASE l = 6
  <2>1. HoldIn(regs, k + 1)
    BY <1>17 DEF AtPoint
  <2>2. Goes(<<k + 2, 1>>)
    BY <1>6, <1>7, <1>17, LineEffect
  <2> DEFINE p == <<k + 2, 1>>
  <2>3. p \in (1..NSteps(graph)) \X (1..6) /\ p[1] - 1 = k + 1 /\ p[2] = 1
    BY <1>1, <1>4
  <2>4. AtPoint(regs, p[1] - 1, p[2])
    BY <2>1, <2>3 DEF AtPoint
  <2> QED BY <2>2, <2>3, <2>4, GoOn
<1>18. l = 1 \/ l = 2 \/ l = 3 \/ l = 4 \/ l = 5 \/ l = 6
  OBVIOUS
<1> QED BY <1>12, <1>13, <1>14, <1>15, <1>16, <1>17, <1>18

LEMMA ReturnOnward ==
  ASSUME AtWork, M!Step, NEW k \in 0..NSteps(graph)-1, NEW l \in 1..6, pc = <<k + 1, l>>,
         AtPoint(regs, k, l), Node(graph, k).op = "return"
  PROVE  Onward
<1> DEFINE a0 == ArgReg[1]
           b == asm[k + 1]
<1>1. /\ WellFormed(graph) /\ graph.n_in \in Nat /\ NSteps(graph) \in Nat \ {0}
      /\ Len(asm) = NSteps(graph) /\ pc \in (1..NSteps(graph)) \X (1..6) /\ ~halted
      /\ regs \in [Reg -> XWord]
  BY Situation
<1>2. /\ k = NSteps(graph) - 1 /\ Len(Node(graph, k).operands) = 1
      /\ Node(graph, k).operands[1] \in 0..graph.n_in+k-1
  <2>1. Len(Node(graph, k).operands) = ARITY["return"] /\ ARITY["return"] = 1
    BY <1>1, NodeFacts, Arities
  <2> QED BY <2>1, <1>1, NodeFacts
<1>3. Shaped /\ OperandsReach
  BY DEF AtWork, PipeInv, TextInv, RegInv, IInv
<1>4. PICK src \in Reg : b = EmitReturn(src)
  BY <1>1, <1>2, <1>3 DEF Shaped
<1>5. HoldIn(regs, k) /\ Result # UB => regs[src] = Sext(Result)
  <2>1. SourceReg(k, 1) = src
    <3>1. BlockSource("return", b, 1) = src
      <4> HIDE DEF b
      <4> QED BY <1>4, EmitReturnFacts
    <3> QED BY <3>1 DEF SourceReg
  <2>2. Holds(asm, graph.n_in, src, Node(graph, k).operands[1], k)
    <3>1. k \in 0..Len(asm)-1 /\ 1 \in 1..Len(Node(graph, k).operands)
      BY <1>1, <1>2
    <3> HIDE DEF b
    <3>2. Holds(asm, graph.n_in, SourceReg(k, 1), Node(graph, k).operands[1], k)
      BY <3>1, <1>3 DEF OperandsReach
    <3> QED BY <3>2, <2>1
  <2>3. Result = vals[Node(graph, k).operands[1]]
    BY <1>2 DEF Result, root_ref
  <2> QED BY <2>2, <2>3, <1>2 DEF HoldIn
<1>6. a0 \in Reg
  BY RegAssumption, ElementOfSeq, LenProperties
<1>7. (l = 1 /\ HoldIn(regs, k)) \/ (l = 2 /\ Len(b) = 2 /\ Ready(regs))
  BY DEF AtPoint
<1>8. Here = b[l]
  BY DEF Here
<1> DEFINE s1 == <<src>>
           s0 == <<>>
           l1 == Insn("mv", a0, s1)
           l2 == Insn("ret", NoReg, s0)
<1>9. /\ src # a0 => b = <<l1, l2>>
      /\ src = a0 => b = <<l2>>
  <2>1. b = IF src # a0 THEN <<l1, l2>> ELSE <<l2>>
    <3> HIDE DEF b
    <3> QED BY <1>4 DEF EmitReturn
  <2> HIDE DEF b, l1, l2, a0
  <2> QED BY <2>1
<1> HIDE DEF s1, s0, b, a0
<1>10. l1.op = "mv" /\ l1.src = s1 /\ l1.rd = a0 /\ l2.op = "ret"
  <2>1. l1.op = "mv" /\ l1.src = s1 /\ l1.rd = a0
    BY InsnShapes
  <2>2. l2.op = "ret"
    BY InsnShapes
  <2> HIDE DEF l1, l2
  <2> QED BY <2>1, <2>2
<1> HIDE DEF l1, l2, b, a0
<1>11. ASSUME Here = l2, Ready(regs) PROVE Onward
  <2>1. halted' = TRUE /\ regs' = regs /\ pc' = pc
    BY <1>10, <1>11, LineEffect
  <2> QED BY <2>1, <1>1, <1>11 DEF Onward, RunsFrom
<1>12. CASE src = a0
  <2>1. Len(b) = 1 /\ b[1] = l2
    BY <1>9, <1>12
  <2>2. l = 1 /\ HoldIn(regs, k)
    BY <1>7, <2>1
  <2>3. Ready(regs)
    BY <2>2, <1>5, <1>12 DEF Ready, a0
  <2> QED BY <2>1, <2>2, <2>3, <1>8, <1>11
<1>13. CASE src # a0
  <2>1. Len(b) = 2 /\ b[1] = l1 /\ b[2] = l2
    BY <1>9, <1>13
  <2>2. CASE l = 2
    BY <2>1, <2>2, <1>7, <1>8, <1>11
  <2>3. CASE l = 1
    <3> DEFINE x == regs[src]
    <3>1. Sets(Operand(1)) /\ Operand(1) = x /\ Here.rd = a0
      <4>1. Here = l1
        BY <2>1, <2>3, <1>8
      <4>2. Here.src[1] = src
        BY <4>1, <1>10 DEF s1
      <4> QED BY <4>1, <4>2, <1>10, LineEffect DEF Operand
    <3>2. M!NextPoint = <<k + 1, 2>>
      <4>1. Len(asm[pc[1]]) = 2 /\ pc[1] = k + 1 /\ pc[2] = 1
        BY <2>1, <2>3 DEF b
      <4> QED BY <4>1 DEF M!NextPoint
    <3>3. regs' = [regs EXCEPT ![a0] = x] /\ pc' = <<k + 1, 2>> /\ halted' = halted
      BY <3>1, <3>2 DEF Sets
    <3>4. x \in XWord
      BY <1>1
    <3> HIDE DEF x
    <3>5. regs' \in [Reg -> XWord] /\ regs'[a0] = x
      BY <3>3, <3>4, <1>1, <1>6
    <3>6. Result # UB => x = Sext(Result)
      BY <2>3, <1>5, <1>7 DEF x
    <3>7. Ready(regs')
      BY <3>5, <3>6 DEF Ready, a0
    <3>8. AtPoint(regs', k, 2)
      BY <3>7, <2>1 DEF AtPoint, b
    <3>9. pc' \in (1..NSteps(graph)) \X (1..6) /\ pc'[1] - 1 = k /\ pc'[2] = 2
      BY <3>3, <1>1
    <3> QED BY <3>3, <3>5, <3>8, <3>9, <1>1 DEF Onward, RunsFrom
  <2> QED BY <2>2, <2>3, <1>7
<1> QED BY <1>12, <1>13

LEMMA RunStep == PipeInv /\ Run => ValsOK' /\ InTurn' /\ Running'
<1> SUFFICES ASSUME PipeInv, Run PROVE ValsOK' /\ InTurn' /\ Running'
  OBVIOUS
<1>1. /\ AtWork /\ M!Step /\ asm' = asm /\ graph' = graph /\ outcome' = outcome /\ step' = step
      /\ vals' = vals /\ outcome = "returned"
  BY LineEffect DEF AtWork, Run
<1>2. /\ pc \in (1..NSteps(graph)) \X (1..6) /\ AtPoint(regs, pc[1] - 1, pc[2])
      /\ NSteps(graph) \in Nat \ {0}
  BY <1>1, Situation
<1>3. PICK k \in 0..NSteps(graph)-1 : pc[1] = k + 1 /\ pc[1] - 1 = k
  <2>1. pc[1] \in 1..NSteps(graph)
    BY <1>2
  <2>2. pc[1] - 1 \in 0..NSteps(graph)-1 /\ pc[1] = (pc[1] - 1) + 1
    BY <2>1, <1>2
  <2> QED BY <2>2
<1>4. PICK l \in 1..6 : pc[2] = l
  BY <1>2
<1>5. pc = <<k + 1, l>> /\ AtPoint(regs, k, l)
  BY <1>2, <1>3, <1>4
<1>6. Onward
  <2>1. CASE Node(graph, k).op = "select"
    BY <2>1, <1>1, <1>5, SelectOnward
  <2>2. CASE Node(graph, k).op = "return"
    BY <2>2, <1>1, <1>5, ReturnOnward
  <2>3. CASE Node(graph, k).op \notin {"select", "return"}
    <3>1. l = 1 /\ HoldIn(regs, k)
      BY <2>3, <1>5 DEF AtPoint
    <3> QED BY <3>1, <2>3, <1>1, <1>5, OneLineOnward
  <2> QED BY <2>1, <2>2, <2>3
<1>7. ValsOK /\ InTurn
  BY DEF PipeInv
<1>8. Todo' = Todo /\ Interpreted' = Interpreted
  BY <1>1 DEF Todo, Interpreted
<1>9. ValsOK'
  BY <1>1, <1>7, <1>8 DEF ValsOK
<1>10. InTurn'
  BY <1>1, <1>6, <1>7, <1>8 DEF InTurn, Onward
<1>11. Running'
  BY <1>1, <1>6 DEF Running, Onward, RunsFrom, AtPoint, HoldIn, Chosen, Ready, Result
<1> QED BY <1>9, <1>10, <1>11

-----------------------------------------------------------------------------
(* The invariant of the pipeline holds throughout every run.               *)
THEOREM PipelineInvariance == RunSpec => []PipeInv
<1>1. RunInit => Shaped /\ ValsOK /\ InTurn /\ Running
  BY PipeInit
<1>2. PipeInv /\ [RunNext]_allVars => [Next]_vars
  BY StepLowers
<1>3. PipeInv /\ [RunNext]_allVars => Shaped'
  BY <1>2, ShapedNext DEF PipeInv
<1>4. PipeInv /\ [RunNext]_allVars => ValsOK' /\ InTurn' /\ Running'
  <2> SUFFICES ASSUME PipeInv, [RunNext]_allVars PROVE ValsOK' /\ InTurn' /\ Running'
    OBVIOUS
  <2>1. CASE UNCHANGED allVars
    <3>1. /\ asm' = asm /\ graph' = graph /\ outcome' = outcome /\ step' = step
          /\ vals' = vals /\ pc' = pc /\ regs' = regs /\ halted' = halted
      BY <2>1 DEF allVars, vars, runVars
    <3>2. ValsOK /\ InTurn /\ Running
      BY DEF PipeInv
    <3>3. Todo' = Todo /\ Interpreted' = Interpreted
      BY <3>1 DEF Todo, Interpreted
    <3>4. ValsOK' /\ InTurn'
      BY <3>1, <3>2, <3>3 DEF ValsOK, InTurn
    <3>5. Running'
      BY <3>1, <3>2 DEF Running, RunsFrom, AtPoint, HoldIn, Chosen, Ready, Result
    <3> QED BY <3>4, <3>5
  <2>2. CASE Interpret
    BY <2>2, InterpretStep
  <2>3. CASE Lower
    BY <2>3, LowerStep
  <2>4. CASE Run
    BY <2>4, RunStep
  <2> QED BY <2>1, <2>2, <2>3, <2>4 DEF RunNext
<1>5. RunSpec => []TextInv
  BY RunLowers, TextInvariance, PTL
<1> QED BY <1>1, <1>3, <1>4, <1>5, PTL DEF RunSpec, PipeInv

(* The compiler is correct: when the emitted function returns, a0 holds    *)
(* the value the interpreter gives the specification (lowering.py, and the *)
(* end-to-end tests of tests/test_lowering.py).                            *)
THEOREM CompilerCorrect == RunSpec => []ResultCorrect
<1>1. PipeInv => ResultCorrect
  BY DEF PipeInv, ResultCorrect, Running, RunsFrom, Ready, InTurn
<1> QED BY <1>1, PipelineInvariance, PTL
(* Where the operands of a block are read from is a register.              *)
LEMMA SourcesAreRegisters ==
  ASSUME AtWork, NEW j \in 0..NSteps(graph)-1, NEW i \in 1..Len(Node(graph, j).operands)
  PROVE  SourceReg(j, i) \in Reg
<1>1. /\ WellFormed(graph) /\ Len(asm) = NSteps(graph) /\ NSteps(graph) \in Nat \ {0}
  BY Situation
<1>2. CASE Node(graph, j).op # "return"
  <2>1. PICK m, rd, n : Compiled(j, m, rd, n)
    BY <1>2, BlockHere
  <2>2. SourceReg(j, i) = m[Node(graph, j).operands[i]] /\ m[Node(graph, j).operands[i]] \in Reg
    BY <2>1 DEF Compiled, BlockFor, SourceReg
  <2> QED BY <2>2
<1>3. CASE Node(graph, j).op = "return"
  <2>1. /\ Shaped /\ j \in 0..Len(asm)-1
    BY <1>1 DEF AtWork, PipeInv
  <2>2. PICK src \in Reg : asm[j + 1] = EmitReturn(src)
    BY <1>3, <2>1 DEF Shaped
  <2>3. BlockSource("return", asm[j + 1], 1) = src
    BY <2>2, EmitReturnFacts
  <2>4. Len(Node(graph, j).operands) = ARITY["return"] /\ ARITY["return"] = 1
    BY <1>1, <1>3, NodeFacts, Arities
  <2>5. i = 1
    BY <2>4
  <2> QED BY <1>3, <2>3, <2>5 DEF SourceReg
<1> QED BY <1>2, <1>3

(* A reference that is still read is in the register its block wrote.      *)
LEMMA HomeHolds ==
  ASSUME AtWork, NEW k \in 0..NSteps(graph)-1, NEW ref \in 0..graph.n_in+k-1,
         ~LastUseBefore(ref, k)
  PROVE  HomeReg(ref) \in Reg /\ Holds(asm, graph.n_in, HomeReg(ref), ref, k)
<1>1. /\ graph.n_in \in Nat /\ NSteps(graph) \in Nat \ {0} /\ Len(asm) = NSteps(graph)
      /\ OperandsReach
  BY Situation DEF AtWork, PipeInv, TextInv, RegInv, IInv
<1>2. PICK j \in k..NSteps(graph)-1 : Uses(graph, j, ref)
  BY DEF LastUseBefore
<1>3. PICK i \in 1..Len(Node(graph, j).operands) : Node(graph, j).operands[i] = ref
  BY <1>2 DEF Uses
<1> DEFINE r == SourceReg(j, i)
           n == graph.n_in
<1>4. j \in 0..NSteps(graph)-1 /\ j \in 0..Len(asm)-1 /\ k <= j
  BY <1>1
<1>5. Holds(asm, n, r, ref, j) /\ r \in Reg
  BY <1>1, <1>3, <1>4, SourcesAreRegisters DEF OperandsReach
<1> HIDE DEF r
<1>6. CASE ref < n
  <2>1. \A q \in 0..k-1 : q \in 0..j-1
    BY <1>4
  <2>2. r = ArgReg[ref + 1] /\ \A q \in 0..k-1 : ~Writes(asm, q, r)
    BY <2>1, <1>5, <1>6 DEF Holds
  <2>3. HomeReg(ref) = r
    BY <2>2, <1>6 DEF HomeReg
  <2> QED BY <2>2, <2>3, <1>5, <1>6 DEF Holds
<1>7. CASE ~(ref < n)
  <2>1. \A q \in ref-n+1..k-1 : q \in ref-n+1..j-1
    BY <1>1, <1>4
  <2>2. Writes(asm, ref - n, r) /\ \A q \in ref-n+1..k-1 : ~Writes(asm, q, r)
    BY <2>1, <1>5, <1>7 DEF Holds
  <2>3. ref - n \in 0..NSteps(graph)-1 /\ ref - n # NSteps(graph) - 1
    BY <1>1, <1>7
  <2>4. Node(graph, ref - n).op # "return"
    BY <2>3, NodeFacts, Situation
  <2>5. PICK m, rd, c : Compiled(ref - n, m, rd, c)
    BY <2>3, <2>4, BlockHere
  <2>6. DestReg(ref - n) = rd /\ r = rd
    <3>1. /\ (IF Len(asm[(ref - n) + 1]) = 1 THEN asm[(ref - n) + 1][1].rd ELSE asm[(ref - n) + 1][2].rd) = rd
          /\ \A l \in 1..Len(asm[(ref - n) + 1]) : asm[(ref - n) + 1][l].rd \in {rd, NoReg}
      BY <2>5 DEF Compiled, BlockFor
    <3>2. r # NoReg
      BY <1>5, RegAssumption
    <3>3. r = rd
      BY <2>2, <3>1, <3>2 DEF Writes
    <3>4. DestReg(ref - n) = rd
      BY <3>1 DEF DestReg
    <3> QED BY <3>3, <3>4
  <2>7. HomeReg(ref) = r
    BY <2>6, <1>7 DEF HomeReg
  <2> QED BY <2>2, <2>7, <1>5, <1>7 DEF Holds
<1> QED BY <1>6, <1>7

(* While the function runs, in front of every block each defined value     *)
(* that is still to be read is in its register (lowering.py:63-97).        *)
THEOREM LiveValuesKept == RunSpec => []LiveValuesHeld
<1>1. PipeInv => LiveValuesHeld
  <2> SUFFICES ASSUME PipeInv, outcome = "returned", ~halted, pc[2] = 1,
                      NEW ref \in 0..graph.n_in+pc[1]-2,
                      ~LastUseBefore(ref, pc[1] - 1), vals[ref] # UB
               PROVE  regs[HomeReg(ref)] = Sext(vals[ref])
    BY DEF LiveValuesHeld
  <2> DEFINE k == pc[1] - 1
  <2>1. AtWork
    BY DEF AtWork
  <2>2. /\ pc \in (1..NSteps(graph)) \X (1..6) /\ NSteps(graph) \in Nat /\ graph.n_in \in Nat
        /\ AtPoint(regs, k, pc[2])
    BY <2>1, Situation
  <2>3. k \in 0..NSteps(graph)-1 /\ ref \in 0..graph.n_in+k-1
    BY <2>2
  <2> HIDE DEF k
  <2>4. HoldIn(regs, k)
    BY <2>2 DEF AtPoint
  <2>5. HomeReg(ref) \in Reg /\ Holds(asm, graph.n_in, HomeReg(ref), ref, k)
    BY <2>1, <2>3, HomeHolds DEF k
  <2> QED BY <2>3, <2>4, <2>5 DEF HoldIn
<1> QED BY <1>1, PipelineInvariance, PTL
-----------------------------------------------------------------------------
(* The meaning of a graph.                                                 *)

(* v gives the first t nodes of g their values.                            *)
Means(v, g, t) ==
  \A ref \in g.n_in..g.n_in+t-1 : v[ref] = InterpretNode(Node(g, ref - g.n_in), v)

(* Two valuations that agree on the inputs agree on what they both give.   *)
LEMMA MeaningUnique ==
  ASSUME NEW g, WellFormed(g), NEW t \in 0..NSteps(g)-1, NEW u, NEW v,
         Means(u, g, t), Means(v, g, t), \A ref \in 0..g.n_in-1 : u[ref] = v[ref]
  PROVE  \A ref \in 0..g.n_in+t-1 : u[ref] = v[ref]
<1> DEFINE n == g.n_in
           Bad == {ref \in 0..n+t-1 : u[ref] # v[ref]}
<1>1. n \in Nat /\ NSteps(g) \in Nat /\ t \in Nat
  BY NodeFacts
<1>2. ASSUME Bad # {} PROVE FALSE
  <2>1. Bad \subseteq Nat
    BY <1>1
  <2>2. PICK r \in Bad : \A q \in Bad : r <= q
    <3> HIDE DEF Bad
    <3> QED BY <1>2, <2>1, LeastElement
  <2>3. r \in n..n+t-1 /\ r - n \in 0..NSteps(g)-1 /\ r - n # NSteps(g) - 1
    <3>1. r \in 0..n+t-1 /\ r \notin 0..n-1
      OBVIOUS
    <3> QED BY <3>1, <1>1
  <2> DEFINE node == Node(g, r - n)
  <2>4. /\ node \in GraphNode /\ node.op # "return" /\ Len(node.operands) = ARITY[node.op]
        /\ \A i \in 1..Len(node.operands) : node.operands[i] \in 0..n+(r-n)-1
    BY <2>3, NodeFacts
  <2>5. \A q \in 0..n+(r-n)-1 : q \in 0..n+t-1 /\ ~(r <= q)
    BY <2>3, <1>1
  <2>6. \A i \in 1..Len(node.operands) : u[node.operands[i]] = v[node.operands[i]]
    BY <2>2, <2>4, <2>5
  <2>7. u[r] = InterpretNode(node, u) /\ v[r] = InterpretNode(node, v)
    BY <2>3 DEF Means
  <2> HIDE DEF node
  <2>8. InterpretNode(node, u) = InterpretNode(node, v)
    BY <2>4, <2>6, SameOperands
  <2> QED BY <2>2, <2>7, <2>8
<1> QED BY <1>2

(* The first t nodes of a graph have values.                               *)
Valuation(v, g, input, t) ==
  /\ v \in [0..g.n_in+t-1 -> WordOrUB]
  /\ \A ref \in 0..g.n_in-1 : v[ref] = input[ref]
  /\ Means(v, g, t)

LEMMA ValuationExtends ==
  ASSUME NEW g, WellFormed(g), NEW input, NEW t \in 0..NSteps(g)-2, NEW v, Valuation(v, g, input, t)
  PROVE  \E w : Valuation(w, g, input, t + 1)
<1> DEFINE n == g.n_in
           node == Node(g, t)
           x == InterpretNode(node, v)
           w == [ref \in 0..n+t |-> IF ref = n + t THEN x ELSE v[ref]]
<1>1. n \in Nat /\ NSteps(g) \in Nat /\ t \in Nat /\ t \in 0..NSteps(g)-1 /\ t # NSteps(g) - 1
  <2>1. t \in 0..NSteps(g)-1
    BY LenProperties DEF WellFormed, Graph, NSteps
  <2> QED BY <2>1, NodeFacts
<1>2. /\ node \in GraphNode /\ node.op # "return" /\ Len(node.operands) = ARITY[node.op]
      /\ \A i \in 1..Len(node.operands) : node.operands[i] \in 0..n+t-1
  BY <1>1, NodeFacts
<1>3. \A ref \in 0..n+t-1 : v[ref] \in WordOrUB
  BY DEF Valuation
<1>4. x \in WordOrUB
  BY <1>2, <1>3, ValueType
<1> HIDE DEF x, node
<1>5. \A ref \in 0..n+t : ref \in 0..n+t-1 \/ ref = n + t
  BY <1>1
<1>6. /\ w \in [0..n+(t+1)-1 -> WordOrUB]
      /\ w[n + t] = x /\ \A ref \in 0..n+t-1 : w[ref] = v[ref]
  BY <1>1, <1>3, <1>4, <1>5
<1> HIDE DEF w
<1>7. \A ref \in 0..n-1 : w[ref] = input[ref]
  <2>1. \A ref \in 0..n-1 : ref \in 0..n+t-1
    BY <1>1
  <2> QED BY <2>1, <1>6 DEF Valuation
<1>8. ASSUME NEW ref \in n..n+(t+1)-1
      PROVE  w[ref] = InterpretNode(Node(g, ref - n), w)
  <2> DEFINE q == Node(g, ref - n)
  <2>1. ref - n \in 0..NSteps(g)-1 /\ ref - n # NSteps(g) - 1 /\ ref - n <= t
    BY <1>1
  <2>2. /\ q \in GraphNode /\ q.op # "return" /\ Len(q.operands) = ARITY[q.op]
        /\ \A i \in 1..Len(q.operands) : q.operands[i] \in 0..n+(ref-n)-1
    BY <2>1, NodeFacts
  <2>3. \A r \in 0..n+(ref-n)-1 : r \in 0..n+t-1
    BY <2>1, <1>1
  <2>4. \A i \in 1..Len(q.operands) : w[q.operands[i]] = v[q.operands[i]]
    BY <2>2, <2>3, <1>6
  <2>5. w[ref] = InterpretNode(q, v)
    <3>1. CASE ref = n + t
      <4>1. ref - n = t
        BY <3>1, <1>1
      <4> QED BY <3>1, <4>1, <1>6 DEF x, node
    <3>2. CASE ref # n + t
      <4>1. ref \in n..n+t-1 /\ ref \in 0..n+t-1
        BY <3>2, <1>1
      <4> QED BY <4>1, <1>6 DEF Valuation, Means
    <3> QED BY <3>1, <3>2
  <2> HIDE DEF q
  <2>6. InterpretNode(q, w) = InterpretNode(q, v)
    BY <2>2, <2>4, SameOperands
  <2> QED BY <2>5, <2>6 DEF q
<1>9. Valuation(w, g, input, t + 1)
  BY <1>6, <1>7, <1>8 DEF Valuation, Means
<1> QED BY <1>9

LEMMA ValuationExists ==
  ASSUME NEW g, WellFormed(g), NEW input \in [0..g.n_in-1 -> Word]
  PROVE  \E v : Valuation(v, g, input, NSteps(g) - 1)
<1> DEFINE n == g.n_in
           Missing == {t \in 0..NSteps(g)-1 : ~ \E v : Valuation(v, g, input, t)}
<1>1. n \in Nat /\ NSteps(g) \in Nat \ {0}
  <2>1. 0 \in 0..NSteps(g)-1
    BY LenProperties DEF WellFormed, Graph, NSteps
  <2> QED BY <2>1, NodeFacts
<1>2. Valuation(input, g, input, 0)
  BY <1>1 DEF Valuation, Means, WordOrUB
<1>3. ASSUME Missing # {} PROVE FALSE
  <2>1. Missing \subseteq Nat
    BY <1>1
  <2>2. PICK t \in Missing : \A q \in Missing : t <= q
    <3> HIDE DEF Missing
    <3> QED BY <1>3, <2>1, LeastElement
  <2>3. t \in 0..NSteps(g)-1 /\ ~ \E v : Valuation(v, g, input, t)
    BY <2>2
  <2>4. t # 0
    BY <2>3, <1>2
  <2>5. t - 1 \in 0..NSteps(g)-2 /\ t - 1 \in 0..NSteps(g)-1 /\ ~(t <= t - 1) /\ (t - 1) + 1 = t
    BY <2>3, <2>4, <1>1
  <2>6. PICK v : Valuation(v, g, input, t - 1)
    BY <2>2, <2>5
  <2>7. \E w : Valuation(w, g, input, (t - 1) + 1)
    BY <2>5, <2>6, ValuationExtends
  <2> QED BY <2>3, <2>5, <2>7
<1>4. NSteps(g) - 1 \in 0..NSteps(g)-1
  BY <1>1
<1> QED BY <1>3, <1>4

(* Denote is the valuation of the whole graph.                             *)
IsDenotation(D, g, input) ==
  D = [ref \in 0..g.n_in+NSteps(g)-2 |->
         IF ref < g.n_in THEN input[ref] ELSE InterpretNode(Node(g, ref - g.n_in), D)]

LEMMA DenoteMeans ==
  ASSUME NEW g, WellFormed(g), NEW input \in [0..g.n_in-1 -> Word]
  PROVE  Valuation(Denote(g, input), g, input, NSteps(g) - 1)
<1> DEFINE n == g.n_in
           N == NSteps(g)
           D == Denote(g, input)
<1>1. n \in Nat /\ N \in Nat \ {0} /\ N - 1 \in 0..N-1 /\ n + (N - 1) - 1 = n + N - 2
  <2>1. 0 \in 0..NSteps(g)-1
    BY LenProperties DEF WellFormed, Graph, NSteps
  <2> QED BY <2>1, NodeFacts
<1>2. PICK v : Valuation(v, g, input, N - 1)
  BY ValuationExists
<1>3. \A ref \in 0..n+N-2 :
        (ref < n => ref \in 0..n-1) /\ (~(ref < n) => ref \in n..n+(N-1)-1)
  BY <1>1
<1>4. IsDenotation(v, g, input)
  <2>1. v = [ref \in 0..n+N-2 |-> v[ref]]
    BY <1>1, <1>2 DEF Valuation
  <2>2. \A ref \in 0..n+N-2 :
          v[ref] = IF ref < n THEN input[ref] ELSE InterpretNode(Node(g, ref - n), v)
    BY <1>2, <1>3 DEF Valuation, Means
  <2> QED BY <2>1, <2>2 DEF IsDenotation
<1>5. D = CHOOSE f : IsDenotation(f, g, input)
  BY DEF Denote, IsDenotation
<1>6. IsDenotation(D, g, input)
  <2> HIDE DEF D
  <2> QED BY <1>4, <1>5
<1> HIDE DEF D
<1>7. /\ \A ref \in 0..n-1 : D[ref] = input[ref]
      /\ Means(D, g, N - 1) /\ D = [ref \in 0..n+N-2 |-> D[ref]]
  <2>1. \A ref \in 0..n+N-2 :
          D[ref] = IF ref < n THEN input[ref] ELSE InterpretNode(Node(g, ref - n), D)
    BY <1>6 DEF IsDenotation
  <2>2. D = [ref \in 0..n+N-2 |-> D[ref]]
    BY <1>6 DEF IsDenotation
  <2>3. \A ref \in 0..n-1 : ref \in 0..n+N-2 /\ ref < n
    BY <1>1
  <2>4. \A ref \in n..n+(N-1)-1 : ref \in 0..n+N-2 /\ ~(ref < n)
    BY <1>1
  <2> QED BY <2>1, <2>2, <2>3, <2>4 DEF Means
<1>8. \A ref \in 0..n+(N-1)-1 : D[ref] = v[ref]
  <2>1. Means(v, g, N - 1) /\ \A ref \in 0..n-1 : D[ref] = v[ref]
    BY <1>2, <1>7 DEF Valuation
  <2> DEFINE t == N - 1
  <2>2. t \in 0..NSteps(g)-1 /\ Means(D, g, t) /\ Means(v, g, t)
    BY <2>1, <1>1, <1>7
  <2> HIDE DEF t
  <2>3. \A ref \in 0..g.n_in+t-1 : D[ref] = v[ref]
    BY <2>1, <2>2, MeaningUnique
  <2> QED BY <2>3 DEF t
<1>9. D \in [0..n+(N-1)-1 -> WordOrUB]
  BY <1>1, <1>2, <1>7, <1>8 DEF Valuation
<1> QED BY <1>7, <1>9 DEF Valuation, D
-----------------------------------------------------------------------------
(* The pipeline implements the contract.                                   *)
Input == [i \in 0..graph.n_in-1 |-> vals[i]]

Expected ==
  IF Interpreted THEN Result ELSE Denote(graph, Input)[root_ref(graph)]

GivenAnswer ==
  IF halted THEN regs[ArgReg[1]] ELSE IF outcome = "unsupported" THEN Refused ELSE Pending

(* What is expected does not depend on how far the interpreter has come.   *)
LEMMA ExpectedIsMeaning ==
  ASSUME WellFormed(graph), ValsOK
  PROVE  /\ Expected = Denote(graph, Input)[root_ref(graph)]
         /\ Expected \in WordOrUB
<1> DEFINE n == graph.n_in
           N == NSteps(graph)
           D == Denote(graph, Input)
           root == root_ref(graph)
<1>1. /\ n \in Nat /\ N \in Nat \ {0} /\ N - 1 \in 0..N-1
      /\ root \in 0..n+(N-1)-1
  <2>1. 0 \in 0..N-1
    BY LenProperties DEF WellFormed, Graph, NSteps
  <2>2. n \in Nat /\ N \in Nat \ {0} /\ N - 1 \in 0..N-1
    BY <2>1, NodeFacts
  <2> DEFINE k == N - 1
             last == Node(graph, k)
  <2>3. k \in 0..NSteps(graph)-1 /\ k = NSteps(graph) - 1
    BY <2>2
  <2>4. last.op = "return" /\ Len(last.operands) = ARITY["return"] /\ ARITY["return"] = 1
        /\ \A i \in 1..Len(last.operands) : last.operands[i] \in 0..n+k-1
    <3> HIDE DEF k
    <3>1. /\ last.op = "return" /\ Len(last.operands) = ARITY[last.op]
          /\ \A i \in 1..Len(last.operands) : last.operands[i] \in 0..n+k-1
      BY <2>3, NodeFacts
    <3> QED BY <3>1, Arities
  <2>5. root = last.operands[1]
    BY DEF root_ref
  <2>6. last.operands[1] \in 0..n+k-1
    <3> HIDE DEF last, k
    <3> QED BY <2>4
  <2> QED BY <2>2, <2>5, <2>6
<1>2. Input \in [0..n-1 -> Word]
  BY DEF ValsOK, Input
<1>3. Valuation(D, graph, Input, N - 1)
  BY <1>2, DenoteMeans
<1> HIDE DEF D, root
<1>4. D[root] \in WordOrUB
  BY <1>1, <1>3 DEF Valuation
<1>5. ASSUME Interpreted PROVE Result = D[root]
  <2> DEFINE t == N - 1
  <2>1. Todo = t
    BY <1>5 DEF Interpreted
  <2>2. Means(vals, graph, t)
    <3>1. \A ref \in n..n+Todo-1 : vals[ref] = InterpretNode(Node(graph, ref - n), vals)
      BY DEF ValsOK
    <3> HIDE DEF t
    <3> QED BY <3>1, <2>1 DEF Means
  <2>3. \A ref \in 0..n-1 : vals[ref] = D[ref]
    BY <1>3 DEF Valuation, Input
  <2>4. t \in 0..NSteps(graph)-1 /\ Means(D, graph, t)
    BY <1>1, <1>3 DEF Valuation
  <2> HIDE DEF t
  <2>5. \A ref \in 0..graph.n_in+t-1 : vals[ref] = D[ref]
    BY <2>2, <2>3, <2>4, MeaningUnique
  <2>6. vals[root] = D[root]
    BY <2>5, <1>1 DEF t
  <2> QED BY <2>6 DEF Result, root
<1>6. Expected = D[root]
  BY <1>5 DEF Expected, D, root
<1> QED BY <1>4, <1>6 DEF D, root

LEMMA ContractInit == RunInit => Contract!Init
<1> SUFFICES ASSUME RunInit PROVE Contract!Init
  OBVIOUS
<1>1. WellFormed(graph) /\ outcome = "called" /\ halted = FALSE
  BY GraphsAssumption DEF RunInit, Init
<1>2. ValsOK
  BY PipeInit
<1>3. Expected \in Word \cup {UB}
  BY <1>1, <1>2, ExpectedIsMeaning DEF WordOrUB
<1>4. GivenAnswer = Pending
  BY <1>1 DEF GivenAnswer
<1> QED BY <1>3, <1>4 DEF Contract!Init, Contract!Word, Contract!Bit, Word, Bit, Expected, GivenAnswer, Input

LEMMA ContractStep ==
  PipeInv /\ PipeInv' /\ [RunNext]_allVars
    => Contract!Next \/ UNCHANGED <<Expected, GivenAnswer>>
<1> SUFFICES ASSUME PipeInv, PipeInv', [RunNext]_allVars
             PROVE  Contract!Next \/ UNCHANGED <<Expected, GivenAnswer>>
  OBVIOUS
<1>1. /\ TypeOK /\ ValsOK /\ InTurn /\ WellFormed(graph) /\ TypeOK' /\ ValsOK' /\ InTurn' /\ Running'
      /\ WellFormed(graph)'
  BY DEF PipeInv, TextInv, RegInv, IInv, TypeOK
<1>2. graph' = graph /\ Input' = Input
  <2>1. CASE UNCHANGED allVars
    BY <2>1 DEF allVars, vars, runVars, Input
  <2>2. CASE Interpret
    <3>1. graph' = graph /\ vals' = Bind(vals, graph.n_in + Todo, InterpretNode(Node(graph, Todo), vals))
      BY <2>2 DEF Interpret, vars
    <3>2. \A i \in 0..graph.n_in-1 : i \in DOMAIN vals /\ i # graph.n_in + Todo
      BY <1>1, NodeFacts DEF ValsOK
    <3>3. \A i \in 0..graph.n_in-1 : vals'[i] = vals[i]
      BY <3>1, <3>2 DEF Bind
    <3> QED BY <3>1, <3>3 DEF Input
  <2>3. CASE Lower
    <3>1. graph' = graph
      BY <2>3 DEF Lower, Next, RejectTypes, Enter, LowerNode, OutOfRegisters, LowerReturn
    <3> QED BY <2>3, <3>1 DEF Lower, runVars, Input
  <2>4. CASE Run
    BY <2>4 DEF Run, Input
  <2> QED BY <2>1, <2>2, <2>3, <2>4 DEF RunNext
<1>3. /\ Expected = Denote(graph, Input)[root_ref(graph)]
      /\ Expected' = Denote(graph', Input')[root_ref(graph')]
  <2>1. Expected = Denote(graph, Input)[root_ref(graph)]
    BY <1>1, ExpectedIsMeaning
  <2>2. (WellFormed(graph) /\ ValsOK => Expected = Denote(graph, Input)[root_ref(graph)])'
    BY ExpectedIsMeaning, PTL
  <2> QED BY <1>1, <2>1, <2>2
<1>4. Expected' = Expected
  BY <1>2, <1>3
<1>5. Contract!Next <=>
        /\ GivenAnswer = Pending /\ Expected' = Expected
        /\ GivenAnswer' \in {Refused} \cup IF Expected = UB THEN XWord ELSE {Sext(Expected)}
  BY DEF Contract!Next, Contract!Refuse, Contract!Answer, Contract!XWord, Contract!Bit, Contract!Sext,
         XWord, Bit, Sext, Expected, GivenAnswer, Input
<1>6. CASE UNCHANGED allVars
  BY <1>4, <1>6 DEF allVars, vars, runVars, GivenAnswer
<1>7. CASE Interpret
  <2>1. halted' = halted /\ regs' = regs /\ outcome' = outcome
    BY <1>7 DEF Interpret, vars
  <2> QED BY <2>1, <1>4 DEF GivenAnswer
<1>8. CASE Lower
  <2>1. /\ halted' = halted /\ regs' = regs /\ outcome \notin {"returned", "unsupported"}
    BY <1>8 DEF Lower, runVars, Next, RejectTypes, Enter, LowerNode, OutOfRegisters, LowerReturn
  <2>2. halted = FALSE /\ GivenAnswer = Pending
    BY <2>1, <1>1 DEF InTurn, GivenAnswer
  <2>3. GivenAnswer' \in {Refused, Pending}
    BY <2>1, <2>2 DEF GivenAnswer
  <2> QED BY <2>2, <2>3, <1>4, <1>5
<1>9. CASE Run
  <2>1. ~halted /\ outcome = "returned" /\ outcome' = "returned"
    BY <1>9, LineEffect DEF Run
  <2>2. GivenAnswer = Pending
    BY <2>1 DEF GivenAnswer
  <2>3. CASE halted'
    <3>1. GivenAnswer' = regs'[ArgReg[1]] /\ regs'[ArgReg[1]] \in XWord
      <4>1. ArgReg[1] \in Reg
        BY RegAssumption, ElementOfSeq, LenProperties
      <4>2. regs' \in [Reg -> XWord]
        BY <1>1 DEF InTurn
      <4> QED BY <4>1, <4>2, <2>3 DEF GivenAnswer
    <3>2. Expected' = Result'
      BY <1>1, <2>1 DEF InTurn, Expected
    <3>3. Result' # UB => regs'[ArgReg[1]] = Sext(Result')
      BY <1>1, <2>1, <2>3 DEF Running, RunsFrom, Ready
    <3>4. GivenAnswer' \in IF Expected = UB THEN XWord ELSE {Sext(Expected)}
      BY <3>1, <3>2, <3>3, <1>4
    <3> QED BY <3>4, <2>2, <1>4, <1>5
  <2>4. CASE ~halted'
    <3>1. GivenAnswer' = Pending
      BY <2>1, <2>4 DEF GivenAnswer
    <3> QED BY <3>1, <2>2, <1>4
  <2> QED BY <2>3, <2>4
<1> QED BY <1>6, <1>7, <1>8, <1>9 DEF RunNext

(* The pipeline implements the safety part of its contract: at most one    *)
(* answer per graph and input, a refusal or the value the specification    *)
(* has, whatever it is when the specification has none.                    *)
THEOREM ImplementsContract == RunSpec => Contract!Safety
<1>1. PipeInv /\ PipeInv' /\ [RunNext]_allVars =>
        [Contract!Next]_<<IF Interpreted THEN Result
                          ELSE Denote(graph, [i \in 0..graph.n_in-1 |-> vals[i]])[root_ref(graph)],
                          IF halted THEN regs[ArgReg[1]]
                          ELSE IF outcome = "unsupported" THEN Refused ELSE Pending>>
  BY ContractStep DEF Expected, GivenAnswer, Input
<1> QED BY <1>1, ContractInit, PipelineInvariance, PTL DEF RunSpec, Contract!Safety

-----------------------------------------------------------------------------
(* The operation tables of the code, at every width.                       *)

(* A word has the bits of a number, which a multiple of 2^W leaves alone.  *)
LEMMA WordOf ==
  ASSUME NEW n \in Int
  PROVE  mask_to(n) \in Word /\ mask_to(n + Pow2[W]) = mask_to(n)
<1>1. ASSUME NEW i \in 0..W-1 PROVE BitAt(n, i) \in Bit /\ BitAt(n + Pow2[W], i) = BitAt(n, i)
  <2> DEFINE p == Pow2[i]
             c == Pow2[W-1-i]
             q == n \div p
  <2>1. i \in Nat /\ W - 1 - i \in Nat /\ (W - 1 - i) + 1 = W - i /\ W - i \in Nat /\ i + (W - i) = W
    BY WidthAssumption
  <2>2. p \in Nat \ {0} /\ c \in Nat /\ Pow2[W-i] = 2 * c
    BY <2>1, Pow2Facts
  <2>3. Pow2[W] = p * (2 * c)
    <3>1. Pow2[i + (W - i)] = Pow2[i] * Pow2[W-i]
      BY <2>1, Pow2Product
    <3>2. Pow2[W] = p * Pow2[W-i]
      BY <2>1, <3>1
    <3> HIDE DEF p, c
    <3> QED BY <2>2, <3>2
  <2>4. BitAt(n, i) = q % 2 /\ BitAt(n + Pow2[W], i) = ((n + Pow2[W]) \div p) % 2
    BY DEF BitAt
  <2> HIDE DEF p, c
  <2>5. q \in Int
    BY <2>2
  <2>6. (n + p * (2 * c)) \div p = q + 2 * c
    <3> DEFINE k == 2 * c
    <3>1. k \in Int
      BY <2>2
    <3> HIDE DEF k
    <3>2. (n + p * k) \div p = (n \div p) + k
      BY <2>2, <3>1, DivideSum
    <3> QED BY <3>2 DEF k
  <2> HIDE DEF q
  <2>7. q % 2 \in Bit /\ (q + 2 * c) % 2 = q % 2
    BY <2>2, <2>5 DEF Bit
  <2> QED BY <2>3, <2>4, <2>6, <2>7
<1> QED BY <1>1 DEF mask_to, Word

(* The number a word stands for is a value of its width.                   *)
SumTo(w, i, S) == IF i = 0 THEN 0 ELSE S[i-1] + w[i-1] * Pow2[i-1]
LEMMA UValFacts ==
  ASSUME NEW w \in Word
  PROVE  UVal(w) \in Values(W)
<1> DEFINE D == 0..W
           F == [D -> Nat]
           h == [i \in D |-> i]
           G == [p \in D \X F |-> SumTo(w, p[1], p[2])]
           IsTable(S) == S = [i \in D |-> SumTo(w, i, S)]
           sum == CHOOSE S : IsTable(S)
<1>1. W \in Nat /\ \A i \in D : i # 0 => i - 1 \in D /\ i - 1 < i /\ w[i-1] \in {0, 1} /\ Pow2[i-1] \in Nat
  <2>1. ASSUME NEW i \in D, i # 0 PROVE i - 1 \in 0..W-1 /\ i - 1 \in D /\ i - 1 < i /\ i - 1 \in Nat
    BY <2>1, WidthAssumption
  <2>2. \A j \in 0..W-1 : w[j] \in {0, 1}
    BY DEF Word, Bit
  <2>3. \A j \in Nat : Pow2[j] \in Nat
    BY Pow2Facts
  <2>4. W \in Nat
    BY WidthAssumption
  <2> HIDE DEF D
  <2> QED BY <2>1, <2>2, <2>3, <2>4
<1>2. UVal(w) = sum[W]
  BY DEF UVal, SumTo
<1>3. ASSUME NEW i \in D, NEW S, i # 0 => S[i-1] \in Nat PROVE SumTo(w, i, S) \in Nat
  <2>1. CASE i = 0
    BY <2>1 DEF SumTo
  <2>2. CASE i # 0
    <3>1. w[i-1] * Pow2[i-1] \in Nat
      <4> DEFINE b == w[i-1]
                 p == Pow2[i-1]
      <4>1. b \in {0, 1} /\ p \in Nat
        BY <1>1, <2>2
      <4> HIDE DEF b, p
      <4>2. b * p \in Nat
        BY <4>1
      <4> QED BY <4>2 DEF b, p
    <3> QED BY <1>3, <2>2, <3>1 DEF SumTo
  <2> QED BY <2>1, <2>2
<1>4. G \in [D \X F -> Nat]
  BY <1>1, <1>3
<1>5. \A i \in D : \A U, V \in F : (\A j \in D : h[j] < h[i] => U[j] = V[j]) => G[<<i, U>>] = G[<<i, V>>]
  BY <1>1 DEF SumTo
<1>6. \A i \in D : \A V \in F : G[<<i, V>>] = SumTo(w, i, V)
  OBVIOUS
<1>7. h \in [D -> Nat] /\ Nat # {}
  BY <1>1
<1> HIDE DEF G, h
<1>8. Descends(D, Nat, h, G)
  BY <1>4, <1>5, <1>7 DEF Descends
<1>9. PICK S : Solves(S, D, Nat, G)
  BY <1>8, Recursion
<1>10. IsTable(S)
  BY <1>6, <1>9 DEF Solves
<1>11. IsTable(sum)
  BY <1>10
<1> HIDE DEF sum
<1>12. \A i \in D : sum[i] = SumTo(w, i, sum)
  BY <1>11
<1> DEFINE Good == {i \in D : sum[i] \in Values(i)}
<1>13. \A i \in D : (\A j \in D : h[j] < h[i] => j \in Good) => i \in Good
  <2> SUFFICES ASSUME NEW i \in D, i # 0 => i - 1 \in Good PROVE sum[i] \in Values(i)
    BY <1>1 DEF h
  <2>1. CASE i = 0
    <3>1. sum[0] = 0
      BY <1>12, <2>1 DEF SumTo
    <3> QED BY <2>1, <3>1, MaskFacts
  <2>2. CASE i # 0
    <3> DEFINE s == sum[i-1]
               b == w[i-1]
               p == Pow2[i-1]
    <3>1. i - 1 \in Nat /\ (i - 1) + 1 = i
      BY <2>2
    <3>2. s \in 0..p-1 /\ b \in {0, 1} /\ p \in Nat
      BY <1>1, <2>2 DEF Values
    <3>3. Values(i) = 0..2*p-1
      BY <3>1, Pow2Facts DEF Values
    <3>4. sum[i] = s + b * p
      BY <1>12, <2>2 DEF SumTo
    <3> HIDE DEF s, b, p
    <3>5. b * p = 0 \/ b * p = p
      BY <3>2
    <3> QED BY <3>2, <3>3, <3>4, <3>5
  <2> QED BY <2>1, <2>2
<1>14. D \subseteq Good
  <2> HIDE DEF Good, D
  <2> QED BY <1>7, <1>13, RankInduction
<1> QED BY <1>1, <1>2, <1>14

(* Numbers of the width as signed ones, and their quotients.               *)
LEMMA SignedFacts ==
  ASSUME NEW n \in Values(W)
  PROVE  n \in Nat /\ signed(n, W) \in Int /\ (n # 0 => signed(n, W) # 0)
<1> DEFINE p == Pow2[W]
<1>1. W \in Nat /\ p \in Nat \ {0}
  BY WidthAssumption, Pow2Facts
<1>2. n \in 0..p-1
  BY DEF Values
<1>3. signed(n, W) \in {n - p, n}
  BY DEF signed
<1> HIDE DEF p
<1> QED BY <1>1, <1>2, <1>3

LEMMA QuotFacts ==
  ASSUME NEW a \in Int, NEW b \in Int \ {0}
  PROVE  Quot(a, b) \in Int /\ a - Quot(a, b) * b \in Int
<1> DEFINE q == Magnitude(a) \div Magnitude(b)
<1>1. Magnitude(a) \in Nat /\ Magnitude(b) \in Nat \ {0}
  BY DEF Magnitude
<1>2. q \in Int
  BY <1>1
<1>3. Quot(a, b) \in {-q, q}
  BY DEF Quot
<1> HIDE DEF q
<1>4. Quot(a, b) \in Int
  BY <1>2, <1>3
<1> DEFINE c == Quot(a, b)
<1>5. c \in Int
  BY <1>4
<1> HIDE DEF c
<1>6. a - c * b \in Int
  BY <1>5
<1> QED BY <1>4, <1>6 DEF c

(* The one quotient that is not a number of the width.                     *)
LEMMA Overflow ==
  LET low == -Pow2[W-1] IN Quot(low, -1) = low + Pow2[W] /\ low - Quot(low, -1) * (-1) = 0
<1> DEFINE p == Pow2[W-1]
<1>1. p \in Nat \ {0} /\ Pow2[W] = 2 * p
  <2>1. W - 1 \in Nat /\ (W - 1) + 1 = W
    BY WidthAssumption
  <2> QED BY <2>1, Pow2Facts
<1> HIDE DEF p
<1>2. Magnitude(-p) = p /\ Magnitude(-1) = 1
  <2>1. \A n \in Nat \ {0} : Magnitude(-n) = n
    BY DEF Magnitude
  <2>2. 1 \in Nat \ {0}
    OBVIOUS
  <2> QED BY <1>1, <2>1, <2>2
<1>3. p \div 1 = p
  BY <1>1
<1>4. Quot(-p, -1) = p
  <2>1. -p < 0 /\ -1 < 0
    BY <1>1
  <2> QED BY <1>2, <1>3, <2>1 DEF Quot
<1>5. p = -p + 2 * p /\ -p - p * (-1) = 0
  BY <1>1
<1> QED BY <1>1, <1>4, <1>5 DEF p

(* For every width, the instruction lower() picks for an operation computes *)
(* what _apply_op does wherever _eval_bin defines it: a shift amount below *)
(* the width is its own low bits, and the quotient that overflows wraps to *)
(* the dividend.                                                           *)
THEOREM TablesAgree == OpsAgree(ApplyOp, EvalDefined, RvWord)
<1>1. ASSUME NEW op \in ArithOps, NEW a \in Word, NEW b \in Word
      PROVE  /\ ApplyOp(op, a, b) \in Word
             /\ RvWord(Mnemonic[op], a, b) \in Word
             /\ EvalDefined(op, a, b) => RvWord(Mnemonic[op], a, b) = ApplyOp(op, a, b)
  <2> DEFINE l == UVal(a)
             r == UVal(b)
             sl == SVal(a)
             sr == SVal(b)
             insn == Mnemonic[op]
             amount == r % W
             overflow == sl = -Pow2[W-1] /\ sr = -1
             exact == BinExact(op, l, r, W)
             run == RvExact(insn, a, b)
  <2>1. W \in Nat \ {0}
    BY WidthAssumption
  <2>2. l \in Nat /\ r \in Nat /\ sl \in Int /\ sr \in Int /\ (r # 0 => sr # 0)
    BY UValFacts, SignedFacts DEF SVal
  <2>3. sl = signed(l, W) /\ sr = signed(r, W)
    BY DEF SVal
  <2>4. amount \in Nat /\ (r < W => amount = r)
    <3> HIDE DEF r
    <3> QED BY <2>1, <2>2
  <2>5. \A k \in Nat : Pow2[k] \in Nat \ {0}
    BY Pow2Facts
  <2>6. ApplyOp(op, a, b) = IF op \in {"udiv", "urem", "sdiv", "srem"} /\ r = 0 THEN ZeroWord ELSE mask_to(exact)
    BY DEF ApplyOp
  <2>7. RvWord(insn, a, b) = mask_to(run)
    BY DEF RvWord
  <2>8. EvalDefined(op, a, b) <=> BinDefined(op, r, W)
    BY DEF EvalDefined
  <2>9. ZeroWord \in Word
    BY DEF ZeroWord, Word, Bit
  <2>10. \/ exact \in Int
         \/ op \in {"udiv", "urem", "sdiv", "srem"} /\ r = 0
    <3>1. CASE op \in {"add", "sub", "mul"}
      <4> HIDE DEF l, r
      <4>1. l + r \in Int /\ l - r \in Int /\ l * r \in Int
        BY <2>2
      <4> QED BY <3>1, <4>1 DEF BinExact
    <3>2. CASE op \in {"udiv", "urem"}
      <4> HIDE DEF l, r
      <4>1. r # 0 => l \div r \in Int /\ l % r \in Int
        BY <2>2
      <4> QED BY <3>2, <4>1 DEF BinExact
    <3>3. CASE op \in {"sdiv", "srem"}
      <4> HIDE DEF l, r, sl, sr
      <4>1. r # 0 => Quot(sl, sr) \in Int /\ sl - Quot(sl, sr) * sr \in Int
        BY <2>2, QuotFacts
      <4> QED BY <2>3, <3>3, <4>1 DEF BinExact
    <3>4. CASE op \in {"shl", "lshr", "ashr"}
      <4> DEFINE p == Pow2[r]
      <4>1. p \in Nat \ {0}
        BY <2>2, <2>5
      <4>2. exact = IF op = "shl" THEN l * p ELSE IF op = "lshr" THEN l \div p ELSE sl \div p
        BY <2>3, <3>4 DEF BinExact
      <4> HIDE DEF l, r, sl, p, exact
      <4>3. l * p \in Int /\ l \div p \in Int /\ sl \div p \in Int
        BY <2>2, <4>1
      <4> QED BY <4>2, <4>3
    <3> QED BY <3>1, <3>2, <3>3, <3>4 DEF ArithOps
  <2>11. run \in Int /\ (BinDefined(op, r, W) => run = exact \/ run + Pow2[W] = exact)
    <3>1. CASE op \in {"add", "sub", "mul"}
      <4>1. insn = IF op = "add" THEN "addw" ELSE IF op = "sub" THEN "subw" ELSE "mulw"
        BY <3>1 DEF Mnemonic
      <4>2. run = IF op = "add" THEN l + r ELSE IF op = "sub" THEN l - r ELSE l * r
        <5> HIDE DEF insn
        <5> QED BY <3>1, <4>1 DEF RvExact
      <4>3. exact = IF op = "add" THEN l + r ELSE IF op = "sub" THEN l - r ELSE l * r
        BY <3>1 DEF BinExact
      <4> HIDE DEF l, r, exact, run
      <4>4. l + r \in Int /\ l - r \in Int /\ l * r \in Int
        BY <2>2
      <4> QED BY <4>2, <4>3, <4>4
    <3>2. CASE op \in {"udiv", "urem"}
      <4>1. insn = IF op = "udiv" THEN "divuw" ELSE "remuw"
        BY <3>2 DEF Mnemonic
      <4>2. run = IF op = "udiv" THEN IF r = 0 THEN -1 ELSE l \div r ELSE IF r = 0 THEN l ELSE l % r
        <5> HIDE DEF insn
        <5> QED BY <3>2, <4>1 DEF RvExact
      <4>3. exact = (IF op = "udiv" THEN l \div r ELSE l % r) /\ (BinDefined(op, r, W) => r # 0)
        BY <3>2 DEF BinExact, BinDefined
      <4> HIDE DEF l, r, exact, run
      <4>4. r # 0 => l \div r \in Int /\ l % r \in Int
        BY <2>2
      <4> QED BY <2>2, <4>2, <4>3, <4>4
    <3>3. CASE op \in {"sdiv", "srem"}
      <4>1. insn = IF op = "sdiv" THEN "divw" ELSE "remw"
        BY <3>3 DEF Mnemonic
      <4>2. run = IF op = "sdiv" THEN IF r = 0 THEN -1 ELSE IF overflow THEN sl ELSE Quot(sl, sr)
                  ELSE IF r = 0 THEN sl ELSE IF overflow THEN 0 ELSE sl - Quot(sl, sr) * sr
        <5> HIDE DEF insn
        <5> QED BY <3>3, <4>1 DEF RvExact
      <4>3. exact = (IF op = "sdiv" THEN Quot(sl, sr) ELSE sl - Quot(sl, sr) * sr) /\ (BinDefined(op, r, W) => r # 0)
        BY <2>3, <3>3 DEF BinExact, BinDefined
      <4>4. overflow => Quot(sl, sr) = sl + Pow2[W] /\ sl - Quot(sl, sr) * sr = 0
        <5> HIDE DEF sl, sr
        <5> QED BY Overflow
      <4> HIDE DEF l, r, sl, sr, exact, run, overflow
      <4>5. r # 0 => Quot(sl, sr) \in Int /\ sl - Quot(sl, sr) * sr \in Int
        BY <2>2, QuotFacts
      <4> QED BY <2>2, <4>2, <4>3, <4>4, <4>5
    <3>4. CASE op \in {"shl", "lshr", "ashr"}
      <4> DEFINE p == Pow2[amount]
      <4>1. insn = IF op = "shl" THEN "sllw" ELSE IF op = "lshr" THEN "srlw" ELSE "sraw"
        BY <3>4 DEF Mnemonic
      <4>2. run = IF op = "shl" THEN l * p ELSE IF op = "lshr" THEN l \div p ELSE sl \div p
        <5> HIDE DEF insn
        <5> QED BY <3>4, <4>1 DEF RvExact
      <4>3. BinDefined(op, r, W) => amount = r
        <5> HIDE DEF amount
        <5> QED BY <2>4, <3>4 DEF BinDefined
      <4>4. amount = r => exact = IF op = "shl" THEN l * p ELSE IF op = "lshr" THEN l \div p ELSE sl \div p
        <5> HIDE DEF l, r, amount
        <5> QED BY <2>3, <3>4 DEF BinExact, exact
      <4>5. p \in Nat \ {0}
        <5> HIDE DEF amount
        <5> QED BY <2>4, <2>5
      <4> HIDE DEF l, r, sl, p, exact, run, amount
      <4>6. l * p \in Int /\ l \div p \in Int /\ sl \div p \in Int
        BY <2>2, <4>5
      <4> QED BY <4>2, <4>3, <4>4, <4>6
    <3> QED BY <3>1, <3>2, <3>3, <3>4 DEF ArithOps
  <2> HIDE DEF exact, run, r, insn
  <2>12. ApplyOp(op, a, b) \in Word
    BY <2>6, <2>9, <2>10, WordOf
  <2>13. RvWord(insn, a, b) \in Word
    BY <2>7, <2>11, WordOf
  <2>14. ASSUME BinDefined(op, r, W) PROVE mask_to(run) = ApplyOp(op, a, b)
    <3>1. ~(op \in {"udiv", "urem", "sdiv", "srem"} /\ r = 0)
      BY <2>14 DEF BinDefined
    <3>2. mask_to(exact) = mask_to(run)
      <4>1. mask_to(run + Pow2[W]) = mask_to(run)
        BY <2>11, WordOf
      <4> QED BY <2>11, <2>14, <4>1
    <3> QED BY <2>6, <3>1, <3>2
  <2> QED BY <2>7, <2>8, <2>12, <2>13, <2>14 DEF insn
<1>2. ASSUME NEW a \in Word PROVE RvWord("subw", ZeroWord, a) = ApplyOp("sub", ZeroWord, a)
  BY DEF RvWord, RvExact, ApplyOp, BinExact
<1> QED BY <1>1, <1>2 DEF OpsAgree
=============================================================================
