------------------------------- MODULE Lowering -------------------------------
(***************************************************************************)
(* lower() of src/model/lowering.py: liveness, linear-scan allocation over *)
(* a pool of caller-saved registers, and instruction emission, one step of *)
(* the main loop per action.  The result is kept as one block of lines per *)
(* graph node, in emission order.                                          *)
(***************************************************************************)
EXTENDS ComputeGraph, Integers, Functions, Orders

CONSTANTS Graphs,    \* the graphs lower() is called with
          Reg,       \* register names
          ArgReg,    \* <<"a0", "a1", ...>>: ArgReg[i+1] is the name f"a{i}"
          Pool,      \* _TEMP_POOL, in order
          NoReg      \* no destination

ASSUME GraphsAssumption ==
  \A g \in Graphs : WellFormed(g) /\ g.n_in <= Len(ArgReg)

ASSUME RegAssumption ==
  /\ ArgReg \in Seq(Reg) /\ IsInjective(ArgReg) /\ Len(ArgReg) > 0
  /\ Pool \in Seq(Reg) /\ IsInjective(Pool)
  /\ NoReg \notin Reg

(* _TEMP_POOL lists a0, the register of the result.                        *)
ASSUME ResultRegAssumption == ArgReg[1] \in Range(Pool)

VARIABLES graph,        \* the argument of lower()
          outcome,      \* "called", "running", "returned" or "unsupported"
          step,         \* index of the node being lowered
          ref_to_reg,   \* register of each reference still mapped
          free_regs,    \* the free list, head first
          label_counter,
          asm           \* emitted lines, one block per lowered node

vars == <<graph, outcome, step, ref_to_reg, free_regs, label_counter, asm>>

-----------------------------------------------------------------------------
(* Lines.  A label is a prefix and a number; imm is the value of the       *)
(* literal after the assembler has sign-extended it.                       *)
Label(prefix, n) == [prefix |-> prefix, num |-> n]
NoLabel == Label("none", 0)
Insn(op, rd, src) ==
  [op |-> op, rd |-> rd, src |-> src, imm |-> ZeroXWord, lbl |-> NoLabel]
InsnImm(op, rd, src, imm) == [Insn(op, rd, src) EXCEPT !.imm = imm]
InsnLbl(op, src, lbl)     == [Insn(op, NoReg, src) EXCEPT !.lbl = lbl]

Mnemonic ==
  [add |-> "addw", sub |-> "subw", mul |-> "mulw", sdiv |-> "divw",
   udiv |-> "divuw", srem |-> "remw", urem |-> "remuw", shl |-> "sllw",
   lshr |-> "srlw", ashr |-> "sraw", and |-> "and", or |-> "or", xor |-> "xor"]

(* Slip: the word is printed unsigned, v -= 2^32 forgotten.                *)
UnsignedLiteral(w) == [i \in 0..X-1 |-> IF i < W THEN w[i] ELSE 0]

(* li takes a signed decimal literal: the word read in two's complement.   *)
SignedLiteral(w) == Sext(w)

(* Slip: the two arms exchanged.                                           *)
SwappedSelectBlock(rd, r, n) ==
  << InsnLbl("beqz", <<r[1]>>, Label("sel_else", n)), Insn("mv", rd, <<r[3]>>),
     InsnLbl("j", <<>>, Label("sel_end", n)), InsnLbl("label", <<>>, Label("sel_else", n)),
     Insn("mv", rd, <<r[2]>>), InsnLbl("label", <<>>, Label("sel_end", n)) >>

(* rd = (cond != 0) ? then : else, with two labels of its own.             *)
SelectBlock(rd, r, n) ==
  LET else_lbl == Label("sel_else", n)
      end_lbl  == Label("sel_end", n + 1)
  IN  << InsnLbl("beqz", <<r[1]>>, else_lbl),
         Insn("mv", rd, <<r[2]>>),
         InsnLbl("j", <<>>, end_lbl),
         InsnLbl("label", <<>>, else_lbl),
         Insn("mv", rd, <<r[3]>>),
         InsnLbl("label", <<>>, end_lbl) >>

(* _emit_node: the lines for one node under register map m.                *)
EmitNode(node, m, rd, n) ==
  LET r == [i \in 1..Len(node.operands) |-> m[node.operands[i]]] IN
  CASE node.op = "const"  -> << InsnImm("li", rd, <<>>, SignedLiteral(node.val)) >>
    [] node.op \in ArithOps \cup BitOps -> << Insn(Mnemonic[node.op], rd, r) >>
    [] node.op = "neg"    -> << Insn("negw", rd, r) >>
    [] node.op = "not"    -> << InsnImm("xori", rd, r, OnesXWord) >>
    [] node.op = "select" -> SelectBlock(rd, r, n)

(* Slip: the result is taken to be in a0 already.                          *)
EmitReturnInPlace(src) == << Insn("ret", NoReg, <<>>) >>

EmitReturn(src) ==
  IF src # ArgReg[1] THEN << Insn("mv", ArgReg[1], <<src>>), Insn("ret", NoReg, <<>>) >>
                     ELSE << Insn("ret", NoReg, <<>>) >>

(* Slip: next_label does not advance its counter.                          *)
NoLabelsUsed(node) == 0

LabelsUsed(node) == IF node.op = "select" THEN 2 ELSE 0

-----------------------------------------------------------------------------
(* Liveness: last_use.get(ref, -1) < k, no node from k on reads ref.       *)
LastUseBefore(ref, k) == \A j \in k..NSteps(graph)-1 : ~Uses(graph, j, ref)

(* Slips: a value is freed after its first use instead of its last, or one *)
(* node too late.                                                          *)
DeadAfterFirstUse ==
  {ref \in DOMAIN ref_to_reg :
     ~Uses(graph, step, ref) /\ (LastUseBefore(ref, step) \/ \E j \in 0..step-1 : Uses(graph, j, ref))}
DeadTooLate == {ref \in DOMAIN ref_to_reg : step > 0 /\ LastUseBefore(ref, step - 1)}

(* free_dead.  The dictionary keeps insertion order, which is ascending    *)
(* order of references; a register already on the list is not added twice. *)
Dead == {ref \in DOMAIN ref_to_reg : LastUseBefore(ref, step)}

Released ==
  {ref \in Dead :
     /\ ref_to_reg[ref] \notin Range(free_regs)
     /\ \A q \in Dead : q < ref => ref_to_reg[q] # ref_to_reg[ref]}

MapAfterFree == [ref \in DOMAIN ref_to_reg \ Dead |-> ref_to_reg[ref]]

(* Slip: the register of a dead value is dropped, not returned.            *)
FreeAfterFreeLost == free_regs

FreeAfterFree == free_regs \o InOrder(Released, ref_to_reg)

(* Slip: the registers of the inputs stay in the pool.                     *)
WholePool(n) == Pool

(* [r for r in _TEMP_POOL if r not in ref_to_reg.values()], n inputs mapped *)
PoolWithoutInputs(n) ==
  InOrder({i \in 1..Len(Pool) : \A j \in 1..n : Pool[i] # ArgReg[j]}, Pool)

(* Slip: the new value is numbered one too high.                           *)
BindNext(m, ref, rd) == [q \in DOMAIN m \cup {ref + 1} |-> IF q = ref + 1 THEN rd ELSE m[q]]

Bind(m, ref, rd) == [q \in DOMAIN m \cup {ref} |-> IF q = ref THEN rd ELSE m[q]]

-----------------------------------------------------------------------------
Init ==
  /\ graph \in Graphs
  /\ outcome = "called"
  /\ step = 0
  /\ ref_to_reg = <<>>
  /\ free_regs = <<>>
  /\ label_counter = 0
  /\ asm = <<>>

(* _check_supported raises on any other type than i32.                     *)
RejectTypes ==
  /\ outcome = "called"
  /\ ~graph.allI32
  /\ outcome' = "unsupported"
  /\ UNCHANGED <<graph, step, ref_to_reg, free_regs, label_counter, asm>>

(* Inputs take a0..a{N-1}; the rest of the pool is free.                   *)
Enter ==
  /\ outcome = "called"
  /\ graph.allI32
  /\ outcome' = "running"
  /\ ref_to_reg' = [i \in 0..graph.n_in-1 |-> ArgReg[i + 1]]
  /\ free_regs' = PoolWithoutInputs(graph.n_in)
  /\ UNCHANGED <<graph, step, label_counter, asm>>

(* One iteration of the main loop for a node other than RETURN.            *)
LowerNode ==
  LET node == Node(graph, step)
      rd   == Head(FreeAfterFree)
  IN  /\ outcome = "running"
      /\ node.op # "return"
      /\ FreeAfterFree # <<>>
      /\ asm' = Append(asm, EmitNode(node, MapAfterFree, rd, label_counter))
      /\ label_counter' = label_counter + LabelsUsed(node)
      /\ ref_to_reg' = Bind(MapAfterFree, graph.n_in + step, rd)
      /\ free_regs' = Tail(FreeAfterFree)
      /\ step' = step + 1
      /\ UNCHANGED <<graph, outcome>>

(* alloc_reg finds the pool empty: UnsupportedLowering.                    *)
OutOfRegisters ==
  /\ outcome = "running"
  /\ Node(graph, step).op # "return"
  /\ FreeAfterFree = <<>>
  /\ outcome' = "unsupported"
  /\ ref_to_reg' = MapAfterFree
  /\ free_regs' = FreeAfterFree
  /\ UNCHANGED <<graph, step, label_counter, asm>>

(* The RETURN node: result to a0, ret, leave the loop.                     *)
LowerReturn ==
  /\ outcome = "running"
  /\ Node(graph, step).op = "return"
  /\ asm' = Append(asm, EmitReturn(MapAfterFree[Node(graph, step).operands[1]]))
  /\ ref_to_reg' = MapAfterFree
  /\ free_regs' = FreeAfterFree
  /\ outcome' = "returned"
  /\ UNCHANGED <<graph, step, label_counter>>

Next == RejectTypes \/ Enter \/ LowerNode \/ OutOfRegisters \/ LowerReturn

Spec == Init /\ [][Next]_vars

-----------------------------------------------------------------------------
Opcodes == {Mnemonic[op] : op \in ArithOps \cup BitOps}
             \cup {"li", "negw", "xori", "mv", "beqz", "j", "label", "ret"}
LabelName == [prefix : {"none", "sel_else", "sel_end"}, num : Nat]
Line == [op : Opcodes, rd : Reg \cup {NoReg}, src : Seq(Reg), imm : XWord, lbl : LabelName]

(* Type invariant of lower()'s locals: the map covers only references      *)
(* defined so far, and there is one block of lines per lowered node.       *)
TypeOK ==
  /\ WellFormed(graph)
  /\ outcome \in {"called", "running", "returned", "unsupported"}
  /\ step \in 0..NSteps(graph)-1
  /\ DOMAIN ref_to_reg \subseteq 0..graph.n_in+step-1
  /\ ref_to_reg \in [DOMAIN ref_to_reg -> Reg]
  /\ free_regs \in Seq(Reg)
  /\ label_counter \in Nat
  /\ asm \in Seq(Seq(Line))
  /\ Len(asm) = IF outcome = "returned" THEN step + 1 ELSE step

(* References defined before the current step and read at it or later.     *)
Live == {ref \in 0..graph.n_in+step-1 : ~LastUseBefore(ref, step)}

(* No two mapped references share a register, no mapped register is on the *)
(* free list, none is listed twice.  What a wrong liveness bound or a lost *)
(* pop in free_dead/alloc_reg would break (lowering.py:73-88).             *)
NoAlias ==
  /\ IsInjective(ref_to_reg)
  /\ IsInjective(free_regs)
  /\ Range(ref_to_reg) \cap Range(free_regs) = {}

(* No register of the pool is ever lost: each is mapped or free.           *)
NoLeak ==
  outcome \notin {"called"} /\ graph.allI32 =>
    Range(Pool) \subseteq Range(ref_to_reg) \cup Range(free_regs)

(* A value that is still to be read keeps its register, so the lookups     *)
(* ref_to_reg[p] of _emit_node and of RETURN never raise KeyError.         *)
LiveMapped == outcome = "running" => Live \subseteq DOMAIN ref_to_reg

(* lower() refuses an i32 graph only when as many values are live as the   *)
(* pool has registers: no register is wasted on a dead value.              *)
RefusalJustified ==
  outcome = "unsupported" /\ graph.allI32 => Cardinality(Live) >= Len(Pool)

(* What register r holds in front of block k, read off the emitted code of *)
(* a graph with n inputs: the value of ref if r was last written by ref's  *)
(* own block, or never written and the argument register of input ref.     *)
Writes(code, j, r) == \E l \in 1..Len(code[j + 1]) : code[j + 1][l].rd = r

Holds(code, n, r, ref, k) ==
  IF ref < n THEN r = ArgReg[ref + 1] /\ \A j \in 0..k-1 : ~Writes(code, j, r)
             ELSE Writes(code, ref - n, r) /\ \A j \in ref-n+1..k-1 : ~Writes(code, j, r)

(* Where a block of node operation op reads its i-th operand, and where it *)
(* leaves its value (a RETURN block without mv reads a0 itself).           *)
BlockSource(op, block, i) ==
  CASE op = "select" -> block[IF i = 3 THEN 5 ELSE i].src[1]
    [] op = "return" -> IF Len(block) = 1 THEN ArgReg[1] ELSE block[1].src[1]
    [] OTHER         -> block[1].src[i]

SourceReg(k, i) == BlockSource(Node(graph, k).op, asm[k + 1], i)

DestReg(j) == LET block == asm[j + 1] IN IF Len(block) = 1 THEN block[1].rd ELSE block[2].rd

(* Dataflow of the emitted code: every operand is read from a register     *)
(* that still holds that operand's value when its block is reached.        *)
OperandsReach ==
  \A k \in 0..Len(asm)-1 : \A i \in 1..Len(Node(graph, k).operands) :
    Holds(asm, graph.n_in, SourceReg(k, i), Node(graph, k).operands[i], k)

LabelPositions ==
  UNION {{<<j, l>> : l \in {m \in 1..Len(asm[j]) : asm[j][m].op = "label"}} : j \in 1..Len(asm)}

(* The text assembles: no label is defined twice in the function, each     *)
(* branch goes to a later line of its own block, and as long as the inputs *)
(* have argument registers, every register named is one of the target; a   *)
(* ninth input is read from "a8" (lowering.py:70).                         *)
CodeAssembles ==
  /\ \A p, q \in LabelPositions : asm[p[1]][p[2]].lbl = asm[q[1]][q[2]].lbl => p = q
  /\ \A j \in 1..Len(asm) : \A l \in 1..Len(asm[j]) :
       /\ asm[j][l].op \in {"beqz", "j"} =>
            \E m \in l+1..Len(asm[j]) : asm[j][m].op = "label" /\ asm[j][m].lbl = asm[j][l].lbl
       /\ (\A i \in 1..graph.n_in : ArgReg[i] \in Range(Pool)) =>
            Range(asm[j][l].src) \cup {asm[j][l].rd} \subseteq Range(Pool) \cup {NoReg}
=============================================================================
