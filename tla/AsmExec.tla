------------------------------- MODULE AsmExec -------------------------------
(***************************************************************************)
(* A candidate function run on one input, twice: by the symbolic executor  *)
(* of src/eval/verify_smt.py (_exec_asm) and by the hardware behind the C  *)
(* harness of src/eval/verify_io.py.  Both step through the same lines;    *)
(* they differ in how an argument fills its register, in what the other    *)
(* registers hold at entry and in a division by zero.                      *)
(***************************************************************************)
EXTENDS BitVectors, SequencesExt

CONSTANTS XLEN,  \* width of a register
          IWidth \* width of the -w forms (32 in the code)

ASSUME WidthsAssumption == XLEN \in Nat \ {0} /\ IWidth \in 1..XLEN

ArgRegs == <<"a0", "a1", "a2", "a3", "a4", "a5", "a6", "a7">>
Regs    == ToSet(ArgRegs) \cup {"zero", "t0"}   \* those the candidates name

(* An instruction: second source is a register (R) or an immediate (I).    *)
R(op, rd, rs, rt)  == [op |-> op, rd |-> rd, rs |-> rs, form |-> "R", rt |-> rt]
I(op, rd, rs, imm) == [op |-> op, rd |-> rd, rs |-> rs, form |-> "I", imm |-> imm]
Ret == [op |-> "ret"]

(* The tables _R_TYPE_* and _I_*: the operation of a mnemonic.  A "w" form *)
(* works on the low words and its result is sign-extended.                 *)
Ops64 == [add  |-> "add",  sub  |-> "sub",  and  |-> "and",  or   |-> "or",   xor |-> "xor",
          sll  |-> "shl",  srl  |-> "lshr", sra  |-> "ashr", mul  |-> "mul",
          div  |-> "sdiv", divu |-> "udiv", rem  |-> "srem", remu |-> "urem",
          addi |-> "add",  andi |-> "and",  ori  |-> "or",   xori |-> "xor",
          slli |-> "shl",  srli |-> "lshr", srai |-> "ashr"]
Ops32 == [addw  |-> "add",  subw  |-> "sub",  sllw |-> "shl",  srlw  |-> "lshr", sraw |-> "ashr",
          mulw  |-> "mul",  divw  |-> "sdiv", divuw |-> "udiv", remw |-> "srem", remuw |-> "urem",
          addiw |-> "add",  slliw |-> "shl",  srliw |-> "lshr", sraiw |-> "ashr"]
Compares == [slt |-> "slt", sltu |-> "ult", slti |-> "slt", sltiu |-> "ult"]
Highs    == {"mulh", "mulhsu", "mulhu"}
Shifts   == {"shl", "lshr", "ashr"}
Unary    == {"mv", "neg", "negw", "not", "seqz", "snez", "sext.w", "zext.w"}

Supported(op) ==
  op \in DOMAIN Ops64 \cup DOMAIN Ops32 \cup DOMAIN Compares \cup Highs \cup Unary \cup {"li", "ret"}

(* The lines up to the first return are executed.                          *)
Executed(insns) ==
  SelectSeq(SubSeq(insns, 1, Min({i \in DOMAIN insns : insns[i].op = "ret"} \cup {Len(insns)})),
            LAMBDA ins : ins.op # "ret")
Unsupported(insns, n_args) ==
  n_args > 8 \/ \E i \in DOMAIN Executed(insns) : ~Supported(Executed(insns)[i].op)

(* Shift amounts are masked, whatever the table; hw: the ISA's quotient    *)
(* and remainder by zero, where Z3 has its own.                            *)
Alu(op, a, b, w, hw) ==
  CASE op \in Shifts                 -> BinVal(op, a, b % w, w)
    [] hw /\ op = "sdiv" /\ b = 0    -> Pow2[w] - 1
    [] OTHER                         -> BinZ3(op, a, b, w)

(* The upper half of a product, either factor read as signed or not.       *)
High(op, a, b) ==
  LET x == IF op = "mulhu" THEN a ELSE signed(a, XLEN)
      y == IF op = "mulh" THEN signed(b, XLEN) ELSE b
  IN  mask((x * y) \div Pow2[XLEN], XLEN)

Flag(b) == IF b THEN 1 ELSE 0

Result(ins, regs, hw) ==
  LET a == regs[ins.rs]
      b == IF ins.form = "R" THEN regs[ins.rt] ELSE mask(ins.imm, XLEN)
      low(n) == mask(n, IWidth)
      Word(n) == sext(low(n), IWidth, XLEN)
  IN CASE ins.op \in DOMAIN Ops64    -> Alu(Ops64[ins.op], a, b, XLEN, hw)
       [] ins.op \in DOMAIN Ops32    -> Word(Alu(Ops32[ins.op], low(a), low(b), IWidth, hw))
       [] ins.op \in DOMAIN Compares -> Flag(CmpHolds(Compares[ins.op], a, b, XLEN))
       [] ins.op \in Highs           -> High(ins.op, a, b)
       [] ins.op = "li"              -> b
       [] ins.op = "mv"              -> a
       [] ins.op = "neg"             -> mask(-a, XLEN)
       [] ins.op = "negw"            -> Word(mask(-a, XLEN))
       [] ins.op = "not"             -> mask(-1 - a, XLEN)
       [] ins.op = "seqz"            -> Flag(a = 0)
       [] ins.op = "snez"            -> Flag(a # 0)
       [] ins.op = "sext.w"          -> Word(a)
       [] ins.op = "zext.w"          -> low(a)

(* set_reg drops writes to x0.                                             *)
Exec(insns, regs0, hw) ==
  LET Step(regs, ins) == IF ins.rd = "zero" THEN regs
                         ELSE [regs EXCEPT ![ins.rd] = Result(ins, regs, hw)]
  IN  FoldLeft(Step, regs0, Executed(insns))

EntryRegs(args, others) ==
  [r \in Regs |-> CASE r = "zero" -> 0
                    [] \E i \in DOMAIN args : ArgRegs[i] = r -> args[CHOOSE i \in DOMAIN args : ArgRegs[i] = r]
                    [] OTHER -> others]

(* verify_smt: arguments sign-extended, other registers zero; the output   *)
(* is the low bits of a0.  tys: widths of the inputs, last of the output.  *)
SymbolicArg(v, w) == sext(v, w, XLEN)
Symbolic(insns, t, tys) ==
  mask(Exec(insns, EntryRegs([i \in DOMAIN t |-> SymbolicArg(t[i], tys[i])], 0), FALSE)["a0"],
       tys[Len(tys)])

(* The arguments that occur in the term _exec_asm leaves in a0, whatever   *)
(* its value depends on.                                                   *)
Touched(insns, n_args) ==
  LET Step(of, ins) ==
        IF ins.rd = "zero" THEN of
        ELSE [of EXCEPT ![ins.rd] = IF ins.op = "li" THEN {}
                                    ELSE of[ins.rs] \cup (IF ins.form = "R" THEN of[ins.rt] ELSE {})]
  IN  FoldLeft(Step, [r \in Regs |-> {i \in 1..n_args : ArgRegs[i] = r}], Executed(insns))["a0"]

(* verify_io: the harness declares unsigned C types, so a caller extends   *)
(* those narrower than a word with zeros and a word by its sign; the other *)
(* registers hold whatever they held; stdout has the low bits of a0.       *)
HarnessArg(v, w) == IF w < IWidth THEN v ELSE sext(v, w, XLEN)
Hardware(insns, t, tys, others) ==
  mask(Exec(insns, EntryRegs([i \in DOMAIN t |-> HarnessArg(t[i], tys[i])], others), TRUE)["a0"],
       tys[Len(tys)])
=============================================================================
