------------------------------ MODULE RvMachine ------------------------------
(***************************************************************************)
(* The target running an emitted function: one line per action.  The       *)
(* register instructions are those of _exec_asm and its tables             *)
(* (src/eval/verify_smt.py); branches, which that executor does not know,  *)
(* follow the hardware.  A program point is <<block, line>>.               *)
(***************************************************************************)
EXTENDS Words, Sequences, Integers

CONSTANTS WInsn(_, _, _),  \* result of a -w instruction on the low words
          Reg, NoReg

VARIABLES code,    \* blocks of lines
          pc,      \* program point of the next line
          regs,    \* contents of the registers
          halted   \* ret was executed

mvars == <<code, pc, regs, halted>>

WForms   == {"addw", "subw", "mulw", "divw", "divuw", "remw", "remuw",
             "sllw", "srlw", "sraw"}
Bitwise3 == {"and", "or", "xor"}

line == code[pc[1]][pc[2]]
val(i) == regs[line.src[i]]

NextPoint == IF pc[2] < Len(code[pc[1]]) THEN <<pc[1], pc[2] + 1>> ELSE <<pc[1] + 1, 1>>

(* A label names every point where it is defined.                          *)
Targets(lbl) ==
  UNION {{<<b, l>> : l \in {m \in 1..Len(code[b]) : code[b][m].op = "label" /\ code[b][m].lbl = lbl}}
           : b \in 1..Len(code)}

SetReg(value) ==
  /\ regs' = [regs EXCEPT ![line.rd] = value]
  /\ pc' = NextPoint
  /\ UNCHANGED <<code, halted>>

Goto(point) ==
  /\ pc' = point
  /\ UNCHANGED <<code, regs, halted>>

LoadImm == line.op = "li" /\ SetReg(line.imm)
Move    == line.op = "mv" /\ SetReg(val(1))

(* -w forms read the low words and sign-extend the 32-bit result.          *)
WordOp  == line.op \in WForms /\ SetReg(Sext(WInsn(line.op, Low(val(1)), Low(val(2)))))
NegWord == line.op = "negw" /\ SetReg(Sext(WInsn("subw", ZeroWord, Low(val(1)))))

(* and, or, xor and xori work on the whole register.                       *)
BitwiseOp ==
  /\ line.op \in Bitwise3
  /\ SetReg(CASE line.op = "and" -> AndBits(val(1), val(2))
              [] line.op = "or"  -> OrBits(val(1), val(2))
              [] line.op = "xor" -> XorBits(val(1), val(2)))
XorImm == line.op = "xori" /\ SetReg(XorBits(val(1), line.imm))

BranchIfZero ==
  /\ line.op = "beqz"
  /\ \/ val(1) = ZeroXWord /\ \E t \in Targets(line.lbl) : Goto(t)
     \/ val(1) # ZeroXWord /\ Goto(NextPoint)

Jump  == line.op = "j" /\ \E t \in Targets(line.lbl) : Goto(t)
Label == line.op = "label" /\ Goto(NextPoint)

Ret ==
  /\ line.op = "ret"
  /\ halted' = TRUE
  /\ UNCHANGED <<code, pc, regs>>

Step ==
  /\ ~halted
  /\ \/ LoadImm \/ Move \/ WordOp \/ NegWord \/ BitwiseOp \/ XorImm
     \/ BranchIfZero \/ Jump \/ Label \/ Ret
=============================================================================
