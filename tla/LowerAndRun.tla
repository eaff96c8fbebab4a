----------------------------- MODULE LowerAndRun -----------------------------
(***************************************************************************)
(* The pipeline the end-to-end tests exercise: a graph and an input are    *)
(* given their meaning by the interpreter, the graph is lowered, and the   *)
(* emitted function runs on the same input.                                *)
(***************************************************************************)
EXTENDS Lowering

CONSTANTS WInsn(_, _, _),  \* the target's -w instructions
          Pending, Refused, \* no answer yet; UnsupportedLowering
          Inputs(_),       \* argument tuples tried with a graph
          InitialRegs      \* register files found at entry, arguments aside

(* Where the interpreter defines an operation, the -w instruction emitted  *)
(* for it agrees with _apply_op on the low words.                          *)
OpsAgree(A(_, _, _), D(_, _, _), I(_, _, _)) ==
  /\ \A op \in ArithOps : \A a, b \in Word :
       /\ A(op, a, b) \in Word
       /\ I(Mnemonic[op], a, b) \in Word
       /\ D(op, a, b) => I(Mnemonic[op], a, b) = A(op, a, b)
  /\ \A a \in Word : I("subw", ZeroWord, a) = A("sub", ZeroWord, a)
ASSUME OpAssumption == OpsAgree(Arith, Defined, WInsn)

ASSUME RunAssumption ==
  /\ \A g \in Graphs : Inputs(g) \subseteq [0..g.n_in-1 -> Word]
  /\ InitialRegs \subseteq [Reg -> XWord]

VARIABLES vals,     \* interpreter: value of each reference evaluated so far
          pc, regs, halted

M == INSTANCE RvMachine WITH code <- asm

runVars == <<vals, pc, regs, halted>>
allVars == <<vars, runVars>>

(* lp64: arguments sign-extended in a0, a1, ...; the rest is arbitrary.    *)
EntryRegs(g, input, rest) ==
  [r \in Reg |-> IF \E i \in 0..g.n_in-1 : r = ArgReg[i + 1]
                 THEN Sext(input[CHOOSE i \in 0..g.n_in-1 : r = ArgReg[i + 1]])
                 ELSE rest[r]]

RunInit ==
  /\ Init
  /\ \E input \in Inputs(graph), rest \in InitialRegs :
       /\ vals = input
       /\ regs = EntryRegs(graph, input, rest)
  /\ pc = <<1, 1>>
  /\ halted = FALSE

(* The next node the interpreter has not evaluated.                        *)
Todo == Cardinality(DOMAIN vals) - graph.n_in
Interpreted == Todo = NSteps(graph) - 1

Interpret ==
  /\ ~Interpreted
  /\ vals' = Bind(vals, graph.n_in + Todo, InterpretNode(Node(graph, Todo), vals))
  /\ UNCHANGED <<vars, pc, regs, halted>>

Lower ==
  /\ Interpreted
  /\ Next
  /\ UNCHANGED runVars

Run ==
  /\ outcome = "returned"
  /\ M!Step
  /\ UNCHANGED <<graph, outcome, step, ref_to_reg, free_regs, label_counter, vals>>

RunNext == Interpret \/ Lower \/ Run

(* The three programs are sequential and nothing waits: each step that can *)
(* be taken is eventually taken.                                           *)
RunSpec == RunInit /\ [][RunNext]_allVars /\ WF_allVars(RunNext)

-----------------------------------------------------------------------------
Result == vals[root_ref(graph)]

(* The function computes what the spec means: when it returns, a0 holds    *)
(* the sign-extended value of the graph's root, for every input on which   *)
(* the interpreter gives the root a value (undefined operations in the arm *)
(* of a select that is not taken do not count).                            *)
ResultCorrect == halted /\ Result # UB => regs[ArgReg[1]] = Sext(Result)

(* While it runs: in front of block k every defined reference that is      *)
(* still read holds its value in the register of the block that computed   *)
(* it, whatever the other registers contain.                               *)
HomeReg(ref) == IF ref < graph.n_in THEN ArgReg[ref + 1] ELSE DestReg(ref - graph.n_in)

LiveValuesHeld ==
  outcome = "returned" /\ ~halted /\ pc[2] = 1 =>
    \A ref \in 0..graph.n_in+pc[1]-2 :
      ~LastUseBefore(ref, pc[1] - 1) /\ vals[ref] # UB => regs[HomeReg(ref)] = Sext(vals[ref])

(* The pipeline implements CompilerContract: one answer, the right one, or *)
(* a refusal, and always one of the two (no branch of the emitted code     *)
(* goes backwards, so it returns).                                         *)
Contract ==
  INSTANCE CompilerContract
    WITH expected <- IF Interpreted THEN Result
                     ELSE Denote(graph, [i \in 0..graph.n_in-1 |-> vals[i]])[root_ref(graph)],
         answer   <- IF halted THEN regs[ArgReg[1]]
                     ELSE IF outcome = "unsupported" THEN Refused ELSE Pending

ContractMet == Contract!Spec
=============================================================================
