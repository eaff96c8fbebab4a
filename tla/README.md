# A verification development for gnn-riscv

gnn-riscv turns small specifications of integer functions into RV64GC assembly. A
specification is read into an expression, the expression into a compute graph (by
extraction, or by a graph neural network that generates it node by node), the graph
is lowered to assembly, and the assembly is judged by testing, by an SMT check and
by a cost estimate against gcc. A second model is trained to emit assembly directly
from C, on a corpus ingested from AnghaBench and LeetCode. The system is sequential
Python, except for the process pool of the ingest. Its hard parts are the allocator
and the emitted code, the numbering of references that four pieces of code must agree
on, the undefined operations, and data directories that are written file by file and
read back by other programs.

The modules here are TLA+ translations of that code, checked by TLC on small instances
and, for the way from a spec to executed code, the generator, the ingest, the dataset, the training scripts and the
judges, proved with TLAPS for every instance.
`PROJECT.json` lists the runs, the lines of source each definition stands for, the
mutation of the code that each property catches, the hazards, the findings and the theorems.

Contents: 1 inventory, 2 modules, 3 runs and bounds, 4 fairness, 5 what the code does
differently from what it says, 6 proofs, 7 what is only model-checked, 8 what is not
modelled, 9 plan.

## 1. Inventory

| component (src/) | state | operations | talks to | hard behaviour | what makes it correct |
|---|---|---|---|---|---|
| spec/dsl.py, parser.py, serialize.py | immutable trees | parse, type_check, mask_to, signed, to/from JSON | everything | retyping of literals, quantifier scope | words stay in range; print and parse agree |
| spec/interpreter.py | environment, byte memory | evaluate, satisfies, precondition_holds, sample_inputs | verifiers, data | undefined operations are found lazily; sampling gives up | one value per input; only allowed inputs are sampled |
| spec/generator.py | random generator | sample_spec | dataset builder | depth budget, conversions | well-typed, functional specs |
| model/graph.py | list of nodes | ast_to_graph, evaluate_graph | lowering, generator | numbering of references; eager evaluation | the graph means what the body means |
| model/lowering.py | map, free list, label counter, lines | lower (free_dead, alloc_reg, _emit_node) | verifiers | reuse of registers, running out, select's two paths | the code computes the graph or is refused |
| model/graph_gen.py | candidates, edges, nodes | generate, teacher_forced_loss | graph, vocab, lowering | lists grown in step, loop bound | well-formed graphs; training and inference see the same |
| model/vocab.py | tables | ConstVocab, OpVocab, tokenize_spec | generator, data | two readings of a word; variable slots | encodings round-trip |
| model/asm_decoder.py | tables, pending line | tokenize_asm, detokenize_asm | train_leetcode, ingest | labels renumbered, junk from a model | round trip on real assembly |
| model/data.py, scripts/build_dataset.py, eval_checkpoint.py | directory of specs, manifest | build, from_directory, random_split, evaluate | train | killed or repeated builds, specs passed over | each sample with its own data |
| scripts/ingest_anghabench.py (ingest_leetcode.py) | window of futures, names seen, corpus directory | submit, drain, commit | process pool, load_corpus | completion in any order, dying workers, kills, reruns | no file lost or taken twice |
| model/train.py, train_leetcode.py | weights, best score, checkpoints | train, validate, save | data | validation schedule, ties, tiny datasets | best.pt is the best validated epoch |
| eval/verify_io.py, verify_smt.py, differential_test.py | none (subprocesses, solver) | verdicts | interpreter, toolchain | skipped inputs, undefined arms, alignment of outputs | a verdict that says equivalent is right |
| eval/cost.py, baselines.py, lower_to_c.py, neural layers, drivers | none | stateless | | | |

Interactions: `ast_to_graph` and `generate` both produce what `lower`, `evaluate_graph`
and `_encode` consume, and each re-derives the numbering of references (inputs first,
then nodes in order). The ingest writes directories that `load_corpus` reads,
`build_dataset` writes directories that `from_directory` and `eval_checkpoint` read, in
separate processes at any later time; the file system is their only channel.

## 2. Modules

Base:

* `Words` — W-bit words as bit functions, sign extension to X-bit registers, the bitwise
  operations. W stands for 32 and X for 64.
* `ComputeGraph` — NodeOp, ARITY, graphs with the numbering of references, and `Denote`,
  the value the interpreter gives a reference. An undefined operation has the value `UB`,
  and a select looks at the taken arm only, as `_eval_expr` does. The arithmetic itself is
  a parameter (`Arith`, `Defined`), so that theorems hold for any table.
* `OpTables` — the arithmetic of the code: `mask_to`, `signed`, `_apply_op`, the
  interpreter's UB tests, and the RV64 -w instructions, in terms of `BitVectors`. The instances use it for `Arith`.
* `Orders` — a finite set of numbers in ascending order, and what a map or a list makes of it: the order in which
  dead registers are released and futures are drained. `Among` selects from a list, and `Rank` counts the different elements
  before one: `len(label_map)` and `len(var_map)` when it is first entered.
* `GraphSets` — enumerates well-formed graphs for the instances.

Lowering:

* `Lowering` — `lower()`. Variables are the locals: `ref_to_reg`, `free_regs`,
  `label_counter`, `asm` (one block of lines per node), `step`. Actions: `RejectTypes`
  (_check_supported), `Enter` (arguments and pool), `LowerNode` (free_dead, alloc_reg,
  _emit_node), `OutOfRegisters`, `LowerReturn`. Liveness (`last_use`) is recomputed from
  the graph, which does not change. An unmapped `a{i}` beyond a7 is a register name like
  any other, as the code prints it.
* `RvMachine` — the instructions emitted, with the definitions of `_exec_asm`; jumps and
  labels, which `_exec_asm` refuses, are the ISA's.
* `LowerAndRun` — interpreter, lowering and machine in sequence on one input. Registers
  other than the arguments hold an arbitrary pattern at entry.
* `CompilerContract` — the abstract promise: one right answer, any answer where the spec
  is undefined, or a refusal (`Safety`), and eventually one of them (`Spec`). `LowerAndRun` refines it under the
  mapping in `ContractMet`.

Producing graphs:

* `AstToGraph` — `ast_to_graph` on expression trees, then `evaluate_graph` node by node
  with the errors it raises, beside the interpreter's value of the body. `emit` and
  `_eval_expr` are recursive functions on a set `Exprs` closed under subexpressions, which
  `Height` (how deep an expression is nested) ranks; `EmitWith` and `ValueWith` are their
  bodies.
* `GraphGen` — `generate()`: `SeedInputs`, one action per iteration (`EmitNode`, `Return`), the
  fall-through (`DidNotTerminate`), and the two raises. What the heads choose is
  nondeterministic; the masks the code applies are the guards. `TeacherView` is the
  state `teacher_forced_loss` builds for the same prefix, one node after the other (`Taught`).

What the networks read and write:

* `ConstVocab` — `encode` and `decode` of constants.
* `SpecTokens` — the id space of `SpecVocab` and `tokenize_spec`: `Names` is the order in which
  `var_idx` is called, `VarToken` the comparison of its answer with UNK, `Emit` both `_emit_expr`
  and `_emit_formula`: `Opening` is what a node contributes itself, `Parts` what is visited after it, and
  `PreOrder` a recursive function on a set `Exprs` closed under parts, which `Depth` ranks. `SameSpec` says what the
  tokens should tell of a spec.
* `AsmTokens` — `tokenize_asm` over lines whose kind is what the regular expressions make of them,
  `detokenize_asm` token by token (`Detok`, `Flush`) with its pending opcode and operand buffer,
  and `AsmDecoder.generate` as any choice of token until EOS or `max_len`. `Pieces` and `Reread` are
  what the tokenizer would read in a line written from tokens, `IsLine` and `IsPiece` what its regular expressions let through.
* `Vocabularies` — one state is a constant, a pair of specs, a function's text or a generated sequence.

Judging candidates:

* `BitVectors` — the values of the spec language in unsigned form, and its operations, the interpreter's and Z3's; a type
  is its width. Powers of two and the bitwise operations are written so that proofs can unfold them.
* `SpecTerms` — the constructors of terms and formulas, and the parts of each.
* `SpecSemantics` — terms and formulas with both meanings: `EvalExpr` and `EvalFormula` are the
  interpreter's, lazy, with `UndefinedBehavior` and `NeedsSMT` as results; `TermZ3` and `FormulaZ3` are the
  query's, total, with the collected conditions in `ok`. Both are recursive functions on sets `Terms` and `Formulas` closed
  under parts, which `Depth` ranks, and `HoldsWith`, `QueryWith` etc. are their bodies. `SemanticsAssumption` is what `type_check` asks of each
  node, with names renamed apart, so that a name has one `Width`; `Envs` are the typed environments.
  `SettledWhereDefined` says of a formula that no quantifier in it is settled by a value at which the query excludes the body.
* `AsmExec` — a candidate run by `_exec_asm` (`Symbolic`) and by the hardware behind the harness
  (`Hardware`, external). They differ in the extension of arguments, the other registers and division
  by zero.
* `Verdicts` — `verify_io`, `verify_smt`, `differential_test` and `prove_functional_equiv`. The variable `job` says
  which. `SampleBoundary` and `SampleRandom` are one tuple tried, `Link` the build, `RunCandidate` and
  `RunReference` the processes with every way they can end, a line spoilt by what the candidate writes itself included, `CheckIo` and `CheckDiff` one turn of the loops over
  inputs and lines, `Smt` and `Prove` the answer of the solver, which may always be "unknown", and the reading of its
  model (`Solved`), or the exception the call ends in (`Raise`). Which inputs occur in a query comes from `Reads` (of a formula, in
  `SpecSemantics`) and `Touched` (of a candidate's a0, in `AsmExec`). What
  candidates compute is a parameter; `MCVerdicts` takes it from `AsmExec`.

Training:

* `TrainLoop` — `train.py` and `train_leetcode.py`, from loading and splitting to
  `final.pt`, one action per step of the loop over epochs and per file written, killed anywhere. `opt` is what a run is given to
  load and split: script, corpora, limits, fraction, seed; each run has its own, and its own `--exp-dir` and
  schedule. `disk` is what the experiment directories hold; `init` the checkpoint a run starts from, `best.pt` or `final.pt` of
  any of them. What a network learns is the set of samples
  it was trained on, with the options of the runs that trained it (`behind`); the metric of a validation is any value the validation set allows.

Data directories:

* `AnghaIngest` — `main()` of the ingest. One action per loop head, submission, drain,
  file consumed and file written (`LoopHead`, `Submit`, `Poll`, `Drop`, `Accept`,
  `WritePart`, `BatchDone`, `Close`), the pool (`WorkerEnds`, `PoolBreaks`), and the outside
  (`Killed`, `Rerun`). A write that is cut leaves `Torn`. `done()` is asked of all
  futures in one step: a future that completes while the list is being walked is simply
  seen by the next walk, and the code distinguishes no finer order.
* `SpecDataset` — the builder, with `WriteSpec`, `WriteIo`, `WriteBaseline` and
  `WriteManifest` as separate steps between which it may be killed; `from_directory`
  (`PassOver`, `LoadRaises`, `LoadSample`), and `eval_checkpoint`'s pairing.

`MC*` modules give the constants their values. The theorems are in `OrderProofs` (facts about lists, finite
sets and recursive definitions that the others share), `CompilerProofs` (about `Lowering` and `LowerAndRun`), `GraphProofs` (about
`AstToGraph` and `GraphGen`), `VocabulariesProofs`,
`AnghaIngestProofs`, `SpecDatasetProofs`, `TrainLoopProofs` and `VerdictsProofs`.

Each property names, in the comment above it, the code it is about. Definitions whose
comment begins "Slip:" are wrong variants of the definition below them, a plausible bug
of the code; each property is violated when the slip stands in for the definition.

## 3. Runs and bounds

| run | what it checks | instance, and why it is enough |
|---|---|---|
| lowering | allocator invariants (`NoAlias`, `NoLeak`, `LiveMapped`, `RefusalJustified`), `OperandsReach`, `CodeAssembles` | every graph of 4 references over a binary and a ternary operation and constants; a pool of 3, so it runs out, registers are reused and selects write over a dead operand. The data is 1 bit: these properties do not look at it |
| lower_and_run | `ResultCorrect`, `LiveValuesHeld`, and `ContractMet`: refinement of `CompilerContract` with its liveness | every operation at W=2, X=4 on every graph of two operations on one input and of one on two, every input: sign, overflow, division by zero and shift ranges all occur at two bits. Graphs of three signed divisions or selects on two inputs, so that undefined values sit in untaken arms |
| ingest | `WindowAccounts`, `ManifestCounts`, `OnePerFunction`, `LoadedWhole`, `Terminates` | all verdicts of 3 files over two names, targets 1 to 3, window 2, two workers; a worker may die, the script may be killed anywhere (also inside a write) and run a second time. The window fills, drains in both ways, and the target falls inside a batch |
| generate | `ReturnsGraph`, `TeacherParity`, `GenTerminates` | every choice for 3 steps, one operation of each arity; words of 2 bits, one in two buckets and one in none; specs without inputs, with too many, of other types, with pointers |
| extraction | `ExtractionFaithful`, `EvaluatorsAgree` | 1600 bodies of depth 2, all pairs of 2-bit inputs: every operation below every other that matters, both arms of selects with an undefined one, unbound names, conversions |
| dataset | `LoadsSupported` after any two builds of 1 or 3 specs, killed anywhere, limits 1 and 2; `ManifestAudits` and `OwnBaselinePlain` after one build | every outcome of 3 seeds |
| dataset_conv | `OwnBaseline` (violated) | one build of two specs |
| vocabularies | `ConstsRoundTrip`, `SpecTokensFaithful`, `AsmRoundTrip`, `OperandsInOrder` | constants of 2, 4 and 8 bits for 8, 16, 32 with the canonical values scaled down in the source's order; all pairs of 28 specs with every kind of term and formula, differing in one place, in names only, or beyond the 5 slots; every text of up to 5 lines over 13 lines, so that labels are defined before and after their use, end up out of slots, and the function's end and its label occur anywhere; every sequence of 5 tokens over 8, so that operands come before, between and after opcodes and labels |
| unk_slot | `UnknownOnlyWhenFull` (violated) | a spec of four variables |
| verdicts | `SamplesRight`, `AcceptCovers`, `IoCexGenuine`, `RefutedByBoth`, `SmtCexGenuine`, `DiffVerdictRight`, `VerdictReached` | 20 specs over one- and two-bit types (guarded and unguarded divisions, shifts, quantifiers that can and cannot be enumerated, or are settled by a value at which the query's condition fails, in the postcondition and in the precondition, a let, an unsatisfiable precondition, inputs nowhere mentioned) against some 50 candidates, one for each opcode of `_exec_asm`'s tables, on registers of 4 bits with 2-bit -w forms; candidates that do not link, crash, hang, write a line that is no number, or exit early. 2 inputs are sampled, so that the loops go past a skipped input |
| smt_sound | `SmtSound` (violated) | same instance |
| training | `BestIsEarliestBest`, `FinalNotBetter`, `HeldOut`, `LogTellsBest` | two runs over two experiment directories (symmetric), from any checkpoint or none, 0 or 3 epochs with validation every 2 (so the last is validated out of turn); eleven ways to load and split four corpora of 0 to 4 samples: both scripts, both modes, a signature cut short, an empty corpus, two limits, fractions and seeds, sizes that round both ways. They hold the repository's own warm start (an AnghaBench run judged by LeetCode, then LeetCode alone from its `final.pt` in another directory) and pairs that are not apart, for which seen and judged samples do meet. A kill comes between any two writes or inside `torch.save` |

Each module's type invariant, where it has one, is checked with its first run.

Bounds that are not in the code: `MaxRefs`, `MaxInputs` and the lengths in `MCLowerAndRun` (size of graphs),
`W`, `X` (widths), `MaxSteps` and `Signatures` (the code's default is 32 steps),
`NFiles`, `Chunk`, `Workers`, `MaxRuns`, `Targets`, `NSeeds`, `Sizes` with `MaxSize`, `Limits`, `XLEN`, `IWidth`, `EnumMax`
(widths and the enumeration limit), `NInputs`, `MaxAttempts` (inputs asked for, random attempts), `MaxLines`,
`MaxLen`, `MaxVars`, `LabelMax` (texts and slots), `Texts` (lines that are no number), `Options`, `EpochsOpt`, `EveryOpt`, `ExpDirs`. Deadlock
is off where the program ends; where a run has a liveness property, that property says that
it ends.

## 4. Fairness

* `RunSpec`, `GenSpec`: weak fairness of the whole next-state relation. One thread, no
  waiting: if a statement can be executed it is.
* `IngestSpec`: weak fairness of the main process and of each worker. Each subprocess a worker
  starts has a timeout in the code, and a worker that dies breaks the pool, which completes its futures with
  an error. Kills, breaks and reruns are never forced.
* `VerdictsSpec`: weak fairness of the whole relation. Builds in differential_test, qemu and Z3 run under
  timeouts, and the rest is straight-line code; a hanging candidate is the outcome "timeout".
* The other specifications have no liveness property and no fairness.

## 5. Where code and documentation disagree

Each is a run expected to be violated; the quotations are in `PROJECT.json`.

1. `verify_smt` answers "equivalent" for a candidate that is wrong on an input whose untaken arm divides
   by zero (`smt_sound`): `_term_to_z3` collects the conditions of both arms of a select, and of sides of `and`, `or` and
   `implies` that the interpreter does not reach, and the query assumes them all. A quantifier does so value by value (lines
   145-154): for `forall j. j != 0 and b udiv j <= b` the query reads "where `j` is not 0, ...", true, and the interpreter finds the body
   false at 0 without dividing. Here no condition excludes the input: the query is just another formula, and
   `verify_smt` can prove what `verify_io` refutes, or name a counterexample outside the precondition. `SmtCexGenuine` and `RefutedByBoth`
   have `SettledWhereDefined` as a hypothesis for this reason (the two specs of `MCVerdicts` with `Unguarded` violate them without it);
   with it they hold, so refutations are right and the two readings agree where nothing is excluded.
2. The fourth variable of a spec is tokenised as unknown, because its slot number is the value of UNK
   (`unk_slot`). `SpecTokensFaithful` says what the tokens are still good for.
3. `eval_checkpoint` finds a sample's gcc baseline by its position among the loaded samples;
   one passed-over spec shifts the rest (`dataset_conv`).

Smaller observations are not runs of their own:

* `lower()` reads a ninth input from `a8`, which does not exist; `CodeAssembles` is stated of
  graphs whose inputs fit.
* The ingest leaves its loop when the last file has been submitted; up to a window (256)
  of results is not looked at, even though the target is not reached. `_commit` writes in place where the module's
  docstring promises a temporary directory and a rename. `load_corpus` is not fooled by what a kill between two files leaves
  (`LoadedWhole`), because the signature is written third; a signature cut short makes it raise.
* `evaluate_graph` divides in the arm not taken and raises where the interpreter has a value.
* A second ingest over the same directory starts with no names seen and can leave a function
  twice, and a smaller rebuild of a dataset leaves older specs that are loaded but not
  counted. `OnePerFunction`, `ManifestCounts`, `LoadedWhole` and `ManifestAudits` are
  therefore stated of a run into an empty directory.
* `generate()` raises for a spec without inputs (torch.stack of nothing); the model has this as `StackRaises`.
* `ConstVocab.encode(0xFFFFFFFF, I32)` is the bucket of the mask and not, as its docstring
  says, that of -1, because the raw value is looked up first. Both decode to one word.
* `_exec_asm` starts the registers that hold no argument at zero and divides by zero as Z3 does (-1 / 0 is 1),
  and arguments narrower than a word are sign-extended there and zero-extended by the caller the harness is compiled to.
  A candidate may therefore be refuted by one judge only; `RefutedByBoth` is stated of outputs on which the two machines agree.
* `type_check` lets a precondition mention the output, against its docstring ("pre is over inputs"); the interpreter then
  raises for the unbound name. `verify_smt` translates it with the candidate's output.
* `verify_io` answers "equivalent" with `n_inputs_tested` 0 when every sample is skipped; `AcceptCovers` ties the
  number to what was decided. For a spec without inputs the harness does not compile (an empty argument of sscanf),
  which the model leaves out: every spec has an input.
* `differential_test` passes two programs that both print one line too few, if the rest is the same.
* With `--epochs 0` there is a `final.pt` and no `best.pt`. With an empty corpus `train.py` raises and
  `train_leetcode.py` trains on nothing and saves a checkpoint with metric 0. A second run forgets the best metric of the first
  and may replace a better `best.pt`, and a kill inside `torch.save` leaves one that cannot be read.
* The help of `--eval-data` says "held-out from training" (`train_leetcode.py:170`), which nothing checks: with
  `--eval-data data/leetcode` and no `--train-data` the training corpus is `--data`, whose default is that same directory
  (lines 165, 210). Nor does a warm start look at what its weights have seen: with another seed, fraction,
  limit, corpus or mode in an earlier run the new one is judged by samples trained on. `HeldOut` therefore has as a hypothesis
  that each run behind the weights is `Apart`: trained on another directory than the one judged by, or split from the same with the same
  limit, fraction and seed. Without it the property is violated, also if the seeds alone agree. The warm start kept in `experiments/`
  (003 from 002) is apart. Samples of two directories count as different, whatever they contain.
* `verify_smt` and `prove_functional_equiv` raise AttributeError where "SAT → counterexample" is documented (`verify_smt.py:5`), if Z3's
  model does not name an input: `m.eval` without model completion returns the input's own symbol (lines 395, 452). This is
  so for every input that does not occur in the query, as with a wrong constant for a constant spec. `VerdictReached` counts it
  as an exception, and the run reaches it in both. Whether an input that occurs and does not matter is named is up to Z3 and left open.
* In assembly, labels beyond the 32 slots become the immediate 0, and so do references to labels that do not start with `.L`
  and calls. `tokenize_spec` raises for let, pointer arithmetic and loads.

## 6. Proofs

All theorems are of the form `Spec => []P` for every value of the constants, except `ImplementsContract`, which is
a refinement. Where P is not inductive, the module defines an invariant that is, with one lemma per action or per
part of the invariant.

### The compiler

The first part of `CompilerProofs`, from `GraphsAssumption` (graphs are well formed and their inputs have a register name each),
`RegAssumption` (the pool and the argument registers have no duplicates), `ResultRegAssumption` (a0 is in the pool),
`WidthAssumption` and `UBAssumption`:

| theorem | property | needs |
|---|---|---|
| `TypeCorrect`, `NoAliasing`, `LiveStaysMapped` | `TypeOK`, `NoAlias`, `LiveMapped` | `IInv` |
| `DataflowCorrect` | `OperandsReach` | `IInv` |
| `NothingLeaks`, `RefusalsJustified` | `NoLeak`, `RefusalJustified` | `RegInv` |
| `TextAssembles` | `CodeAssembles` | `TextInv` |

`DataflowCorrect` is the heart: in the code emitted so far each source register holds, at the
block that reads it, the value of the operand it stands for, whatever the graph, its length
and the pool. `OperandsReach` alone is not inductive. Its next step needs to know that every
*mapped* register still holds its reference now (`AllHeld`). This is preserved because the
register a block writes was free, and a free register is not mapped (`NoAlias`). That a node's operand is
mapped at all needs `LiveMapped`, and that the block about to be appended comes
after the prologue of an accepted graph needs `Accepted`. Their conjunction with `TypeOK` is `IInv`. The proof
has one lemma per action (`EnterIInv`, `LowerNodeIInv`, ...) over lemmas on the operators: `EmitNodeFacts`
(a block writes only its destination, and reads only the operands' registers before
writing), `AfterFree` (free_dead moves registers from the map to the list and keeps both free of
duplicates), `HoldsAppend` (appending a block that does not write a register keeps
what it holds).

`RegInv` adds `Conserved`, an equality where `NoLeak` has an inclusion: the registers in hand are the pool and the
argument registers of the inputs. When the free list runs empty, all of these are mapped, each to one value that
is still live, which is `RefusalJustified` by counting.

`TextInv` adds that the labels in the text are below the counter (`LabelsBelow`), so those of the next block are new;
`BlockText` says the rest of one block at a time.

The second part, from these and `OpAssumption` (where an operation is defined, the instruction chosen for it computes
it on sign-extended words) and `RunAssumption` (types):

* `CompilerCorrect`: `RunSpec => []ResultCorrect`
* `LiveValuesKept`: `RunSpec => []LiveValuesHeld`
* `ImplementsContract`: `RunSpec => Contract!Safety`

The arithmetic is a parameter and `OpAssumption` compares it with the target one operation at a time. That the code's own
tables are as it says is the third part of `CompilerProofs`, at every width:

* `TablesAgree`: `OpsAgree(ApplyOp, EvalDefined, RvWord)`, which is `OpAssumption` for `OpTables`.

It rests on `UValFacts` (a word stands for a number below 2^W), `WordOf` (a multiple of 2^W leaves a word alone; with it
the quotient that overflows, `Overflow`, wraps to the dividend as the ISA says) and on a shift amount below the width being its own
low bits. For the second part everything else is proved: constants, the bitwise operations on whole
registers, `not`, `neg`, selects with their branches, returns with and without a move. The invariant `PipeInv` has `TextInv` and

* `Shaped`: each block is that of its node, so the machine's next line is known;
* `ValsOK`: the interpreter's values are words or `UB`, and those `Denote` gives (`DenoteMeans`, `MeaningUnique`: the
  recursive function has exactly one value per reference, by least counterexample);
* `InTurn`: interpreter, lowering and machine take their turns;
* `Running`: wherever the machine is inside a block, every register that by the dataflow of the code holds a *defined*
  value contains it (`HoldIn`), and in an arm of a select the value of the node is that arm's (`Chosen`).

`Running` must not say anything of undefined values: a register whose value is undefined in the interpreter holds
something, and select may move it. In a block, `DataflowCorrect` turns operands into registers and
`Running` gives the words they hold. The refinement maps the
contract's `expected` to the interpreter's result, or to `Denote` of the root before it has finished, and `answer`
to a0 once the machine has halted; all steps but the last, or the refusal, stutter.

### Specs to graphs

The first part of `GraphProofs`, from `ExprAssumption` (subexpressions are expressions nested less deeply, an operation has as many
arguments as it takes, arithmetic yields words):

* `ExtractionIsFaithful`: `AstSpec => []ExtractionFaithful`
* `EvaluatorsReturnTheSame`: `AstSpec => []EvaluatorsAgree`

They hold for bodies of any depth, any list of inputs, also one that repeats a name, and any table of arithmetic. With
`CompilerCorrect` this is the whole way from the body of a spec to what the emitted code leaves in a0: the graph a body
becomes is one `GraphsAssumption` speaks of, and the value `CompilerCorrect` is about is the body's.

`emit` and `_eval_expr` are recursive functions, of which TLA+ says only that they are *chosen* among the solutions of their
equation. `Recursion` (in `OrderProofs`) shows that a definition that descends along a rank has a solution, by
building one up to each rank and taking the diagonal; `SupportedMeans`, `EvalMeans`, `EmitMeans` and `Denoted` derive
the equations from it. Induction on the depth (`RankInduction`) then gives
`EmissionCorrect`: from any nodes to start with, emitting an expression only appends nodes (`Grows`), and its reference has
the expression's value in every assignment that gives the nodes theirs (`Means`). Quantifying over the nodes before
and over all assignments is what makes the induction go through: a binary operation emits its right argument after the nodes of the
left one, and the left one's value must survive that.

The invariant `AstInv` has `GraphOK` (the graph is the one extracted) and `ValsOK`: evaluation is somewhere in the graph, and each
value computed is the interpreter's, where it has one. The second part says nothing of undefined references, which
`evaluate_graph` gives some value or raises for, so the step lemma `NodeValueAgrees` has to show that an undefined operand
reaches a defined result only through the arm a select does not take.

### The generator

The second part of `GraphProofs`, from `GenAssumption`:

* `GenTypeCorrect`: `GenSpec => []GenTypeOK`
* `GeneratedWellFormed`: `GenSpec => []ReturnsGraph`: whatever the network chooses, a
  returned graph is well formed, which is the hypothesis `GraphsAssumption` makes of `lower()`.

* `TeacherSeesTheSame`: `GenSpec => []TeacherParity`

The invariant `GenInv` says that there is one candidate per input and node, that each node
points before itself only, and that RETURN is the last node exactly when the loop has ended. For `TeacherParity`,
`ParityInv` has the teacher's views of all prefixes as one function whose last value is what the heads are shown now.
An iteration extends it by `Taught`, which agrees because the code seeds a constant with the bucket its decoded value
encodes to. That there is only one such function (`ViewUnique`) is again shown by a least counterexample.

### What the networks read and write

`VocabulariesProofs`, from `CanonAssumption`, `SlotAssumption`, `ExprAssumption` (parts of a term are terms nested less deeply; types,
operators and names are of their kinds), `AsmVocabAssumption` (0 is among the immediates, a register's own name is no alias of another)
and `VocabulariesAssumption` (the specs are made of terms, lines and operands are of the kinds the regular expressions know, a
name is not a slot number, the decoder emits tokens of the vocabulary):

* `ConstantsRoundTrip`: `VocabulariesSpec => []ConstsRoundTrip`
* `SpecTokensAreFaithful`: `VocabulariesSpec => []SpecTokensFaithful`
* `OperandsKeepTheirOrder`: `VocabulariesSpec => []OperandsInOrder`
* `FunctionsRoundTrip`: `VocabulariesSpec => []AsmRoundTrip`

The first is arithmetic: the two readings of a word differ by the size of its type, and no other integer that `encode` looks up
has that value. The second is that a flat list of ids can be read back, for specs of any size, whatever `MAX_VARS`, the types and the
canonical constants are. One direction (same tree, same tokens) goes by induction on `Depth` (`SameMeans`, `EmitFollows`). The other
needs more than the claim: that two terms have the same tokens says nothing about the parts, as the tokens of a part end nowhere
visible. `EmitTells` is the strengthening: if the tokens of two terms, *followed by anything*, agree, so do the terms, and
what follows them. It rests on `OpeningDecides`, that the first id of a node tells its kind and how many ids and parts it has (`NodeKind`).
Then the tokens of the parts come off one by one (`TurnPrefix`). `TokensTell` does this for the sections of a spec,
of which the list of inputs has no length: it ends where an id is `)inp`, which is no variable's slot (`ParamsTell`).
That slots, types, operators and constants have ranges of their own in the id space is used at each step, that UNK lies
among the specials too; the clash of UNK with a slot number is why names are compared by `var_idx`.

The third follows `detokenize_asm` token by token. `Accounts` says what a state knows of the tokens read: its lines and pending opcode
spell the labels and opcodes among them (`Spelled`), its lines and buffer hold the operands (`Spent`). `flush_line` changes neither
(`FlushFacts`) and one token adds to exactly one of them or to none (`DetokStep`), whatever the state was: a label with operands
pending, an opcode right after an opcode, a line end without opcode. `FlattenAppend` and `AmongAppend` say what joining lists and
selecting from one make of a list that grows.

The fourth goes from the operand to the function. `PieceSurvives`: an operand's tokens have no comma, read back as what is
known of it, and what is known of it has the same tokens. `ArgsSurvive`: so do the operands of a line, since splitting at commas what
was joined with commas gives the parts (`PieceMore`). `LineSurvive`: the detokenizer, with nothing pending before a line's tokens, has
one line more after them and again nothing pending; `FlatRun` repeats this over the function. Reading the text back needs
that its labels get the slots they are named after. The labels mentioned in the text are the slots of those
mentioned in the function, in the same order (`LabelsKept`); slots are one to one (`RankDecides`) and a list renamed one to
one has the same ranks (`RankMapped`). The definition of a label beyond the slots would be written as an immediate and its line
lost, which the hypothesis that there are slots for all excludes. A name of the text is a slot and never
the function's, so that `tokenize_asm` finds where it begins and where it ends (`BodyFramed`).

### Data directories

`AnghaIngestProofs`, from `IngestAssumption` (bounds are numbers, the marks of a missing or torn file are not files):

* `IngestTypeCorrect`: `IngestSpec => []IngestTypeOK`
* `NothingForgotten`: `IngestSpec => []WindowAccounts`
* `SamplesAreWhole`: `IngestSpec => []LoadedWhole`
* `OneSamplePerFunction`: `IngestSpec => []OnePerFunction`
* `ManifestIsRight`: `IngestSpec => []ManifestCounts`

They hold for any number of files, names, workers, window and target, and a kill or a broken pool anywhere. `IngestInv`
has four parts. `QueueInv` and `PlaceInv` follow the futures: in flight, batch and decided are disjoint lists and sets
without repetition that make up `1..idx` until the target is reached; what `done()` leaves and takes is
disjoint (`AmongFacts`), and the counts follow by cardinality. `KeptInv` says that in a first run the directories numbered below
`accepted` are exactly `accepted` whole samples of different names, all in `seen_fn_names`; `BegunInv` that any other directory
is the one being written, whose name is new. Neither is inductive without the other, since a
directory moves from the second to the first when its last file is written. `accepted <= Cardinality(decided)` bounds the
count by the number of files.

`SpecDatasetProofs`, from `DatasetAssumption`:

* `LoaderIsComplete`: `DatasetSpec => []LoadsSupported`
* `BaselineIsOwn`: `DatasetSpec => []OwnBaselinePlain`
* `ManifestIsTrue`: `DatasetSpec => []ManifestAudits`

`LoadInv` ties the loader to the directories before the one it looks at (`Before`): as many samples as plain specs among
them, each at its rank. It holds over whatever is on disk. `BuildInv` describes a first build: complete directories below
`written`, one that is partly written, none above. With it, no spec being out of the vocabulary makes the index of a sample its
directory (`OwnBaselinePlain`).

### Training and judging

`TrainLoopProofs`, from `TrainAssumption` (options and corpora are of their types, a shuffle has no
duplicates) and `FileAssumption` (a missing or torn file is not a checkpoint):

* `SplitHoldsOut`: `TrainSpec => []HeldOut`
* `BestIsEarliest`: `TrainSpec => []BestIsEarliestBest`
* `FinalIsNotBetter`: `TrainSpec => []FinalNotBetter`
* `LogTellsTheBest`: `TrainSpec => []LogTellsBest`

They hold for every corpus, any options of any run, schedule of validations, number of reruns and experiment directories, point of a kill and outcome of
every validation. `TrainInv` has one part per question, and one lemma per part goes through the
actions (`StepSplit`, `StepBest`, ...). `SplitInv` follows what the weights saw back to the training sets of
the runs behind them (`SeenBy`), through every checkpoint on disk and the warm starts from it. `SplitFacts` and `SameSplitFacts` then give
`HeldOut`: a training set is of its own directory, and runs that split alike make the same two disjoint parts. `BestInv` bounds every metric of the run by
`best_val`, which `best.pt` has except between a better validation and its save; `BestOf(n)` says of which measures `best.pt` is the
best, all of them or, in that interval and after a kill in it, all but the last. A row is written after
that save, so `LogInv` needs `CurrentIsLast`: the measure of an epoch that ends is the last one.
`MeasuredInv` (measures come in the order of the epochs, the due one always among them) carries that
argument and, at the last epoch, the one about `final.pt`.

`VerdictsProofs`, from `VerdictsAssumption` (the specs are made of the terms and formulas, what candidates return are values of
the output's type) and `SemanticsAssumption` (specs have passed the type checker):

* `SamplesAreRight`: `VerdictsSpec => []SamplesRight`
* `AcceptedIsCovered`: `VerdictsSpec => []AcceptCovers`
* `RejectedIsRefuted`: `VerdictsSpec => []IoCexGenuine`
* `DifferenceIsReal`: `VerdictsSpec => []DiffVerdictRight`
* `RefutedIsRefutedByBoth`: `VerdictsSpec => []RefutedByBoth`
* `SmtCexIsGenuine`: `VerdictsSpec => []SmtCexGenuine`

Specs, candidates and what candidates compute are parameters, so the theorems hold for words of any width, any
`n_inputs`, and any way in which a process ends, also between two lines.

The last two are conditional, as the properties are. `RefutedIsRefutedByBoth` supposes that no condition of the query excludes the input, that the executor
computes the output the hardware printed, and that the postcondition is `SettledWhereDefined` there. `SmtCexIsGenuine` says, of a
formula that is, that the interpreter does not find the precondition false or the postcondition true; it may be silent. Only that
the bodies `prove_functional_equiv` tells apart differ, both defined, needs no such proviso.

They rest on the agreement of the two readings of a spec, which is proved of single terms and formulas:

* `TermsAgree`: where the conditions `_term_to_z3` has collected for a term hold, the interpreter evaluates it, and to the same value.
* `FormulasAgree`: where they hold and the formula is `SettledWhereDefined`, a formula the interpreter settles has the
  same truth value in the query. Nothing is said where the interpreter raises.

Both are proved by induction on `Depth`, with a case for each kind of term and formula. Each operation of Z3 keeps to its width, and is
the interpreter's where that is defined. Division is where the readings differ in form (`sdiv` truncates by magnitudes), shifts where
they differ in range. For formulas the value of the bound variable changes with the induction, so the hypothesis speaks of all
environments; a side of a connective that the interpreter does not reach has no part in the result, and
`forall` and `exists` go through the first value at which the enumeration stops.

In `VInv`, `IoInv` says that the inputs before `idx` were passed or skipped, each by its own line, and that `tested` counts
the passed ones; `DiffInv` that the lines before `idx` were compared and equal. They imply the
verdicts (`StepVerdict`) together with `RunInv`, by which a run never prints more lines than there are
samples: this is what turns "equal up to the last sample" into "the same output" (`ComparedToTheEnd`),
although splitting the output hides the absence of one line. `CexInv` keeps, with a verdict, why it was given: the
interpreter's "false" on the line of the input a test rejects by, and the solution of the query Z3 has found. The agreement
of the readings then carries each over to the other judge.

Induction, where a proof needs it, is an appeal to the least counterexample (`LeastElement` and `RankInduction`
in `OrderProofs`), which can be cited because they take sets and no operators. Liveness, ENABLED and
recursive operators are outside what the provers can do; properties of these kinds stay with TLC.

## 7. Model-checked only

* Liveness: `Terminates`, `GenTerminates`, `VerdictReached`, and the part of `ContractMet` that an answer comes.

## 8. Not modelled

* Memory: `Load`, `PtrAdd`, the byte memory of the interpreter and the array of `verify_smt`. The sampler refuses
  pointer inputs, `tokenize_spec` and `lower()` refuse such terms and `_exec_asm` refuses loads and stores, so that
  no candidate for a spec with pointers is judged by running it. `prove_functional_equiv` does carry pointers to a verdict
  (`tests/test_pointers.py:206-239`), and its verdicts are modelled for specs without memory only.
* The refusals of `lower()` for a graph without RETURN and for an operation it does not know: graphs are well formed
  (`GraphsAssumption`), as `ast_to_graph` and `generate` make them.
* What a candidate may add to stdout beyond spoiling one line, as a line of its own. `verify_io` and `differential_test` would match the lines after it to
  the wrong inputs.
* `config.json` of an experiment, a row of `log.csv` cut short, and the names under which a let leaves its value in a query when its
  body does not use it (`Reads` counts them).
* `lui` in `_exec_asm`: its constants do not scale down with the words.
* `parse`, `type_check`, the JSON form and the random generator of specs: stateless text and tree recursion.
* Neural layers and losses (floating point), the walk over libclang cursors in `c_encoder.py`, text formats and printing, the cost model
  (a stateless sum), calls of gcc and clang, command-line drivers.
* `ingest_leetcode.py`: scraping of HTML and text around the commit that `AnghaIngest` models.

## 9. Plan

The runs are meant to stay about as many: a violated run gives way to a more telling one.

1. Proofs: that `and`, `or` and `xor` on registers are the bit by bit operations of `BitVectors`, so that the compiler's
   interpreter is stated on numbers throughout.
2. `Memory.load` with little endian and wrap-around against the array of `verify_smt`, in `SpecSemantics`.
