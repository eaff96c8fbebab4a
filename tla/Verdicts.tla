------------------------------- MODULE Verdicts -------------------------------
(***************************************************************************)
(* The judges of a candidate: verify_io (sampled inputs, run under   *)
(* qemu, the spec checked by the interpreter), verify_smt (one query to    *)
(* Z3) and differential_test (candidate against reference on one set of    *)
(* samples); and prove_functional_equiv (spec against spec, by Z3).  What  *)
(* a candidate computes is a parameter.                                    *)
(***************************************************************************)
EXTENDS SpecSemantics, Sequences, FiniteSets, SequencesExt

CONSTANTS Specs, Cands,
          SpecOf(_),         \* a spec: inputs and output, [name, ty], pre and post
          Refs,              \* candidates taken as references
          Boundary(_),       \* the product of a spec's boundary values, in order
          Hw(_, _, _, _),    \* output of a candidate run by qemu
          Sym(_, _, _),      \* its output in _exec_asm
          Others,            \* contents of the registers no argument is in
          Outcomes(_),       \* how linking and running a candidate can end
          Executable(_, _),  \* _exec_asm does not raise UnsupportedAsm
          Touches(_, _),     \* the inputs that occur in the term it leaves in a0
          Texts,             \* lines that are no number
          NInputs,           \* n_inputs
          MaxAttempts,       \* bound on random attempts, 20 n or 8 n in the code
          NoInput            \* None

(* The tuples of a spec's inputs, and an environment for each; with an     *)
(* output, that of the postcondition and of all formulas in verify_smt.    *)
Params(s) == SpecOf(s).inputs
Types(s)  == [i \in DOMAIN Params(s) |-> Params(s)[i].ty]
Inputs(s) ==
  {t \in [DOMAIN Params(s) -> UNION {Values(Params(s)[i].ty) : i \in DOMAIN Params(s)}] :
     \A i \in DOMAIN Params(s) : t[i] \in Values(Params(s)[i].ty)}
OutputsOf(s) == Values(SpecOf(s).output.ty)

IsParam(s, n) == \E i \in DOMAIN Params(s) : Params(s)[i].name = n
ParamOf(s, n) == CHOOSE i \in DOMAIN Params(s) : Params(s)[i].name = n
Env(s, t)       == [n \in Names |-> IF IsParam(s, n) THEN t[ParamOf(s, n)] ELSE 0]
OutEnv(s, t, o) == [Env(s, t) EXCEPT ![SpecOf(s).output.name] = o]

(* precondition_holds and satisfies.                                       *)
Pre(s, t)     == EvalFormula(SpecOf(s).pre, Env(s, t))
Post(s, t, o) == EvalFormula(SpecOf(s).post, OutEnv(s, t, o))

(* The formulas verify_smt gives to Z3, with their conditions.             *)
PreZ3(s, t, o)  == FormulaZ3(SpecOf(s).pre, OutEnv(s, t, o))
PostZ3(s, t, o) == FormulaZ3(SpecOf(s).post, OutEnv(s, t, o))
Met    == [v |-> TRUE, ok |-> TRUE]
Missed == [v |-> FALSE, ok |-> TRUE]

(* is_functional; evaluate of such a spec, and what                        *)
(* prove_functional_equiv makes of its precondition and body.              *)
Functional(s) ==
  LET post == SpecOf(s).post IN
  post.k = "cmp" /\ post.op = "eq" /\ post.lhs.k = "var" /\ post.lhs.name = SpecOf(s).output.name
Comparable(a, b) ==
  /\ Functional(a) /\ Functional(b)
  /\ Types(a) = Types(b) /\ SpecOf(a).output.ty = SpecOf(b).output.ty

Body(s, t) == EvalExpr(SpecOf(s).post.rhs, Env(s, t))
BodyZ3(s, t) == TermZ3(SpecOf(s).post.rhs, Env(s, t))

(* Specs have passed the type checker.  A precondition is over the inputs  *)
(* (src/spec/dsl.py:275): what it means does not depend on the output.     *)
ASSUME VerdictsAssumption ==
  /\ NInputs \in Nat \ {0} /\ MaxAttempts \in Nat
  /\ Refs \subseteq Cands
  /\ \A c \in Cands : Outcomes(c) \subseteq {"error", "prints", "crash", "timeout", "exits", "writes"}
  /\ \A text \in Texts : text \notin Nat
  /\ \A s \in Specs :
       /\ SpecOf(s).pre \in Formulas /\ SpecOf(s).post \in Formulas
       /\ \A p \in Range(Params(s)) \cup {SpecOf(s).output} : p.name \in Names /\ p.ty = Width(p.name)
       /\ Boundary(s) \in Seq(Inputs(s))
       /\ \A t \in Inputs(s) : \A o \in OutputsOf(s) :
            EvalFormula(SpecOf(s).pre, OutEnv(s, t, o)) = Pre(s, t)
       /\ \A c \in Cands : \A t \in Inputs(s) :
            /\ Executable(c, s) => Sym(c, s, t) \in OutputsOf(s)
            /\ \A others \in Others :
                 {"prints", "exits", "writes"} \cap Outcomes(c) # {} => Hw(c, s, t, others) \in OutputsOf(s)

VARIABLES job,      \* "io", "smt", "diff" or "prove"
          spec, cand,
          ref,      \* reference candidate of "diff", second spec of "prove"
          phase,    \* "sampling", "linking", "candidate", "reference", "comparing", "done"
          samples,  \* sample_inputs or sample_int_inputs, so far
          tried,    \* boundary tuples tried
          attempts, \* random tuples tried
          out,      \* what the candidate printed, and the reference
          idx, tested, verdict

sampling == <<samples, tried, attempts>>
subject  == <<job, spec, cand, ref>>
dvars    == <<job, spec, cand, ref, phase, samples, tried, attempts, out, idx, tested, verdict>>

Verdict(equal, n, t, why) == [equal |-> equal, tested |-> n, cex |-> t, why |-> why]
Pending == Verdict(FALSE, 0, NoInput, "pending")

VerdictsInit ==
  /\ spec \in Specs /\ cand \in Cands
  /\ \/ job \in {"io", "smt"} /\ ref = cand
     \/ job = "diff" /\ ref \in Refs
     \/ job = "prove" /\ ref \in Specs /\ cand = CHOOSE c \in Cands : TRUE
  /\ phase = IF job \in {"io", "diff"} THEN "sampling" ELSE "linking"
  /\ samples = <<>> /\ tried = 0 /\ attempts = 0
  /\ out = [cand |-> <<>>, ref |-> <<>>] /\ idx = 0 /\ tested = 0 /\ verdict = Pending

Decide(v) ==
  /\ verdict' = v /\ phase' = "done"
  /\ UNCHANGED <<subject, sampling, out, idx, tested>>

(* A call may end in an exception and without a verdict: why is its name.  *)
Raise(exception) == Decide(Verdict(FALSE, 0, NoInput, exception))

-----------------------------------------------------------------------------
(* Sampling: boundary tuples up to a cap, then random ones.  A spec's      *)
(* precondition filters; one too rich to decide lets the tuple in.         *)
BoundaryCap ==
  LET quarter == Min({NInputs \div 4, 64}) IN
  IF job = "io" THEN Max({1, quarter}) ELSE IF NInputs >= 4 THEN quarter ELSE NInputs

Admitted(t) == job = "diff" \/ Pre(spec, t) \in {"true", "smt"}

(* Slip: seen is not consulted.                                            *)
TryAddAgain(t) == samples' = IF Admitted(t) THEN Append(samples, t) ELSE samples
TryAdd(t) ==
  samples' = IF Admitted(t) /\ t \notin ToSet(samples) THEN Append(samples, t) ELSE samples

(* Slip: the attempt is not counted.                                       *)
NoAttempt == UNCHANGED attempts
Attempt   == attempts' = attempts + 1

BoundaryLeft == Len(samples) < BoundaryCap /\ tried < Len(Boundary(spec))
RandomLeft   == Len(samples) < NInputs /\ attempts < MaxAttempts

SampleBoundary ==
  /\ phase = "sampling" /\ BoundaryLeft
  /\ TryAdd(Boundary(spec)[tried + 1])
  /\ tried' = tried + 1
  /\ UNCHANGED <<subject, phase, attempts, out, idx, tested, verdict>>

SampleRandom ==
  /\ phase = "sampling" /\ ~BoundaryLeft /\ RandomLeft
  /\ \E t \in Inputs(spec) : TryAdd(t)
  /\ Attempt
  /\ UNCHANGED <<subject, phase, tried, out, idx, tested, verdict>>

Sampled ==
  /\ phase = "sampling" /\ ~BoundaryLeft /\ ~RandomLeft /\ samples # <<>>
  /\ phase' = "linking"
  /\ UNCHANGED <<subject, sampling, out, idx, tested, verdict>>

(* verify_io with nothing to test.                                         *)
NothingSampled ==
  /\ phase = "sampling" /\ ~BoundaryLeft /\ ~RandomLeft /\ samples = <<>>
  /\ Decide(Verdict(TRUE, 0, NoInput, "none"))

-----------------------------------------------------------------------------
(* Linked with the harness, the reference too before either runs.          *)
Linked == IF job = "diff" THEN {cand, ref} ELSE {cand}

Link ==
  /\ phase = "linking" /\ job \in {"io", "diff"}
  /\ IF \E c \in Linked : "error" \in Outcomes(c)
     THEN Decide(Verdict(FALSE, 0, NoInput,
                         IF "error" \in Outcomes(cand) THEN "candidate_error" ELSE "reference_error"))
     ELSE /\ phase' = "candidate"
          /\ UNCHANGED <<subject, sampling, out, idx, tested, verdict>>

(* Run once on all samples: a line per sample, or fewer if the candidate   *)
(* ends the process itself; what it writes into a line leaves no number.   *)
Printed(c, others) == [i \in DOMAIN samples |-> Hw(c, spec, samples[i], others)]

RunOf(c, whose, next) ==
  \/ /\ \E others \in Others :
          \/ "prints" \in Outcomes(c) /\ out' = [out EXCEPT ![whose] = Printed(c, others)]
          \/ "exits" \in Outcomes(c) /\ \E n \in 0..Len(samples)-1 :
               out' = [out EXCEPT ![whose] = SubSeq(Printed(c, others), 1, n)]
          \/ "writes" \in Outcomes(c) /\ \E i \in DOMAIN samples, text \in Texts :
               out' = [out EXCEPT ![whose] = [Printed(c, others) EXCEPT ![i] = text]]
     /\ phase' = next
     /\ UNCHANGED <<subject, sampling, idx, tested, verdict>>
  \/ \E why \in Outcomes(c) \cap {"crash", "timeout"} : Decide(Verdict(FALSE, 0, NoInput, why))

RunCandidate == phase = "candidate" /\ RunOf(cand, "cand", IF job = "io" THEN "comparing" ELSE "reference")
RunReference == phase = "reference" /\ RunOf(ref, "ref", "comparing")

-----------------------------------------------------------------------------
(* The loop of verify_io over inputs and lines.                            *)
Input == samples[idx + 1]
IsNumber(line) == line \notin Texts

(* Slip: lines are counted by the inputs tested.                           *)
LineTested == tested + 1
LineNo     == idx + 1

(* Slip: a postcondition that raises counts as failed.                     *)
PreUndecided == Pre(spec, Input) # "true"
Undecided ==
  \/ Pre(spec, Input) # "true"
  \/ /\ LineNo <= Len(out.cand) /\ IsNumber(out.cand[LineNo])
     /\ Post(spec, Input, out.cand[LineNo]) \in {"ub", "smt"}

CheckIo ==
  /\ job = "io" /\ phase = "comparing" /\ idx < Len(samples)
  /\ IF Undecided
     THEN idx' = idx + 1 /\ UNCHANGED <<subject, sampling, phase, out, tested, verdict>>
     ELSE IF LineNo > Len(out.cand)
     THEN Decide(Verdict(FALSE, tested, Input, "missing_output"))
     ELSE IF ~IsNumber(out.cand[LineNo])
     THEN Decide(Verdict(FALSE, tested, Input, "parse_error"))
     ELSE IF Post(spec, Input, out.cand[LineNo]) = "true"
     THEN /\ idx' = idx + 1 /\ tested' = tested + 1
          /\ UNCHANGED <<subject, sampling, phase, out, verdict>>
     ELSE Decide(Verdict(FALSE, tested + 1, Input, "post_failed"))

(* The loop of differential_test: splitting stdout leaves a blank line     *)
(* after the last.  Slip: lines that are not there compare as blank.       *)
Blank == <<>>
Line(printed, i) == IF i \in DOMAIN printed THEN <<printed[i]>> ELSE Blank
SameLine(i) == Line(out.cand, i) = Line(out.ref, i)
NoLineMissing(i) == FALSE
LineMissing(i)   == i > Len(out.cand) + 1 \/ i > Len(out.ref) + 1

CheckDiff ==
  /\ job = "diff" /\ phase = "comparing" /\ idx < Len(samples)
  /\ CASE LineMissing(idx + 1) -> Decide(Verdict(FALSE, idx, Input, "missing_output"))
       [] ~LineMissing(idx + 1) /\ ~SameLine(idx + 1) ->
            Decide(Verdict(FALSE, idx, Input, "output_mismatch"))
       [] ~LineMissing(idx + 1) /\ SameLine(idx + 1) ->
            idx' = idx + 1 /\ UNCHANGED <<subject, sampling, phase, out, tested, verdict>>

AllPassed ==
  /\ phase = "comparing" /\ idx = Len(samples)
  /\ Decide(Verdict(TRUE, IF job = "io" THEN tested ELSE Len(samples), NoInput, "none"))

-----------------------------------------------------------------------------
(* What Z3 makes of a query with the solutions S.  m.eval(x) has no        *)
(* as_long() when the model does not name x: it never names an input that  *)
(* does not occur in the query, and may leave out one it could give any    *)
(* value.                                                                  *)
Immaterial(S, t, i) == \A v \in {u[i] : u \in Inputs(spec)} : [t EXCEPT ![i] = v] \in S

Solved(S, occurring) ==
  \/ S = {} /\ Decide(Verdict(TRUE, 0, NoInput, "unsat"))
  \/ DOMAIN Params(spec) \subseteq occurring /\ \E t \in S : Decide(Verdict(FALSE, 0, t, "sat"))
  \/ (\E t \in S : \E i \in DOMAIN t : Immaterial(S, t, i)) /\ Raise("AttributeError")
  \/ Decide(Verdict(FALSE, 0, NoInput, "unknown"))

(* verify_smt.  Slip: the conditions of undefined operations are left out. *)
RefutesAnyway(t) == ~PostZ3(spec, t, Sym(cand, spec, t)).v
Refutes(t) ==
  /\ PreZ3(spec, t, Sym(cand, spec, t)) = Met
  /\ PostZ3(spec, t, Sym(cand, spec, t)) = Missed

OccurringSmt ==
  LET s == SpecOf(spec)  names == Reads[s.pre] \cup Reads[s.post] IN
  {i \in DOMAIN s.inputs :
     s.inputs[i].name \in names \/ (s.output.name \in names /\ i \in Touches(cand, spec))}

Smt ==
  /\ job = "smt" /\ phase = "linking"
  /\ \/ ~Executable(cand, spec) /\ Raise("UnsupportedAsm")
     \/ Executable(cand, spec) /\ Solved({t \in Inputs(spec) : Refutes(t)}, OccurringSmt)

(* prove_functional_equiv.                                                 *)
Differs(t) ==
  /\ \A s \in {spec, ref} : FormulaZ3(SpecOf(s).pre, Env(s, t)) = Met /\ BodyZ3(s, t).ok
  /\ BodyZ3(spec, t).v # BodyZ3(ref, t).v

OccurringProve ==
  {i \in DOMAIN Params(spec) :
     \E s \in {spec, ref} : Params(s)[i].name \in Reads[SpecOf(s).pre] \cup Reads[SpecOf(s).post.rhs]}

Prove ==
  /\ job = "prove" /\ phase = "linking"
  /\ \/ ~Comparable(spec, ref) /\ Raise("ValueError")
     \/ Comparable(spec, ref) /\ Solved({t \in Inputs(spec) : Differs(t)}, OccurringProve)

VerdictsNext ==
  SampleBoundary \/ SampleRandom \/ Sampled \/ NothingSampled \/ Link \/ RunCandidate \/ RunReference
    \/ CheckIo \/ CheckDiff \/ AllPassed \/ Smt \/ Prove

(* qemu and Z3 run under timeouts and the rest is straight-line code.      *)
VerdictsSpec == VerdictsInit /\ [][VerdictsNext]_dvars /\ WF_dvars(VerdictsNext)

-----------------------------------------------------------------------------
Decided(i) ==
  /\ Pre(spec, samples[i]) = "true"
  /\ i <= Len(out.cand) /\ IsNumber(out.cand[i]) => Post(spec, samples[i], out.cand[i]) \in {"true", "false"}
TestedIn(n) == Cardinality({i \in 1..n : Decided(i)})

(* Sampling: no tuple twice, none the precondition excludes, and fewer     *)
(* than asked only after all attempts are spent.                           *)
SamplesRight ==
  /\ IsInjective(samples) /\ Len(samples) <= NInputs
  /\ \A i \in DOMAIN samples : job = "diff" \/ Pre(spec, samples[i]) \in {"true", "smt"}
  /\ phase # "sampling" /\ job \in {"io", "diff"} /\ Len(samples) < NInputs => attempts = MaxAttempts

(* "equivalent" from verify_io: the candidate printed, for every sample,   *)
(* a number the interpreter does not refute, and n_inputs_tested is the    *)
(* number of samples on which it could decide; zero tests nothing.         *)
AcceptCovers ==
  job = "io" /\ verdict.equal =>
    /\ \A i \in DOMAIN samples : Decided(i) =>
         i <= Len(out.cand) /\ IsNumber(out.cand[i]) /\ Post(spec, samples[i], out.cand[i]) = "true"
    /\ verdict.tested = TestedIn(Len(samples))

(* post_failed: the input is the first sample the interpreter refutes, by  *)
(* the line printed for it and not for another.                            *)
IoCexGenuine ==
  job = "io" /\ verdict.why = "post_failed" =>
    \E n \in DOMAIN out.cand :
      /\ samples[n] = verdict.cex /\ verdict.tested = TestedIn(n) /\ IsNumber(out.cand[n])
      /\ Pre(spec, samples[n]) = "true" /\ Post(spec, samples[n], out.cand[n]) = "false"
      /\ \A i \in 1..n-1 : Decided(i) => IsNumber(out.cand[i]) /\ Post(spec, samples[i], out.cand[i]) = "true"

(* An input verify_io refutes a candidate by refutes the query of          *)
(* verify_smt too, provided none of its conditions excludes the input, the *)
(* executor computes what the hardware did, and no quantifier of the       *)
(* postcondition is settled where its body has an undefined operation: the *)
(* two readings of a spec then agree, and no candidate is proved that      *)
(* testing has refuted.                                                    *)
RefutedByBoth ==
  job = "io" /\ verdict.why = "post_failed" =>
    LET t == verdict.cex  o == out.cand[idx + 1] IN
    Sym(cand, spec, t) = o /\ PreZ3(spec, t, o) = Met /\ PostZ3(spec, t, o).ok
      /\ SettledWhereDefined(SpecOf(spec).post, OutEnv(spec, t, o)) => Refutes(t)

(* A counterexample of Z3 is one for the interpreter, unless that is       *)
(* silent or a quantifier is settled by a value at which an operation is   *)
(* undefined: the input meets the precondition and the output fails; two   *)
(* specs told apart have different values, both defined.                   *)
SmtCexGenuine ==
  verdict.why = "sat" =>
    LET t == verdict.cex
        e == IF job = "smt" THEN OutEnv(spec, t, Sym(cand, spec, t)) ELSE Env(spec, t)
    IN
    /\ SettledWhereDefined(SpecOf(spec).pre, e) => Pre(spec, t) # "false"
    /\ job = "smt" /\ SettledWhereDefined(SpecOf(spec).post, e) => Post(spec, t, Sym(cand, spec, t)) # "true"
    /\ job = "prove" =>
         /\ SettledWhereDefined(SpecOf(ref).pre, Env(ref, t)) => Pre(ref, t) # "false"
         /\ Body(spec, t) # Body(ref, t) /\ UB \notin {Body(spec, t), Body(ref, t)}

(* differential_test: "passed" means that the two printed the same for     *)
(* every sample (for the last, that neither printed when one did not), a   *)
(* mismatch that they did not.                                             *)
DiffVerdictRight ==
  job = "diff" =>
    /\ verdict.equal =>
         /\ Len(out.cand) = Len(out.ref) /\ Len(out.cand) \in {Len(samples), Len(samples) - 1}
         /\ \A i \in DOMAIN out.cand : out.cand[i] = out.ref[i]
    /\ verdict.why = "output_mismatch" => out.cand # out.ref /\ samples[idx + 1] = verdict.cex

(* Every call ends, whatever the candidate does and Z3 answers: verify_io  *)
(* and differential_test in a verdict, however the candidate ends; the two *)
(* that ask Z3 in a verdict or an exception, which is no verdict.          *)
Exceptions == {"UnsupportedAsm", "ValueError", "AttributeError"}
VerdictReached ==
  <>(phase = "done" /\ verdict # Pending /\ (job \in {"io", "diff"} => verdict.why \notin Exceptions))

(* verify_smt.py:1-4, "Sound equivalence gate ... UNSAT -> candidate       *)
(* satisfies the spec on all valid inputs": on every input on which the    *)
(* interpreter decides.                                                    *)
SmtSound ==
  job = "smt" /\ verdict.equal =>
    \A t \in Inputs(spec) : Pre(spec, t) = "true" => Post(spec, t, Sym(cand, spec, t)) # "false"
=============================================================================
