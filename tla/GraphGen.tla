------------------------------- MODULE GraphGen -------------------------------
(***************************************************************************)
(* GraphGenerator of src/model/graph_gen.py.  generate() rolls the network *)
(* out one node at a time; what the heads choose is not determined, so     *)
(* every choice they can express is a step.  teacher_forced_loss() walks a *)
(* recorded graph and rebuilds the same partial graphs for the heads.  The *)
(* network sees a partial graph as its candidates and its edges, and an    *)
(* embedding is determined by what it was seeded with.                     *)
(***************************************************************************)
EXTENDS ComputeGraph, Integers

CONSTANTS Signatures,      \* the specs: number of inputs, all of type i32, one a pointer
          MaxSteps,        \* max_steps
          MaxInputPos,     \* _MAX_INPUT_POS, the input slots that have an embedding (16)
          Vocabulary,      \* the operations of OpVocab
          Buckets,         \* indices of ConstVocab
          DecodeBucket(_), \* ConstVocab.decode with the return type: a Word or OOV
          EncodeWord(_),   \* ConstVocab.encode with the return type
          OOV, NoBucket

ASSUME GenAssumption ==
  /\ Signatures \subseteq [n_in : Nat, allI32 : BOOLEAN, ptr : BOOLEAN]
  /\ MaxSteps \in Nat /\ MaxInputPos \in Nat
  /\ Vocabulary \subseteq NodeOps
  /\ \A b \in Buckets : DecodeBucket(b) \in Word \cup {OOV}
  /\ \A w \in Word : EncodeWord(w) \in Buckets
  /\ OOV \notin Word /\ NoBucket \notin Buckets

VARIABLES sig,              \* the spec's inputs and types, fixed
          phase,            \* "called", "running", "returned", "none" or "raised"
          steps,            \* iterations of the for loop begun so far
          candidate_embeds, \* what each candidate was seeded with
          edges,            \* edges_src and edges_tgt, zipped
          emitted           \* the nodes

gvars == <<sig, phase, steps, candidate_embeds, edges, emitted>>

-----------------------------------------------------------------------------
(* Seeds of candidates, those of the inputs by position.                   *)
InputCandidate(pos) == [op |-> "input", operands |-> <<pos>>, bucket |-> NoBucket]
NodeCandidate(op, ptrs, bucket) == [op |-> op, operands |-> ptrs, bucket |-> bucket]
InputCandidates(n) == [i \in 1..n |-> InputCandidate(i - 1)]

(* Edges from each operand to the new node.                                *)
EdgesTo(ptrs, idx) == [i \in DOMAIN ptrs |-> <<ptrs[i], idx>>]

(* OOV falls back to 0.                                                    *)
ConstOf(bucket) == IF DecodeBucket(bucket) = OOV THEN ZeroWord ELSE DecodeBucket(bucket)

(* The bucket the new node is seeded with, encoded anew from the value.    *)
(* Slip: the bucket the head chose.                                        *)
ChosenBucket(bucket) == bucket
SeedBucket(bucket) == EncodeWord(ConstOf(bucket))

MkGraph(nodes) == [n_in |-> sig.n_in, allI32 |-> sig.allI32, nodes |-> nodes]

(* Operand pointers the heads can choose with n candidates: there is one   *)
(* logit per candidate, so the range test of the code never fails.  Slip:  *)
(* a logit for the node about to be emitted too.                           *)
SelfPointers(arity, n) == [1..arity -> 0..n]
Pointers(arity, n) == [1..arity -> 0..n-1]

-----------------------------------------------------------------------------
GenInit ==
  /\ sig \in Signatures
  /\ phase = "called" /\ steps = 0
  /\ candidate_embeds = <<>> /\ edges = <<>> /\ emitted = <<>>

(* Seeding the inputs raises for a pointer (no type embedding) and for     *)
(* more inputs than positions.                                             *)
Seedable == ~sig.ptr /\ sig.n_in <= MaxInputPos

SeedInputs ==
  /\ phase = "called" /\ Seedable
  /\ phase' = "running"
  /\ candidate_embeds' = InputCandidates(sig.n_in)
  /\ UNCHANGED <<sig, steps, edges, emitted>>

SeedingRaises ==
  /\ phase = "called" /\ ~Seedable
  /\ phase' = "raised"
  /\ UNCHANGED <<sig, steps, candidate_embeds, edges, emitted>>

(* Slip: range(max_steps + 1).                                             *)
CanStepOnceMore == phase = "running" /\ steps <= MaxSteps
CanStep == phase = "running" /\ steps < MaxSteps

(* torch.stack of no candidate raises.                                     *)
StackRaises ==
  /\ CanStep /\ candidate_embeds = <<>>
  /\ phase' = "raised"
  /\ UNCHANGED <<sig, steps, candidate_embeds, edges, emitted>>

(* One iteration that emits a node other than RETURN.                      *)
EmitStep(op, ptrs, bucket) ==
  /\ CanStep /\ candidate_embeds # <<>>
  /\ emitted' = Append(emitted,
       [op |-> op, operands |-> ptrs, val |-> IF op = "const" THEN ConstOf(bucket) ELSE ZeroWord])
  /\ candidate_embeds' = Append(candidate_embeds,
       NodeCandidate(op, ptrs, IF op = "const" THEN SeedBucket(bucket) ELSE NoBucket))
  /\ edges' = edges \o EdgesTo(ptrs, Len(candidate_embeds))
  /\ steps' = steps + 1
  /\ UNCHANGED <<sig, phase>>

(* One that emits RETURN: the graph is complete.                           *)
ReturnStep(ptrs) ==
  /\ CanStep /\ candidate_embeds # <<>>
  /\ emitted' = Append(emitted, [op |-> "return", operands |-> ptrs, val |-> ZeroWord])
  /\ steps' = steps + 1
  /\ phase' = "returned"
  /\ UNCHANGED <<sig, candidate_embeds, edges>>

(* The loop is over without a RETURN.  Slip: it is waited for one more.    *)
DidNotTerminateLate ==
  /\ phase = "running" /\ steps > MaxSteps
  /\ phase' = "none"
  /\ UNCHANGED <<sig, steps, candidate_embeds, edges, emitted>>

DidNotTerminate ==
  /\ phase = "running" /\ steps >= MaxSteps
  /\ phase' = "none"
  /\ UNCHANGED <<sig, steps, candidate_embeds, edges, emitted>>

EmitNode ==
  \E op \in Vocabulary \ {"return"} :
    \E ptrs \in Pointers(ARITY[op], Len(candidate_embeds)) :
      \E bucket \in IF op = "const" THEN Buckets ELSE {NoBucket} : EmitStep(op, ptrs, bucket)

Return ==
  "return" \in Vocabulary /\ \E ptrs \in Pointers(1, Len(candidate_embeds)) : ReturnStep(ptrs)

GenNext == SeedInputs \/ SeedingRaises \/ StackRaises \/ EmitNode \/ Return \/ DidNotTerminate

(* A loop in one thread: it takes its next step.                           *)
GenSpec == GenInit /\ [][GenNext]_gvars /\ WF_gvars(GenNext)

-----------------------------------------------------------------------------
(* teacher_forced_loss: the candidates and edges shown to the heads after  *)
(* the steps of nodes, each with the bucket _encode (src/model/data.py)    *)
(* gave it.                                                                *)
TargetBucket(node) == IF node.op = "const" THEN EncodeWord(node.val) ELSE NoBucket

Taught(view, node) ==
  [cands |-> Append(view.cands, NodeCandidate(node.op, node.operands, TargetBucket(node))),
   edges |-> view.edges \o EdgesTo(node.operands, Len(view.cands))]

TeacherView(n, nodes) ==
  LET View[k \in 0..Len(nodes)] ==
        IF k = 0 THEN [cands |-> InputCandidates(n), edges |-> <<>>] ELSE Taught(View[k - 1], nodes[k])
  IN  View[Len(nodes)]

-----------------------------------------------------------------------------
(* Type invariant; candidates and nodes are in step.                       *)
GenTypeOK ==
  /\ sig \in Signatures
  /\ phase \in {"called", "running", "returned", "none", "raised"}
  /\ steps \in 0..MaxSteps
  /\ emitted \in Seq(GraphNode) /\ Len(emitted) = steps
  /\ \A i \in DOMAIN candidate_embeds : candidate_embeds[i].bucket \in Buckets \cup {NoBucket}
  /\ \A i \in DOMAIN edges : edges[i] \in Nat \X Nat

(* What generate() returns is a graph lower() and evaluate_graph can take  *)
(* at all: arities right, operands backwards, one RETURN and that last,    *)
(* within the steps allowed.  Breaks if candidates and nodes ever get out  *)
(* of step (graph_gen.py:300-316).                                         *)
ReturnsGraph ==
  phase = "returned" => WellFormed(MkGraph(emitted)) /\ Len(emitted) <= MaxSteps

(* Training and inference agree: at every step of generate() the heads see *)
(* exactly the partial graph that teacher_forced_loss would show them      *)
(* for the nodes emitted so far (graph_gen.py:173-218 against 258-316).    *)
TeacherParity ==
  phase = "running" =>
    TeacherView(sig.n_in, emitted) = [cands |-> candidate_embeds, edges |-> edges]

(* generate() comes to an end, with a graph, None or an exception.         *)
GenTerminates == <>(phase \in {"returned", "none", "raised"})
=============================================================================
