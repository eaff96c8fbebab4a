----------------------------- MODULE Vocabularies -----------------------------
(***************************************************************************)
(* What the networks read and write: constants in buckets (ConstVocab),    *)
(* specs as ids (SpecTokens), assembly as tokens (AsmTokens).  A state is  *)
(* a constant, a pair of specs, a function's text or a sequence the        *)
(* decoder generates.                                                      *)
(***************************************************************************)
EXTENDS SpecTokens, AsmTokens

CONSTANTS SpecIds, SpecAt(_), \* specs, by number
          Lines,              \* lines of assembly
          MaxLines,           \* bound on them
          Fn,                 \* fn_name
          Tokens, MaxLen      \* what the decoder emits; bound on max_len

ASSUME VocabulariesAssumption ==
  /\ \A i \in SpecIds :
       /\ \A ps \in {SpecAt(i).inputs, SpecAt(i).outputs} : ps \in Seq([name : Idents, ty : Range(Tys)])
       /\ SpecAt(i).pre \in Exprs /\ SpecAt(i).post \in Exprs
  /\ \A l \in Lines : IsLine(l)
  /\ Fn \notin Nat /\ Tokens \subseteq AsmVocab

VARIABLES job, first, second, text, seq
vvars == <<job, value, width, first, second, text, seq>>

VocabulariesInit ==
  /\ job \in {"const", "spec", "asm", "generate"} /\ value = 0
  /\ width \in IF job = "const" THEN Widths ELSE {Tys[1]}
  /\ first \in IF job = "spec" THEN SpecIds ELSE {1}
  /\ second \in IF job = "spec" THEN SpecIds ELSE {1}
  /\ text = <<>> /\ seq = <<BOS>>

NextConst == job = "const" /\ VocabNext /\ UNCHANGED <<job, first, second, text, seq>>
AddLine ==
  /\ job = "asm" /\ Len(text) < MaxLines
  /\ \E l \in Lines : text' = Append(text, l)
  /\ UNCHANGED <<job, value, width, first, second, seq>>
AddToken ==
  /\ job = "generate"
  /\ \E s \in Generated(seq, MaxLen, Tokens) : seq' = s
  /\ UNCHANGED <<job, value, width, first, second, text>>

VocabulariesNext == NextConst \/ AddLine \/ AddToken
VocabulariesSpec == VocabulariesInit /\ [][VocabulariesNext]_vvars

-----------------------------------------------------------------------------
(* Constants: what the generator is trained to predict decodes to the      *)
(* constant it stands for, and a constant is out of vocabulary only if no  *)
(* canonical integer of its type, of either sign, has its value.           *)
ConstsRoundTrip ==
  job = "const" => IF Encode(value, width) # OOVIndex THEN Decode(Encode(value, width), width) = value
                   ELSE NoneLost

(* Two specs tokenize_spec takes have the same tokens exactly if they have *)
(* the same tree up to the names of variables and the constants of one     *)
(* bucket; variables with no slot of their own are not told apart.         *)
SpecTokensFaithful ==
  job = "spec" =>
    LET a == SpecAt(first)  b == SpecAt(second) IN
    Raise \notin Range(TokenizeSpec(a)) => (TokenizeSpec(a) = TokenizeSpec(b) <=> SameSpec(a, b))

(* vocab.py:202, "Out of var slots - collapse to UNK": a variable becomes  *)
(* UNK only when the slots have run out.                                   *)
UnknownOnlyWhenFull ==
  job = "spec" => LET names == NamesOf(SpecAt(first)) IN
    \A n \in ToSet(names) : VarToken(n, names) = UNK => Rank(n, names) >= MaxVars

(* What is left of a function's text: its instructions and labels, labels  *)
(* by the order they are first mentioned in, registers by their names,     *)
(* immediates out of vocabulary as 0.                                      *)
Known(p, labels) ==
  CASE p[1] = "mem" -> <<"mem", IF p[2] \in Buckets THEN p[2] ELSE 0, Alias(p[3])>>
    [] p[1] = "reg" -> reg(p[2])
    [] p[1] = "imm" /\ p[2] \in Buckets -> p
    [] p[1] = ".L"  -> <<".L", Slot(p[2], labels)>>
    [] OTHER        -> <<"imm", 0>>
Kept(body) ==
  LET labels == Labels(body) IN
  [i \in DOMAIN body |->
     IF body[i].k = "label" THEN [body[i] EXCEPT !.name = Slot(@, labels)]
     ELSE [body[i] EXCEPT !.args = [j \in DOMAIN @ |-> Known(@[j], labels)]]]

(* The text the detokenizer writes for a function's tokens is that         *)
(* function, line by line, and reads back as the same tokens; labels       *)
(* keep their targets as long as there are slots for all.                  *)
AsmRoundTrip ==
  job = "asm" =>
    LET tokens == TokenizeAsm(text, Fn)  back == DetokenizeAsm(tokens, Fn)
        body == Body(text, Fn)
    IN  Failed \notin ToSet(tokens) /\ Cardinality(ToSet(Labels(body))) <= LabelMax =>
          /\ Body(back, Fn) = Kept(body)
          /\ TokenizeAsm(back, Fn) = [i \in DOMAIN tokens |-> IF tokens[i] = OOV THEN imm(0) ELSE tokens[i]]

(* Whatever the decoder generates, the text has its labels and opcodes up  *)
(* to EOS, in order, and the operands too, but for those after the last    *)
(* instruction: none is lost with a line or written on two.                *)
OperandsInOrder ==
  job = "generate" =>
    LET d == Detokenized(seq)
        read == UpToEos(seq)
        lines    == Among(read, {t \in Range(read) : t[1] \in {"op", "def"}})
        operands == Among(read, {t \in Range(read) : IsOperand(t)})
    IN  /\ Len(d.out) = Len(lines)
        /\ \A i \in DOMAIN lines : lines[i][2] = IF d.out[i].k = "label" THEN d.out[i].name ELSE d.out[i].op
        /\ FlattenSeq([i \in DOMAIN d.out |-> IF d.out[i].k = "label" THEN <<>> ELSE d.out[i].buf]) \o d.buf
             = [i \in DOMAIN operands |-> IF operands[i] = OOV THEN imm(0) ELSE operands[i]]
=============================================================================
