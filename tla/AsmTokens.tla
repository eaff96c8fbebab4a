------------------------------ MODULE AsmTokens ------------------------------
(***************************************************************************)
(* tokenize_asm and detokenize_asm of src/model/asm_decoder.py.  Text is a *)
(* sequence of lines, a line's kind being what the regular expressions     *)
(* make of it:                                                             *)
(*   [k |-> "insn", op, args]   args: the pieces between commas            *)
(*   [k |-> "label", name]      a label, also that of a function           *)
(*   [k |-> "mark"]             directives, comments, .LFB and .LFE labels *)
(*   [k |-> "end"]              .cfi_endproc, .size of the function        *)
(* and a piece <<"reg", n>>, <<"imm", v>>, <<"mem", v, n>>, <<".L", name>> *)
(* (a name that starts with .L), <<"sym", name>> or <<"junk">>.            *)
(***************************************************************************)
EXTENDS Integers, SequencesExt, Orders

CONSTANTS Opcodes,  \* _OPCODES
          Regs,     \* _REGS
          Alias(_), \* _REG_ALIAS, the identity on other names
          Buckets,  \* _IMM_BUCKETS
          LabelMax  \* _LABEL_MAX

ASSUME AsmVocabAssumption ==
  /\ Buckets \subseteq Int /\ 0 \in Buckets /\ LabelMax \in Nat
  /\ \A r \in Regs : Alias(r) = r

BOS == <<"bos">>  EOS == <<"eos">>  EOL == <<"eol">>  Pad == <<"pad">>
COMMA == <<",">>  LPAREN == <<"(">>  RPAREN == <<")">>  COLON == <<":">>
OOV == <<"oov">>
Punctuation == {COMMA, LPAREN, RPAREN, COLON}
Failed == <<"fail">>      \* TokenizeError

(* AsmVocab: the ids, and what stands for them.                            *)
AsmVocab ==
  {BOS, EOS, EOL, Pad, OOV} \cup Punctuation
    \cup {<<"op", o>> : o \in Opcodes} \cup {<<"reg", r>> : r \in Regs} \cup {<<"imm", v>> : v \in Buckets}
    \cup {<<k, slot>> : k \in {"ref", "def"}, slot \in 0..LabelMax-1}

imm(v) == IF v \in Buckets THEN <<"imm", v>> ELSE OOV
reg(n) == <<"reg", Alias(n)>>
lbl_ref(slot) == IF slot < LabelMax THEN <<"ref", slot>> ELSE OOV
lbl_defAsRef(slot) == lbl_ref(slot)   \* slip: a definition is written as a reference
lbl_def(slot) == IF slot < LabelMax THEN <<"def", slot>> ELSE OOV
IsReg(n) == Alias(n) \in Regs

(* What the regular expressions let through.                               *)
IsPiece(p) ==
  \/ p[1] \in {"mem", ".L", "sym", "junk"}
  \/ p[1] = "imm" /\ p = <<"imm", p[2]>>
  \/ p[1] = "reg" /\ IsReg(p[2])
IsLine(l) ==
  \/ l.k \in {"mark", "end"}
  \/ l.k = "label" /\ l = [k |-> "label", name |-> l.name]
  \/ /\ l.k = "insn" /\ l = [k |-> "insn", op |-> l.op, args |-> l.args]
     /\ l.args \in Seq(Range(l.args)) /\ \A p \in Range(l.args) : IsPiece(p)

-----------------------------------------------------------------------------
(* The lines tokenize_asm reads: those of the function up to its end, but  *)
(* not its own label.                                                      *)
IsFn(line, fn) == line.k = "label" /\ line.name = fn
Starts(text, fn) == Least({i \in DOMAIN text : IsFn(text[i], fn)}, Len(text) + 1)
Body(text, fn) ==
  LET start  == Starts(text, fn)
      ends   == {i \in start+1..Len(text) : text[i].k = "end"}
      inside == SubSeq(text, start + 1, Least(ends, Len(text) + 1) - 1)
  IN  Among(inside, {l \in Range(inside) : l.k # "mark" /\ ~IsFn(l, fn)})

(* label_slot: labels are numbered as they are first mentioned.            *)
Refs(args) == LET refs == Among(args, {p \in Range(args) : p[1] = ".L"}) IN [i \in DOMAIN refs |-> refs[i][2]]
Mentions(line) == IF line.k = "label" THEN <<line.name>> ELSE Refs(line.args)
Labels(body) == FlattenSeq([i \in DOMAIN body |-> Mentions(body[i])])
Slot(name, labels) == Rank(name, labels)

(* _emit_operand.                                                          *)
PieceTokens(p, labels) ==
  CASE p[1] = "mem" -> <<imm(p[2]), LPAREN, IF IsReg(p[3]) THEN reg(p[3]) ELSE Failed, RPAREN>>
    [] p[1] = "reg" -> <<reg(p[2])>>
    [] p[1] = "imm" -> <<imm(p[2])>>
    [] p[1] = ".L"  -> <<lbl_ref(Slot(p[2], labels))>>
    [] p[1] = "sym" -> <<OOV>>
    [] p[1] = "junk" -> <<Failed>>

ArgTokens(args, labels) ==
  FlattenSeq([i \in DOMAIN args |-> (IF i > 1 THEN <<COMMA>> ELSE <<>>) \o PieceTokens(args[i], labels)])

LineTokens(line, labels) ==
  IF line.k = "label" THEN <<lbl_def(Slot(line.name, labels)), EOL>>
  ELSE <<IF line.op \in Opcodes THEN <<"op", line.op>> ELSE Failed>> \o ArgTokens(line.args, labels) \o <<EOL>>

TokenizeAsm(text, fn) ==
  LET body == Body(text, fn)  labels == Labels(body)
  IN  IF Starts(text, fn) > Len(text) THEN <<Failed>>
      ELSE <<BOS>> \o FlattenSeq([i \in DOMAIN body |-> LineTokens(body[i], labels)]) \o <<EOS>>

-----------------------------------------------------------------------------
(* detokenize_asm, token by token: the lines out, the pending opcode, the  *)
(* operands since the last line that was written.                          *)
NoOp == <<>>
Empty == [out |-> <<>>, op |-> NoOp, buf |-> <<>>]

(* Slip: the operands are not cleared.                                     *)
KeptBuf(d)  == d.buf
EmptyBuf(d) == <<>>

(* flush_line: without an opcode it leaves the operands where they are.    *)
Flush(d) ==
  IF d.op = NoOp THEN d
  ELSE [out |-> Append(d.out, [k |-> "insn", op |-> d.op[1], buf |-> d.buf]), op |-> NoOp, buf |-> EmptyBuf(d)]

Operands == {"reg", "imm", "ref"}
IsOperand(t) == t \in {OOV} \cup Punctuation \/ t[1] \in Operands

Detok(d, t) ==
  CASE t \in {BOS, Pad} -> d
    [] t = EOL          -> Flush(d)
    [] t[1] = "op"      -> [Flush(d) EXCEPT !.op = <<t[2]>>]
    [] t[1] = "def"     -> [Flush(d) EXCEPT !.out = Append(@, [k |-> "label", name |-> t[2]])]
    [] t = OOV          -> [d EXCEPT !.buf = Append(@, <<"imm", 0>>)]
    [] IsOperand(t) /\ t # OOV -> [d EXCEPT !.buf = Append(@, t)]

UpToEos(tokens) == SubSeq(tokens, 1, Least({i \in DOMAIN tokens : tokens[i] = EOS}, Len(tokens) + 1) - 1)

After(read) ==
  LET after[i \in 0..Len(read)] == IF i = 0 THEN Empty ELSE Detok(after[i-1], read[i])
  IN  after[Len(read)]
Detokenized(tokens) == Flush(After(UpToEos(tokens)))

(* What tokenize_asm reads in a line written from these tokens: pieces     *)
(* glued together without a comma are not operands.                        *)
Reread(group) ==
  CASE Len(group) = 1 /\ group[1][1] \in {"reg", "imm"} -> group[1]
    [] Len(group) = 1 /\ group[1][1] = "ref" -> <<".L", group[1][2]>>
    [] Len(group) = 4 /\ group[1][1] = "imm" /\ group[2] = LPAREN /\ group[3][1] = "reg" /\ group[4] = RPAREN ->
         <<"mem", group[1][2], group[3][2]>>
    [] OTHER -> <<"junk">>

Pieces(buf) ==
  LET commas  == {i \in DOMAIN buf : buf[i] = COMMA}
      ends    == Ascending(commas \cup {Len(buf) + 1})
      from(k) == IF k = 1 THEN 1 ELSE ends[k-1] + 1
  IN  IF buf = <<>> THEN <<>> ELSE [k \in DOMAIN ends |-> Reread(SubSeq(buf, from(k), ends[k] - 1))]

DetokenizeAsm(tokens, fn) ==
  LET lines == Detokenized(tokens).out IN
  <<[k |-> "mark"], [k |-> "label", name |-> fn]>>
    \o [i \in DOMAIN lines |->
          IF lines[i].k = "label" THEN lines[i]
          ELSE [k |-> "insn", op |-> lines[i].op, args |-> Pieces(lines[i].buf)]]
    \o <<[k |-> "end"]>>

-----------------------------------------------------------------------------
(* generate() of the decoder: any token, until EOS or max_len.             *)
Generated(seq, max_len, tokens) ==
  IF Len(seq) >= max_len \/ Last(seq) = EOS THEN {} ELSE {Append(seq, t) : t \in tokens}
=============================================================================
