------------------------------ MODULE MCGraphGen ------------------------------
(* Up to MaxSteps nodes over one operation of each arity on words of two   *)
(* bits, with a vocabulary in which one word has two buckets (-1 and 3),   *)
(* one has none (2).  Specs without inputs, with too many, of other types  *)
(* and with pointers.                                                      *)
EXTENDS GraphGen, OpTables

Vocab == INSTANCE ConstVocab
           WITH Canon <- <<-1, 0, 1, 3>>, Widths <- {W}, NoVal <- OOV, value <- 0, width <- W

MCBuckets == 0..4
MCDecodeBucket(b) == IF b = 0 THEN OOV ELSE mask_to(Vocab!Decode(b, W))
MCEncodeWord(w) == Vocab!Encode(UVal(w), W)

MCSignatures ==
  [n_in : {0, 1, 2, 3}, allI32 : {TRUE}, ptr : {FALSE}]
    \cup [n_in : {1}, allI32 : {FALSE}, ptr : BOOLEAN]
MCArith(op, a, b) == ApplyOp(op, a, b)
MCDefined(op, a, b) == EvalDefined(op, a, b)
=============================================================================
