------------------------------ MODULE BitVectors ------------------------------
(***************************************************************************)
(* Values of the spec language, in unsigned form (mask_to and signed of    *)
(* src/spec/dsl.py), and the operations of its terms on them, of the       *)
(* interpreter (src/spec/interpreter.py) and of Z3.  A type is its width.  *)
(***************************************************************************)
EXTENDS Integers

(* 2^n, in a form that proofs can unfold.                                  *)
Pow2[n \in Nat] == IF n = 0 THEN 1 ELSE 2 * Pow2[n-1]

Values(w) == 0..Pow2[w]-1

mask(n, w)   == n % Pow2[w]
signed(n, w) == IF n >= Pow2[w-1] THEN n - Pow2[w] ELSE n
sext(n, w, to) == mask(signed(n, w), to)

-----------------------------------------------------------------------------
(* One operation on l and r of width w, and where it is defined.           *)
Magnitude(n) == IF n < 0 THEN -n ELSE n
Quot(a, b) == LET q == Magnitude(a) \div Magnitude(b)
              IN  IF (a < 0) # (b < 0) THEN -q ELSE q

BitAt(n, i) == (n \div Pow2[i]) % 2
BitOp(op, a, b) ==
  CASE op = "and" -> a * b
    [] op = "or"  -> a + b - a * b
    [] op = "xor" -> (a + b) % 2
BitByBit(op, l, r, w) ==
  LET upto[i \in 0..w] == IF i = 0 THEN 0
                          ELSE upto[i-1] + BitOp(op, BitAt(l, i-1), BitAt(r, i-1)) * Pow2[i-1]
  IN  upto[w]

BinDefined(op, r, w) ==
  CASE op \in {"udiv", "urem", "sdiv", "srem"} -> r # 0
    [] op \in {"shl", "lshr", "ashr"}          -> r < w
    [] OTHER                                   -> TRUE

BinExact(op, l, r, w) ==
  LET sl == signed(l, w)  sr == signed(r, w) IN
  CASE op = "add"  -> l + r
    [] op = "sub"  -> l - r
    [] op = "mul"  -> l * r
    [] op \in {"and", "or", "xor"} -> BitByBit(op, l, r, w)
    [] op = "udiv" -> l \div r
    [] op = "urem" -> l % r
    [] op = "sdiv" -> Quot(sl, sr)
    [] op = "srem" -> sl - Quot(sl, sr) * sr
    [] op = "shl"  -> l * Pow2[r]
    [] op = "lshr" -> l \div Pow2[r]
    [] op = "ashr" -> sl \div Pow2[r]
BinVal(op, l, r, w) == mask(BinExact(op, l, r, w), w)

(* Z3's bit-vector operations where the interpreter's are undefined.       *)
BinZ3(op, l, r, w) ==
  IF BinDefined(op, r, w) THEN BinVal(op, l, r, w)
  ELSE CASE op = "udiv"             -> Pow2[w] - 1
         [] op = "sdiv"             -> IF signed(l, w) < 0 THEN 1 ELSE Pow2[w] - 1
         [] op \in {"urem", "srem"} -> l
         [] op \in {"shl", "lshr"}  -> 0
         [] op = "ashr"             -> IF signed(l, w) < 0 THEN Pow2[w] - 1 ELSE 0

UnVal(op, v, from, to) ==
  CASE op = "neg"   -> mask(-v, from)
    [] op = "not"   -> mask(-1 - v, from)
    [] op = "sext"  -> sext(v, from, to)
    [] op = "zext"  -> v
    [] op = "trunc" -> mask(v, to)

(* The operands are bound, and so evaluated, once.                         *)
CmpHolds(op, l, r, w) ==
  \E a \in {l}, b \in {r} :
    LET sa == signed(a, w)  sb == signed(b, w) IN
    CASE op = "eq" -> a = b [] op = "ne" -> a # b
      [] op = "ult" -> a < b [] op = "ule" -> a <= b [] op = "ugt" -> a > b [] op = "uge" -> a >= b
      [] op = "slt" -> sa < sb [] op = "sle" -> sa <= sb [] op = "sgt" -> sa > sb [] op = "sge" -> sa >= sb
=============================================================================
