-------------------------------- MODULE Words --------------------------------
(***************************************************************************)
(* Machine words as functions from bit positions to bits.  A DSL value of  *)
(* type i32 is a Word (dsl.mask_to keeps its low W bits); a register of    *)
(* the target holds an XWord.  The widths are parameters: nothing depends  *)
(* on 32 and 64 beyond W <= X.                                             *)
(***************************************************************************)
EXTENDS Naturals

CONSTANTS W,    \* width of the DSL type (32 in the code)
          X     \* register width, XLEN (64 in the code)

ASSUME WidthAssumption == W \in Nat \ {0} /\ X \in Nat /\ W <= X

Bit   == {0, 1}
Word  == [0..W-1 -> Bit]
XWord == [0..X-1 -> Bit]

ZeroWord  == [i \in 0..W-1 |-> 0]
ZeroXWord == [i \in 0..X-1 |-> 0]
OnesXWord == [i \in 0..X-1 |-> 1]

(* The low W bits of a register: what a -w instruction reads.              *)
Low(x) == [i \in 0..W-1 |-> x[i]]

(* lp64 representation of a 32-bit value: bit 31 copied upwards.           *)
Sext(w) == [i \in 0..X-1 |-> IF i < W THEN w[i] ELSE w[W-1]]

AndBits(x, y) == [i \in DOMAIN x |-> IF x[i] = 1 /\ y[i] = 1 THEN 1 ELSE 0]
OrBits(x, y)  == [i \in DOMAIN x |-> IF x[i] = 1 \/ y[i] = 1 THEN 1 ELSE 0]
XorBits(x, y) == [i \in DOMAIN x |-> IF x[i] = y[i] THEN 0 ELSE 1]
NotBits(x)    == [i \in DOMAIN x |-> 1 - x[i]]
=============================================================================
