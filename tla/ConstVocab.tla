------------------------------ MODULE ConstVocab ------------------------------
(***************************************************************************)
(* ConstVocab of src/model/vocab.py: buckets of canonical integers, bucket *)
(* 0 for the rest.  A type is its width.                                   *)
(***************************************************************************)
EXTENDS BitVectors, Sequences, SequencesExt

CONSTANTS Canon,  \* _CANON_VALUES
          Widths, \* the widths of the DSL's types
          NoVal   \* None

ASSUME CanonAssumption ==
  /\ Canon \in Seq(Int) /\ IsInjective(Canon)
  /\ Widths \subseteq Nat \ {0} /\ NoVal \notin Int

VARIABLES value, width  \* a Const of a spec and its type, in unsigned form

OOVIndex == 0
Indices  == 0..Len(Canon)

(* The dict lookup of a raw integer.                                       *)
Lookup(n) == IF \E i \in 1..Len(Canon) : Canon[i] = n THEN CHOOSE i \in 1..Len(Canon) : Canon[i] = n
             ELSE OOVIndex

(* Slip: the signed reading is forgotten.                                  *)
EncodeRaw(n, w) == Lookup(n)

(* encode(value, ty): as it is, else read as signed.                       *)
Encode(n, w) == IF Lookup(n) # OOVIndex THEN Lookup(n) ELSE Lookup(signed(mask(n, w), w))

(* Slip: the value is not brought into unsigned form.                      *)
DecodeRaw(i, w) == IF i = OOVIndex THEN NoVal ELSE Canon[i]

(* decode(idx, ty).                                                        *)
Decode(i, w) == IF i = OOVIndex THEN NoVal ELSE mask(Canon[i], w)

-----------------------------------------------------------------------------
VocabInit == width \in Widths /\ value = 0
VocabNext == value + 1 < Pow2[width] /\ value' = value + 1 /\ UNCHANGED width
VocabSpec == VocabInit /\ [][VocabNext]_<<value, width>>

(* A value is out of vocabulary only if no canonical integer, negative or  *)
(* not, is the same value of its type.                                     *)
NoneLost ==
  Encode(value, width) = OOVIndex =>
    \A i \in 1..Len(Canon) :
      -Pow2[width-1] <= Canon[i] /\ Canon[i] < Pow2[width] => mask(Canon[i], width) # value
=============================================================================
