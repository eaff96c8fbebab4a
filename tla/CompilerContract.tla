--------------------------- MODULE CompilerContract ---------------------------
(***************************************************************************)
(* What lowering promises about one graph and one input: it either refuses *)
(* the graph, or the emitted function answers once, with the lp64 form of  *)
(* the value the specification gives, or with anything at all when the     *)
(* specification is undefined there.                                       *)
(***************************************************************************)
EXTENDS Words

CONSTANTS UB, Pending, Refused

VARIABLES expected, answer

Init == expected \in Word \cup {UB} /\ answer = Pending

Refuse == answer = Pending /\ answer' = Refused /\ UNCHANGED expected

Answer ==
  /\ answer = Pending
  /\ answer' \in IF expected = UB THEN XWord ELSE {Sext(expected)}
  /\ UNCHANGED expected

Next == Refuse \/ Answer

(* At most one answer, and only a right one; and always one.               *)
Safety == Init /\ [][Next]_<<expected, answer>>
Spec   == Safety /\ WF_<<expected, answer>>(Next)
=============================================================================
