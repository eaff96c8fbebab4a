----------------------------- MODULE MCTrainLoop -----------------------------
(* Four directories and eleven ways to load and split them; two runs over  *)
(* two experiment directories.  The options hold the repository's own      *)
(* warm start: MCPretrain, then MCSingle in another experiment from its    *)
(* final.pt; and pairs that are not apart: one seed with another fraction  *)
(* or limit, and an evaluation corpus an earlier run was trained on.       *)
EXTENDS TrainLoop

MCCorpora == [l |-> <<"int", "ptr", "int", "int">>, a |-> <<"bad", "int", "ptr">>,
              t |-> <<"int", "torn">>, e |-> <<>>]
MCShuffled(seed, n) == [i \in 1..n |-> IF seed = 1 THEN i ELSE n + 1 - i]

MCSingle == [script |-> "asm", data |-> "l", eval |-> None, limit |-> 4, eval_limit |-> 4,
             frac |-> <<1, 4>>, seed |-> 2, val_max |-> 2]
MCPretrain == [MCSingle EXCEPT !.data = "a", !.eval = "l"]
MCOptions ==
  {MCSingle, MCPretrain,
   [MCSingle EXCEPT !.frac = <<1, 2>>, !.val_max = 1], [MCSingle EXCEPT !.limit = 2],
   [MCSingle EXCEPT !.data = "e"], [MCSingle EXCEPT !.data = "t"],
   [MCPretrain EXCEPT !.data = "l", !.seed = 1], [MCPretrain EXCEPT !.eval = "t"],
   [MCSingle EXCEPT !.script = "graph"], [MCSingle EXCEPT !.script = "graph", !.data = "e"],
   [MCSingle EXCEPT !.script = "graph", !.frac = <<1, 1>>]}
MCSymmetry == Permutations(ExpDirs)
=============================================================================
