------------------------------ MODULE TrainLoop ------------------------------
(***************************************************************************)
(* The two training scripts, src/model/train.py (spec to graph) and        *)
(* src/model/train_leetcode.py (C to assembly): loading, splitting, the    *)
(* loop over epochs and the checkpoints and log left in --exp-dir.  A run  *)
(* may be killed, and others may follow: with options of their own, in the *)
(* same or another directory, warm-started from any checkpoint there is.   *)
(* What a network has learnt is kept as the set of samples it was trained  *)
(* on; what a validation yields is open.                                   *)
(***************************************************************************)
EXTENDS Integers, Sequences, FiniteSets, SequencesExt

CONSTANTS Corpora,   \* directory of a corpus -> the kinds of its samples
          Options,   \* bound: what a run may be given to load and split
          EpochsOpt, \* --epochs
          EveryOpt,  \* --val-every
          ExpDirs,   \* --exp-dir
          MaxRuns,   \* bound: runs
          None, Torn, \* no such file, or an option left out; a file cut short
          Shuffled(_, _) \* external: the places 1..n as random.Random(seed) shuffles them

Kinds == {"int",   \* loads, and can be judged by differential_test
          "ptr",   \* loads unless int_only: a signature with pointers; a spec train.py skips
          "bad",   \* skipped: a file missing, source or assembly not parsed
          "torn"}  \* signature.json cut short

Samples == (DOMAIN Corpora) \X Nat

(* --data (or --train-data), --eval-data (None: single-source mode),       *)
(* --limit (or --train-limit), --eval-limit, --val-frac as a fraction,     *)
(* --split-seed (or --seed) and --val-max-samples.                         *)
RunOptions == [script : {"graph", "asm"}, data : DOMAIN Corpora, eval : DOMAIN Corpora \cup {None},
               limit : Nat, eval_limit : Nat, frac : Nat \X (Nat \ {0}), seed : Nat, val_max : Nat]

ASSUME TrainAssumption ==
  /\ \A d \in DOMAIN Corpora : Corpora[d] \in Seq(Kinds)
  /\ Options \subseteq RunOptions /\ \A o \in Options : o.script = "graph" => o.eval = None
  /\ EpochsOpt \subseteq Nat /\ EveryOpt \subseteq Nat \ {0} /\ MaxRuns \in Nat
  /\ \A o \in Options, d \in DOMAIN Corpora : \A n \in 0..Len(Corpora[d]) :
       LET p == Shuffled(o.seed, n) IN p \in Seq(1..n) /\ Len(p) = n /\ IsInjective(p)

Weights     == [run : Nat, epoch : Int, seen : SUBSET Samples, behind : SUBSET Options]
Checkpoints == [weights : Weights, config : Options, metric : Int, judged : SUBSET Samples]
ASSUME FileAssumption == None \notin Checkpoints /\ None \notin DOMAIN Corpora /\ Torn \notin Checkpoints

VARIABLES run, opt, exp, epochs, val_every, init, \* options of the run
          phase,     \* "start", "epoch", "validate", "saving", "log", "done", "dead", "raised"
          train, judged, \* samples trained on; those best.pt is chosen by
          epoch, weights, best_val,
          measured,  \* history: the metric of each validated epoch of this run
          disk       \* of each --exp-dir: best.pt, final.pt and the rows of log.csv

options == <<run, opt, exp, epochs, val_every, init>>
split   == <<train, judged>>
tvars   == <<options, phase, split, epoch, weights, best_val, measured, disk>>

best  == disk[exp].best
final == disk[exp].final
log   == disk[exp].log

-----------------------------------------------------------------------------
(* load_corpus: the loadable directories in order, until the limit.        *)
Loadable(kinds, int_only) == {i \in DOMAIN kinds : kinds[i] = "int" \/ (kinds[i] = "ptr" /\ ~int_only)}
Before(kinds, int_only, i) == Cardinality({j \in Loadable(kinds, int_only) : j < i})
Loaded(dir, limit, int_only) ==
  {<<dir, i>> : i \in {j \in Loadable(Corpora[dir], int_only) : Before(Corpora[dir], int_only, j) < limit}}
LoadRaises(dir, limit, int_only) ==
  \E i \in DOMAIN Corpora[dir] : Corpora[dir][i] = "torn" /\ Before(Corpora[dir], int_only, i) < limit

(* Python's round: a half goes to the even neighbour.                      *)
Rounded(p, q) ==
  LET down == p \div q  rest == 2 * (p % q)
  IN  IF rest > q \/ (rest = q /\ down % 2 = 1) THEN down + 1 ELSE down

(* The first k of S, samples of one directory: as the seed shuffles them,  *)
(* and as they were loaded.                                                *)
Place(S, x)         == Cardinality({y \in S : y[2] <= x[2]})
FirstOf(S, k, seed) ==
  {x \in S : \E i \in 1..Cardinality(S) : i <= k /\ Shuffled(seed, Cardinality(S))[i] = Place(S, x)}
LeastOf(S, k)       == {x \in S : Place(S, x) <= k}

(* random_split, and the same lines of train_leetcode.  Slip: the training *)
(* set is not filtered.                                                    *)
NVal(S, o)      == Max({1, Rounded(Cardinality(S) * o.frac[1], o.frac[2])})
ValPart(S, o)   == FirstOf(S, NVal(S, o), o.seed)
TrainAll(S, o)  == S
TrainPart(S, o) == S \ ValPart(S, o)

TwoCorpora(o) == o.eval # None
Corpus(o)     == Loaded(o.data, o.limit, ~TwoCorpora(o))
EvalPool(o)   == Loaded(o.eval, o.eval_limit, TRUE)

TrainSet(o) == IF TwoCorpora(o) THEN Corpus(o) ELSE TrainPart(Corpus(o), o)
Judged(o) ==
  CASE TwoCorpora(o)                        -> FirstOf(EvalPool(o), o.val_max, o.seed)
    [] ~TwoCorpora(o) /\ o.script = "asm"   -> LeastOf(ValPart(Corpus(o), o), o.val_max)
    [] ~TwoCorpora(o) /\ o.script = "graph" -> ValPart(Corpus(o), o)

-----------------------------------------------------------------------------
Fresh == [run |-> run, epoch |-> -1, seen |-> {}, behind |-> {}]

(* --init-ckpt, an option of train_leetcode.py only.                       *)
Inits(o) == {None} \cup (IF o.script = "asm" THEN ExpDirs \X {"best", "final"} ELSE {})
InitFile == disk[init[1]][init[2]]
Whole(file) == file \notin {None, Torn}

TrainInit ==
  /\ run = 1 /\ opt \in Options /\ init \in Inits(opt)
  /\ exp \in ExpDirs /\ epochs \in EpochsOpt /\ val_every \in EveryOpt
  /\ phase = "start" /\ train = {} /\ judged = {}
  /\ epoch = 0 /\ weights = Fresh /\ best_val = -1 /\ measured = <<>>
  /\ disk = [d \in ExpDirs |-> [best |-> None, final |-> None, log |-> <<>>]]

(* train.py refuses a fraction outside (0, 1), and its DataLoader to train *)
(* on nothing; a torn file stops the loaders and torch.load, and a         *)
(* checkpoint of train.py has no decoder.                                  *)
StartRaises ==
  \/ LoadRaises(opt.data, opt.limit, ~TwoCorpora(opt))
  \/ TwoCorpora(opt) /\ LoadRaises(opt.eval, opt.eval_limit, TRUE)
  \/ opt.script = "graph" /\ (opt.frac[1] \notin 1..opt.frac[2]-1 \/ TrainSet(opt) = {})
  \/ init # None /\ (Whole(InitFile) => InitFile.config.script = "graph")

(* Slip: log.csv is opened to append.                                      *)
KeptLog == log
NewLog  == <<>>

Start ==
  /\ phase = "start" /\ ~StartRaises
  /\ train' = TrainSet(opt) /\ judged' = Judged(opt)
  /\ weights' = IF init = None THEN Fresh ELSE [InitFile.weights EXCEPT !.run = run]
  /\ epoch' = 0 /\ best_val' = -1 /\ measured' = <<>>
  /\ disk' = [disk EXCEPT ![exp].log = NewLog]
  /\ phase' = "epoch"
  /\ UNCHANGED options

(* load_state_dict raises on a checkpoint of another architecture.         *)
StartFails ==
  /\ phase = "start" /\ (StartRaises \/ init # None)
  /\ phase' = "raised"
  /\ UNCHANGED <<options, split, epoch, weights, best_val, measured, disk>>

TrainEpoch ==
  /\ phase = "epoch" /\ epoch < epochs
  /\ weights' = [run |-> run, epoch |-> epoch, seen |-> weights.seen \cup train,
                 behind |-> weights.behind \cup {opt}]
  /\ phase' = "validate"
  /\ UNCHANGED <<options, split, epoch, best_val, measured, disk>>

(* Slip: the last epoch is not special.                                    *)
DueEvery == (epoch + 1) % val_every = 0
Due == (epoch + 1) % val_every = 0 \/ epoch = epochs - 1

(* Slip: a later epoch with the same metric replaces the checkpoint.       *)
NotWorse(m) == m >= best_val
Better(m)   == m > best_val

Validate ==
  /\ phase = "validate" /\ Due
  /\ \E m \in 0..Cardinality(judged) :
       /\ measured' = Append(measured, [epoch |-> epoch, metric |-> m])
       /\ best_val' = IF Better(m) THEN m ELSE best_val
       /\ phase' = IF Better(m) THEN "saving" ELSE "log"
  /\ UNCHANGED <<options, split, epoch, weights, disk>>

NotValidated ==
  /\ phase = "validate" /\ ~Due
  /\ phase' = "log"
  /\ UNCHANGED <<options, split, epoch, weights, best_val, measured, disk>>

Checkpoint(m) == [weights |-> weights, config |-> opt, metric |-> m, judged |-> judged]

SaveBest ==
  /\ phase = "saving"
  /\ disk' = [disk EXCEPT ![exp].best = Checkpoint(best_val)] /\ phase' = "log"
  /\ UNCHANGED <<options, split, epoch, weights, best_val, measured>>

Row == IF Due THEN Last(measured).metric ELSE -1   \* -1: an empty column

LogRow ==
  /\ phase = "log"
  /\ disk' = [disk EXCEPT ![exp].log = Append(log, Row)]
  /\ epoch' = epoch + 1 /\ phase' = "epoch"
  /\ UNCHANGED <<options, split, weights, best_val, measured>>

SaveFinal ==
  /\ phase = "epoch" /\ epoch = epochs
  /\ disk' = [disk EXCEPT ![exp].final = Checkpoint(-1)] /\ phase' = "done"
  /\ UNCHANGED <<options, split, epoch, weights, best_val, measured>>

(* Killed, perhaps while torch.save writes over a checkpoint.              *)
Killed ==
  /\ phase \in {"epoch", "validate", "saving", "log"}
  /\ phase' = "dead"
  /\ \/ disk' = disk
     \/ phase = "saving" /\ disk' = [disk EXCEPT ![exp].best = Torn]
     \/ phase = "epoch" /\ epoch = epochs /\ disk' = [disk EXCEPT ![exp].final = Torn]
  /\ UNCHANGED <<options, split, epoch, weights, best_val, measured>>

(* Another run, all its options its own.                                   *)
Rerun ==
  /\ phase \in {"done", "dead", "raised"} /\ run < MaxRuns
  /\ run' = run + 1 /\ opt' \in Options /\ init' \in Inits(opt')
  /\ exp' \in ExpDirs /\ epochs' \in EpochsOpt /\ val_every' \in EveryOpt
  /\ phase' = "start"
  /\ UNCHANGED <<split, epoch, weights, best_val, measured, disk>>

TrainNext ==
  Start \/ StartFails \/ TrainEpoch \/ Validate \/ NotValidated \/ SaveBest \/ LogRow
    \/ SaveFinal \/ Killed \/ Rerun
TrainSpec == TrainInit /\ [][TrainNext]_tvars

-----------------------------------------------------------------------------
OfThisRun(file) == Whole(file) /\ file.weights.run = run
Underway == phase \notin {"start", "raised"}

(* best.pt is the earliest of the best of the first n validated epochs.    *)
BestOf(n) ==
  IF n = 0 THEN ~OfThisRun(best)
  ELSE /\ OfThisRun(best)
       /\ \E i \in 1..n :
            /\ best.weights.epoch = measured[i].epoch /\ best.metric = measured[i].metric
            /\ \A j \in 1..n : measured[j].metric <= best.metric
            /\ \A j \in 1..i-1 : measured[j].metric < best.metric

(* best.pt is the earliest of the best epochs this run has validated, with *)
(* the metric they reached; until the first is saved it is that of an      *)
(* earlier run.  A kill, even inside torch.save, leaves that one, the one  *)
(* it was to replace, or a torn file, and never one of another epoch.      *)
BestIsEarliestBest ==
  Underway =>
    LET n == Len(measured)
    IN  CASE phase = "saving" -> BestOf(n - 1)
          [] phase = "dead"   -> best = Torn \/ BestOf(n) \/ (n > 0 /\ BestOf(n - 1))
          [] phase \notin {"saving", "dead"} -> BestOf(n)

(* final.pt holds the weights after the last epoch, and that epoch was     *)
(* validated, so the checkpoint kept as best is never worse than it.       *)
FinalNotBetter ==
  phase = "done" =>
    /\ OfThisRun(final) /\ final.weights.epoch = IF epochs = 0 THEN weights.epoch ELSE epochs - 1
    /\ epochs > 0 => Last(measured).epoch = epochs - 1 /\ best.metric >= Last(measured).metric

(* What run p trained on is apart from what c is judged by: it is of       *)
(* another directory, or both split the same samples the same way.         *)
JudgedDir(o) == IF TwoCorpora(o) THEN o.eval ELSE o.data
SameSplit(p, c) ==
  /\ ~TwoCorpora(p) /\ ~TwoCorpora(c)
  /\ p.data = c.data /\ p.limit = c.limit /\ p.frac = c.frac /\ p.seed = c.seed
Apart(p, c) == p.data # JudgedDir(c) \/ SameSplit(p, c)

(* No sample is lost by a split.  And in every directory best.pt was       *)
(* chosen on samples its weights never saw, through warm starts from any   *)
(* checkpoint, if each run behind the weights is apart from it: nothing in *)
(* the scripts checks that the runs are.                                   *)
HeldOut ==
  /\ Underway /\ ~TwoCorpora(opt) => train \cup ValPart(Corpus(opt), opt) = Corpus(opt)
  /\ \A d \in ExpDirs :
       LET c == disk[d].best
       IN  Whole(c) /\ (\A p \in c.weights.behind : Apart(p, c.config)) => c.weights.seen \cap c.judged = {}

(* log.csv describes the run: a row per finished epoch, a metric in those  *)
(* that were validated, and in the row of best.pt its own, unless a kill   *)
(* came between the two writes.                                            *)
LogTellsBest ==
  Underway =>
    /\ Len(log) = epoch
    /\ \A i \in DOMAIN log :
         log[i] # -1 <=> \E j \in DOMAIN measured : measured[j] = [epoch |-> i - 1, metric |-> log[i]]
    /\ OfThisRun(best) => \/ best.weights.epoch = Len(log)
                          \/ best.weights.epoch < Len(log) /\ log[best.weights.epoch + 1] = best.metric
=============================================================================
