--------------------------- MODULE TrainLoopProofs ---------------------------
(***************************************************************************)
(* Theorems about the training scripts, for every corpus, set of options,  *)
(* schedule, outcome of the validations, kill and number of runs.          *)
(***************************************************************************)
EXTENDS TrainLoop, SequenceTheorems, TLAPS

Measure == [epoch : Nat, metric : Nat]
Loop    == {"epoch", "validate", "saving", "log"}
Phases  == {"start", "done", "dead", "raised"} \cup Loop
Files   == Checkpoints \cup {None, Torn}
Folders == [best : Files, final : Files, log : Seq(Int)]

TrainType ==
  /\ run \in Nat /\ opt \in Options /\ exp \in ExpDirs /\ epochs \in Nat /\ val_every \in Nat \ {0}
  /\ init \in Inits(opt)
  /\ phase \in Phases /\ train \in SUBSET Samples /\ judged \in SUBSET Samples
  /\ epoch \in Nat /\ weights \in Weights /\ best_val \in Int /\ measured \in Seq(Measure)
  /\ disk \in [ExpDirs -> Folders]

(* What weights were trained on is the training part of the runs behind    *)
(* them.                                                                   *)
SeenBy(w)   == \A x \in w.seen : \E p \in w.behind : x \in TrainSet(p)
SeenFile(c) == Whole(c) => SeenBy(c.weights) /\ c.config \in Options

(* A run splits as its options say, and a best.pt was chosen by the judges *)
(* of the options kept in it.                                              *)
SplitInv ==
  /\ Underway => train = TrainSet(opt) /\ judged = Judged(opt) /\ SeenBy(weights)
  /\ \A d \in ExpDirs : SeenFile(disk[d].best) /\ SeenFile(disk[d].final)
  /\ \A d \in ExpDirs : Whole(disk[d].best) => disk[d].best.judged = Judged(disk[d].best.config)

(* The weights are those of the last epoch trained.                        *)
WeightsInv ==
  /\ \A d \in ExpDirs : Whole(disk[d].best) => disk[d].best.weights.run <= run
  /\ phase \in {"start", "raised"} =>
       \A d \in ExpDirs : Whole(disk[d].best) => disk[d].best.weights.run < run
  /\ Underway => weights.run = run
  /\ phase \in {"validate", "saving", "log"} => epoch < epochs /\ weights.epoch = epoch
  /\ phase = "epoch" => epoch <= epochs
  /\ phase = "epoch" /\ epoch > 0 => weights.epoch = epoch - 1

(* The validated epochs come in order, and every one that is due is there. *)
MeasuredInv ==
  /\ \A i, j \in 1..Len(measured) : i < j => measured[i].epoch < measured[j].epoch
  /\ Underway => \A i \in 1..Len(measured) : measured[i].epoch <= epoch
  /\ phase \in {"epoch", "validate"} => \A i \in 1..Len(measured) : measured[i].epoch < epoch
  /\ phase = "saving" => measured # <<>> /\ measured[Len(measured)].epoch = epoch
  /\ phase = "log" /\ Due => measured # <<>> /\ measured[Len(measured)].epoch = epoch
  /\ phase = "log" /\ ~Due => \A i \in 1..Len(measured) : measured[i].epoch < epoch
  /\ phase = "saving" => Due
  /\ phase = "epoch" /\ epoch > 0 /\ epoch = epochs =>
       measured # <<>> /\ measured[Len(measured)].epoch = epoch - 1

(* best_val is the best metric so far, and in phase "saving" new: best.pt  *)
(* is still that of the measures before it.                                *)
BestInv ==
  Underway =>
    /\ measured = <<>> => best_val = -1
    /\ \A j \in 1..Len(measured) : measured[j].metric <= best_val
    /\ phase = "saving" =>
         /\ measured[Len(measured)].metric = best_val
         /\ \A j \in 1..Len(measured)-1 : measured[j].metric < best_val
         /\ BestOf(Len(measured) - 1)
    /\ phase = "dead" =>
         best = Torn \/ BestOf(Len(measured)) \/ (Len(measured) > 0 /\ BestOf(Len(measured) - 1))
    /\ phase \notin {"saving", "dead"} =>
         BestOf(Len(measured)) /\ (measured # <<>> => best.metric = best_val)

(* The rows of the log, with the metrics of the epochs that have one.      *)
LogInv ==
  Underway =>
    /\ Len(log) = epoch
    /\ \A i \in 1..Len(log) : log[i] # -1 =>
         \E j \in 1..Len(measured) : measured[j].epoch = i - 1 /\ measured[j].metric = log[i]
    /\ \A j \in 1..Len(measured) : measured[j].epoch < Len(log) => log[measured[j].epoch + 1] = measured[j].metric
    /\ OfThisRun(best) => \/ best.weights.epoch = Len(log)
                          \/ best.weights.epoch \in 0..Len(log)-1 /\ log[best.weights.epoch + 1] = best.metric

FinalInv ==
  phase = "done" =>
    /\ OfThisRun(final) /\ final.weights = weights
    /\ epochs > 0 => /\ weights.epoch = epochs - 1 /\ measured # <<>>
                     /\ measured[Len(measured)].epoch = epochs - 1

TrainInv == TrainType /\ SplitInv /\ WeightsInv /\ MeasuredInv /\ BestInv /\ LogInv /\ FinalInv

-----------------------------------------------------------------------------
(* What is loaded from a directory are samples of that directory.          *)
LEMMA LoadedFacts ==
  ASSUME NEW dir \in DOMAIN Corpora, NEW limit, NEW b
  PROVE  \A x \in Loaded(dir, limit, b) : x \in Samples /\ x[1] = dir
<1>1. Corpora[dir] \in Seq(Kinds)
  BY TrainAssumption
<1>2. DOMAIN Corpora[dir] = 1..Len(Corpora[dir]) /\ Len(Corpora[dir]) \in Nat
  BY <1>1, LenProperties
<1>3. SUFFICES ASSUME NEW x \in Loaded(dir, limit, b) PROVE x \in Samples /\ x[1] = dir
  OBVIOUS
<1>4. PICK i \in Loadable(Corpora[dir], b) : x = <<dir, i>>
  BY DEF Loaded
<1>5. i \in DOMAIN Corpora[dir]
  BY DEF Loadable
<1>6. i \in Nat
  BY <1>2, <1>5
<1> QED BY <1>4, <1>6 DEF Samples

(* An option record of a run names directories there are.                  *)
LEMMA OptionFacts ==
  ASSUME NEW o \in Options
  PROVE  /\ o.data \in DOMAIN Corpora /\ o.script \in {"graph", "asm"}
         /\ TwoCorpora(o) => o.eval \in DOMAIN Corpora
<1>1. o \in RunOptions
  BY TrainAssumption
<1>2. o.data \in DOMAIN Corpora /\ o.script \in {"graph", "asm"} /\ o.eval \in (DOMAIN Corpora) \cup {None}
  BY <1>1 DEF RunOptions
<1> QED BY <1>2 DEF TwoCorpora

(* The training set is of --data, the judges are of the directory judged   *)
(* by, and from one directory they are the two parts of a split.           *)
LEMMA SplitFacts ==
  ASSUME NEW o \in Options
  PROVE  /\ TrainSet(o) \in SUBSET Samples /\ Judged(o) \in SUBSET Samples
         /\ \A x \in TrainSet(o) : x[1] = o.data
         /\ \A x \in Judged(o) : x[1] = JudgedDir(o)
         /\ ~TwoCorpora(o) => /\ TrainSet(o) = Corpus(o) \ ValPart(Corpus(o), o)
                              /\ ValPart(Corpus(o), o) \subseteq Corpus(o)
                              /\ Judged(o) \subseteq ValPart(Corpus(o), o)
<1>1. \A S, k, s : FirstOf(S, k, s) \subseteq S /\ LeastOf(S, k) \subseteq S
  BY DEF FirstOf, LeastOf
<1>2. \A x \in Corpus(o) : x \in Samples /\ x[1] = o.data
  BY OptionFacts, LoadedFacts DEF Corpus
<1>3. CASE TwoCorpora(o)
  <2>1. \A x \in EvalPool(o) : x \in Samples /\ x[1] = o.eval
    BY <1>3, OptionFacts, LoadedFacts DEF EvalPool
  <2>2. TrainSet(o) = Corpus(o) /\ Judged(o) = FirstOf(EvalPool(o), o.val_max, o.seed)
    BY <1>3 DEF TrainSet, Judged
  <2>3. Judged(o) \subseteq EvalPool(o)
    BY <1>1, <2>2
  <2> QED BY <1>2, <1>3, <2>1, <2>2, <2>3 DEF JudgedDir
<1>4. CASE ~TwoCorpora(o)
  <2>1. TrainSet(o) = Corpus(o) \ ValPart(Corpus(o), o)
    BY <1>4 DEF TrainSet, TrainPart
  <2>2. ValPart(Corpus(o), o) \subseteq Corpus(o)
    BY <1>1 DEF ValPart
  <2>3. Judged(o) = LeastOf(ValPart(Corpus(o), o), o.val_max) \/ Judged(o) = ValPart(Corpus(o), o)
    BY <1>4, OptionFacts DEF Judged
  <2>4. Judged(o) \subseteq ValPart(Corpus(o), o)
    BY <1>1, <2>3
  <2> QED BY <1>2, <1>4, <2>1, <2>2, <2>4 DEF JudgedDir
<1> QED BY <1>3, <1>4

(* Runs that split alike make the same two parts.                          *)
LEMMA SameSplitFacts ==
  ASSUME NEW p, NEW c, SameSplit(p, c)
  PROVE  Corpus(p) = Corpus(c) /\ ValPart(Corpus(p), p) = ValPart(Corpus(c), c)
<1>1. Corpus(p) = Corpus(c)
  BY DEF SameSplit, Corpus
<1>2. NVal(Corpus(p), p) = NVal(Corpus(c), c)
  BY <1>1 DEF SameSplit, NVal
<1> QED BY <1>1, <1>2 DEF SameSplit, ValPart

-----------------------------------------------------------------------------
(* A checkpoint is a whole file.                                           *)
LEMMA WholeFacts ==
  ASSUME NEW c \in Files
  PROVE  Whole(c) <=> c \in Checkpoints
BY FileAssumption DEF Files, Whole

(* What is in the directory of this run, and in the others.                *)
LEMMA FolderFacts ==
  ASSUME TrainType
  PROVE  /\ best = disk[exp].best /\ final = disk[exp].final /\ log = disk[exp].log
         /\ best \in Files /\ final \in Files /\ log \in Seq(Int)
         /\ \A d \in ExpDirs : disk[d].best \in Files /\ disk[d].final \in Files
<1>1. exp \in ExpDirs /\ disk \in [ExpDirs -> Folders]
  BY DEF TrainType
<1>2. \A d \in ExpDirs : disk[d] \in Folders
  BY <1>1
<1>3. \A f \in Folders : f.best \in Files /\ f.final \in Files /\ f.log \in Seq(Int)
  BY DEF Folders
<1> QED BY <1>1, <1>2, <1>3 DEF best, final, log

(* A step that leaves the directories alone.                               *)
LEMMA SameDisk ==
  ASSUME UNCHANGED <<exp, disk>>
  PROVE  best' = best /\ final' = final /\ log' = log
BY DEF best, final, log

(* Writing one file of the run's directory leaves all others.              *)
LEMMA BestWritten ==
  ASSUME TrainType, exp' = exp, NEW c, disk' = [disk EXCEPT ![exp].best = c]
  PROVE  /\ best' = c /\ final' = final /\ log' = log
         /\ \A d \in ExpDirs : /\ disk'[d].final = disk[d].final
                               /\ disk'[d].best = IF d = exp THEN c ELSE disk[d].best
         /\ c \in Files => disk' \in [ExpDirs -> Folders]
<1>1. exp \in ExpDirs /\ disk \in [ExpDirs -> Folders]
  BY DEF TrainType
<1>2. \A d \in ExpDirs : disk'[d] = IF d = exp THEN [disk[d] EXCEPT !.best = c] ELSE disk[d]
  BY <1>1
<1>3. \A d \in ExpDirs : disk[d] \in Folders
  BY <1>1
<1>4. \A f \in Folders : /\ [f EXCEPT !.best = c].best = c /\ [f EXCEPT !.best = c].final = f.final
                         /\ [f EXCEPT !.best = c].log = f.log
                         /\ c \in Files => [f EXCEPT !.best = c] \in Folders
  BY DEF Folders
<1>5. DOMAIN disk' = ExpDirs /\ disk' = [d \in ExpDirs |-> disk'[d]]
  BY <1>1
<1>6. \A d \in ExpDirs : /\ disk'[d].final = disk[d].final
                         /\ disk'[d].best = IF d = exp THEN c ELSE disk[d].best
  <2> SUFFICES ASSUME NEW d \in ExpDirs
               PROVE  /\ disk'[d].final = disk[d].final
                      /\ disk'[d].best = IF d = exp THEN c ELSE disk[d].best
    OBVIOUS
  <2>1. CASE d = exp
    <3>1. disk'[d] = [disk[d] EXCEPT !.best = c] BY <1>2, <2>1
    <3>2. disk[d] \in Folders BY <1>3
    <3>3. /\ [disk[d] EXCEPT !.best = c].final = disk[d].final
          /\ [disk[d] EXCEPT !.best = c].best = c
      BY <1>4, <3>2
    <3> QED BY <2>1, <3>1, <3>3
  <2>2. CASE d # exp
    <3>1. disk'[d] = disk[d] BY <1>2, <2>2
    <3> QED BY <2>2, <3>1
  <2> QED BY <2>1, <2>2
<1>7. best' = c /\ final' = final /\ log' = log
  BY <1>1, <1>2, <1>3, <1>4 DEF best, final, log
<1>8. c \in Files => disk' \in [ExpDirs -> Folders]
  <2>1. c \in Files => \A d \in ExpDirs : disk'[d] \in Folders
    BY <1>2, <1>3, <1>4
  <2> QED BY <1>5, <2>1
<1> QED BY <1>6, <1>7, <1>8

LEMMA FinalWritten ==
  ASSUME TrainType, exp' = exp, NEW c, disk' = [disk EXCEPT ![exp].final = c]
  PROVE  /\ final' = c /\ best' = best /\ log' = log
         /\ \A d \in ExpDirs : /\ disk'[d].best = disk[d].best
                               /\ disk'[d].final = IF d = exp THEN c ELSE disk[d].final
         /\ c \in Files => disk' \in [ExpDirs -> Folders]
<1>1. exp \in ExpDirs /\ disk \in [ExpDirs -> Folders]
  BY DEF TrainType
<1>2. \A d \in ExpDirs : disk'[d] = IF d = exp THEN [disk[d] EXCEPT !.final = c] ELSE disk[d]
  BY <1>1
<1>3. \A d \in ExpDirs : disk[d] \in Folders
  BY <1>1
<1>4. \A f \in Folders : /\ [f EXCEPT !.final = c].final = c /\ [f EXCEPT !.final = c].best = f.best
                         /\ [f EXCEPT !.final = c].log = f.log
                         /\ c \in Files => [f EXCEPT !.final = c] \in Folders
  BY DEF Folders
<1>5. DOMAIN disk' = ExpDirs /\ disk' = [d \in ExpDirs |-> disk'[d]]
  BY <1>1
<1>6. \A d \in ExpDirs : /\ disk'[d].best = disk[d].best
                         /\ disk'[d].final = IF d = exp THEN c ELSE disk[d].final
  <2> SUFFICES ASSUME NEW d \in ExpDirs
               PROVE  /\ disk'[d].best = disk[d].best
                      /\ disk'[d].final = IF d = exp THEN c ELSE disk[d].final
    OBVIOUS
  <2>1. CASE d = exp
    <3>1. disk'[d] = [disk[d] EXCEPT !.final = c] BY <1>2, <2>1
    <3>2. disk[d] \in Folders BY <1>3
    <3>3. /\ [disk[d] EXCEPT !.final = c].best = disk[d].best
          /\ [disk[d] EXCEPT !.final = c].final = c
      BY <1>4, <3>2
    <3> QED BY <2>1, <3>1, <3>3
  <2>2. CASE d # exp
    <3>1. disk'[d] = disk[d] BY <1>2, <2>2
    <3> QED BY <2>2, <3>1
  <2> QED BY <2>1, <2>2
<1>7. final' = c /\ best' = best /\ log' = log
  BY <1>1, <1>2, <1>3, <1>4 DEF best, final, log
<1>8. c \in Files => disk' \in [ExpDirs -> Folders]
  <2>1. c \in Files => \A d \in ExpDirs : disk'[d] \in Folders
    BY <1>2, <1>3, <1>4
  <2> QED BY <1>5, <2>1
<1> QED BY <1>6, <1>7, <1>8

LEMMA LogWritten ==
  ASSUME TrainType, exp' = exp, NEW l \in Seq(Int), disk' = [disk EXCEPT ![exp].log = l]
  PROVE  /\ log' = l /\ best' = best /\ final' = final
         /\ \A d \in ExpDirs : disk'[d].best = disk[d].best /\ disk'[d].final = disk[d].final
         /\ disk' \in [ExpDirs -> Folders]
<1>1. exp \in ExpDirs /\ disk \in [ExpDirs -> Folders]
  BY DEF TrainType
<1>2. \A d \in ExpDirs : disk'[d] = IF d = exp THEN [disk[d] EXCEPT !.log = l] ELSE disk[d]
  BY <1>1
<1>3. \A d \in ExpDirs : disk[d] \in Folders
  BY <1>1
<1>4. \A f \in Folders : /\ [f EXCEPT !.log = l].log = l /\ [f EXCEPT !.log = l].best = f.best
                         /\ [f EXCEPT !.log = l].final = f.final /\ [f EXCEPT !.log = l] \in Folders
  BY DEF Folders
<1>5. DOMAIN disk' = ExpDirs /\ disk' = [d \in ExpDirs |-> disk'[d]]
  BY <1>1
<1>6. \A d \in ExpDirs : disk'[d].best = disk[d].best /\ disk'[d].final = disk[d].final
  BY <1>2, <1>3, <1>4
<1>7. log' = l /\ best' = best /\ final' = final
  BY <1>1, <1>2, <1>3, <1>4 DEF best, final, log
<1>8. \A d \in ExpDirs : disk'[d] \in Folders
  BY <1>2, <1>3, <1>4
<1> QED BY <1>5, <1>6, <1>7, <1>8

(* What a run is warm-started from is a checkpoint of some directory.      *)
LEMMA InitFileFacts ==
  ASSUME TrainType, init # None
  PROVE  \E d \in ExpDirs : InitFile = disk[d].best \/ InitFile = disk[d].final
<1>1. init \in ExpDirs \X {"best", "final"}
  BY DEF TrainType, Inits
<1>2. PICK d \in ExpDirs, f \in {"best", "final"} : init = <<d, f>>
  BY <1>1
<1>3. InitFile = disk[d][f]
  BY <1>2 DEF InitFile
<1> QED BY <1>2, <1>3

(* The start of a run: the weights are new or those of a whole checkpoint. *)
LEMMA StartWeights ==
  ASSUME TrainType, Start
  PROVE  /\ weights' \in Weights /\ weights'.run = run
         /\ \/ weights'.seen = {} /\ weights'.behind = {}
            \/ \E d \in ExpDirs : \E c \in {disk[d].best, disk[d].final} :
                 Whole(c) /\ weights'.seen = c.weights.seen /\ weights'.behind = c.weights.behind
<1>r. run \in Nat BY DEF TrainType
<1>1. CASE init = None
  <2>1. weights' = Fresh BY <1>1 DEF Start
  <2> QED BY <1>r, <2>1 DEF Fresh, Weights
<1>2. CASE init # None
  <2>1. PICK d \in ExpDirs : InitFile = disk[d].best \/ InitFile = disk[d].final
    BY <1>2, InitFileFacts
  <2>2. Whole(InitFile)
    BY <1>2 DEF Start, StartRaises
  <2>3. InitFile \in Checkpoints
    BY <2>1, <2>2, FolderFacts, WholeFacts
  <2>4. weights' = [InitFile.weights EXCEPT !.run = run]
    BY <1>2 DEF Start
  <2>5. InitFile.weights \in Weights
    BY <2>3 DEF Checkpoints
  <2>6. /\ weights' \in Weights /\ weights'.run = run
        /\ weights'.seen = InitFile.weights.seen /\ weights'.behind = InitFile.weights.behind
    BY <1>r, <2>4, <2>5 DEF Weights
  <2> QED BY <2>1, <2>2, <2>6
<1> QED BY <1>1, <1>2

(* The start opens a new log and leaves every checkpoint.                  *)
LEMMA StartDisk ==
  ASSUME TrainType, Start
  PROVE  /\ log' = <<>> /\ best' = best /\ final' = final
         /\ \A d \in ExpDirs : disk'[d].best = disk[d].best /\ disk'[d].final = disk[d].final
         /\ disk' \in [ExpDirs -> Folders]
<1>1. disk' = [disk EXCEPT ![exp].log = <<>>] /\ exp' = exp
  BY DEF Start, NewLog, options
<1>2. <<>> \in Seq(Int)
  OBVIOUS
<1> QED BY <1>1, <1>2, LogWritten

(* An epoch adds the training set and the options of the run to the        *)
(* weights.                                                                *)
LEMMA EpochWeights ==
  ASSUME TrainType, TrainEpoch
  PROVE  /\ weights' \in Weights /\ weights'.run = run /\ weights'.epoch = epoch
         /\ weights'.seen = weights.seen \cup train /\ weights'.behind = weights.behind \cup {opt}
<1>1. weights' = [run |-> run, epoch |-> epoch, seen |-> weights.seen \cup train,
                  behind |-> weights.behind \cup {opt}]
  BY DEF TrainEpoch
<1>2. weights.seen \in SUBSET Samples /\ weights.behind \in SUBSET Options
  BY DEF TrainType, Weights
<1>3. weights.seen \cup train \in SUBSET Samples /\ weights.behind \cup {opt} \in SUBSET Options
  BY <1>2 DEF TrainType
<1> QED BY <1>1, <1>3 DEF TrainType, Weights

(* A checkpoint as a run writes it.                                        *)
LEMMA CheckpointFacts ==
  ASSUME TrainType, NEW m \in Int
  PROVE  /\ Checkpoint(m) \in Checkpoints /\ Checkpoint(m) \in Files /\ Whole(Checkpoint(m))
         /\ Checkpoint(m).weights = weights /\ Checkpoint(m).config = opt
         /\ Checkpoint(m).metric = m /\ Checkpoint(m).judged = judged
<1>1. weights \in Weights /\ opt \in Options /\ judged \in SUBSET Samples
  BY DEF TrainType
<1>2. Checkpoint(m) \in Checkpoints
  BY <1>1 DEF Checkpoint, Checkpoints
<1>3. /\ Checkpoint(m).weights = weights /\ Checkpoint(m).config = opt
      /\ Checkpoint(m).metric = m /\ Checkpoint(m).judged = judged
  BY DEF Checkpoint
<1> QED BY <1>2, <1>3, WholeFacts DEF Files

(* A row of the log is a number.                                           *)
LEMMA LogRowDisk ==
  ASSUME TrainInv, LogRow
  PROVE  /\ log' = Append(log, Row) /\ Row \in Int /\ best' = best /\ final' = final
         /\ \A d \in ExpDirs : disk'[d].best = disk[d].best /\ disk'[d].final = disk[d].final
         /\ disk' \in [ExpDirs -> Folders]
<1>0. TrainType BY DEF TrainInv
<1>1. Row \in Int
  <2>1. CASE Due
    <3>1. measured # <<>> /\ measured \in Seq(Measure)
      BY <2>1 DEF TrainInv, MeasuredInv, TrainType, LogRow
    <3>2. measured[Len(measured)] \in Measure
      BY <3>1
    <3> QED BY <2>1, <3>2 DEF Row, Last, Measure
  <2>2. CASE ~Due BY <2>2 DEF Row
  <2> QED BY <2>1, <2>2
<1>2. log \in Seq(Int)
  BY <1>0, FolderFacts
<1>3. Append(log, Row) \in Seq(Int)
  BY <1>1, <1>2
<1>4. disk' = [disk EXCEPT ![exp].log = Append(log, Row)] /\ exp' = exp
  BY DEF LogRow, options
<1> HIDE DEF Row
<1> QED BY <1>0, <1>1, <1>3, <1>4, LogWritten

(* A kill leaves the files as they were, or tears the one being written.   *)
LEMMA KilledDisk ==
  ASSUME TrainType, Killed
  PROVE  /\ log' = log /\ disk' \in [ExpDirs -> Folders]
         /\ \A d \in ExpDirs : disk'[d].best \in {disk[d].best, Torn} /\ disk'[d].final \in {disk[d].final, Torn}
         /\ best' = best \/ (phase = "saving" /\ best' = Torn)
<1>1. exp' = exp /\ Torn \in Files
  BY DEF Killed, options, Files
<1>2. CASE disk' = disk
  BY <1>1, <1>2, SameDisk DEF TrainType
<1>3. CASE phase = "saving" /\ disk' = [disk EXCEPT ![exp].best = Torn]
  <2>1. /\ best' = Torn /\ log' = log /\ disk' \in [ExpDirs -> Folders]
        /\ \A d \in ExpDirs : /\ disk'[d].final = disk[d].final
                              /\ disk'[d].best = IF d = exp THEN Torn ELSE disk[d].best
    BY <1>1, <1>3, BestWritten
  <2> QED BY <1>3, <2>1
<1>4. CASE disk' = [disk EXCEPT ![exp].final = Torn]
  <2>1. /\ best' = best /\ log' = log /\ disk' \in [ExpDirs -> Folders]
        /\ \A d \in ExpDirs : /\ disk'[d].best = disk[d].best
                              /\ disk'[d].final = IF d = exp THEN Torn ELSE disk[d].final
    BY <1>1, <1>4, FinalWritten
  <2> QED BY <2>1
<1> QED BY <1>2, <1>3, <1>4 DEF Killed

(* A validation appends one measure, with the epoch it was taken at.       *)
LEMMA ValidateFacts ==
  ASSUME TrainType, Validate
  PROVE  \E m \in Nat :
           /\ measured' = Append(measured, [epoch |-> epoch, metric |-> m])
           /\ [epoch |-> epoch, metric |-> m] \in Measure
           /\ best_val' = (IF m > best_val THEN m ELSE best_val)
           /\ phase' = (IF m > best_val THEN "saving" ELSE "log")
<1>1. PICK m \in 0..Cardinality(judged) :
           /\ measured' = Append(measured, [epoch |-> epoch, metric |-> m])
           /\ best_val' = (IF m > best_val THEN m ELSE best_val)
           /\ phase' = (IF m > best_val THEN "saving" ELSE "log")
  BY DEF Validate, Better
<1>2. m \in Nat
  OBVIOUS
<1> QED BY <1>1, <1>2 DEF Measure, TrainType

-----------------------------------------------------------------------------
(* The start establishes the invariant.                                    *)
LEMMA InitInv == TrainInit => TrainInv
<1> SUFFICES ASSUME TrainInit PROVE TrainInv OBVIOUS
<1>1. ~Underway /\ phase = "start" /\ exp \in ExpDirs
  BY DEF TrainInit, Underway
<1>2. disk = [d \in ExpDirs |-> [best |-> None, final |-> None, log |-> <<>>]]
  BY DEF TrainInit
<1>3. \A d \in ExpDirs : disk[d].best = None /\ disk[d].final = None
  BY <1>2
<1>4. disk \in [ExpDirs -> Folders]
  <2>1. [best |-> None, final |-> None, log |-> <<>>] \in Folders
    BY DEF Folders, Files
  <2> QED BY <1>2, <2>1
<1>5. weights \in Weights
  BY DEF TrainInit, Fresh, Weights
<1>6. measured = <<>> /\ measured \in Seq(Measure) /\ Len(measured) = 0
  BY DEF TrainInit
<1>7. opt \in Options /\ init \in Inits(opt) /\ epochs \in Nat /\ val_every \in Nat \ {0}
  BY TrainAssumption DEF TrainInit
<1>8. TrainType
  <2>1. best_val \in Int /\ epoch \in Nat /\ run \in Nat
    BY DEF TrainInit
  <2>2. train \in SUBSET Samples /\ judged \in SUBSET Samples
    BY DEF TrainInit
  <2> QED BY <1>1, <1>4, <1>5, <1>6, <1>7, <2>1, <2>2 DEF TrainType, Phases
<1>9. SplitInv /\ WeightsInv /\ LogInv /\ FinalInv /\ BestInv
  BY <1>1, <1>3 DEF SplitInv, SeenFile, Whole, WeightsInv, LogInv, FinalInv, BestInv
<1>10. MeasuredInv
  BY <1>1, <1>6 DEF MeasuredInv
<1> QED BY <1>8, <1>9, <1>10 DEF TrainInv

(* Every step keeps the types.                                             *)
LEMMA StepType == TrainInv /\ [TrainNext]_tvars => TrainType'
<1> SUFFICES ASSUME TrainInv, [TrainNext]_tvars PROVE TrainType' OBVIOUS
<1>0. TrainType BY DEF TrainInv
<1>o. UNCHANGED <<opt, init>> => (init \in Inits(opt))'
  BY <1>0 DEF TrainType, Inits
<1>1. CASE Start
  <2>1. train' \in SUBSET Samples /\ judged' \in SUBSET Samples
    BY <1>0, <1>1, SplitFacts DEF Start, TrainType
  <2>2. weights' \in Weights
    BY <1>0, <1>1, StartWeights
  <2>3. measured' = <<>> /\ epoch' = 0 /\ best_val' = -1 /\ phase' = "epoch"
    BY <1>1 DEF Start
  <2>4. UNCHANGED options
    BY <1>1 DEF Start
  <2>5. disk' \in [ExpDirs -> Folders]
    BY <1>0, <1>1, StartDisk
  <2> QED BY <1>0, <1>o, <2>1, <2>2, <2>3, <2>4, <2>5 DEF TrainType, options, Phases, Loop
<1>2. CASE StartFails
  BY <1>0, <1>o, <1>2 DEF TrainType, StartFails, options, split, Phases
<1>3. CASE TrainEpoch
  <2>1. weights' \in Weights
    BY <1>0, <1>3, EpochWeights
  <2> QED BY <1>0, <1>o, <1>3, <2>1 DEF TrainType, TrainEpoch, options, split, Phases, Loop
<1>4. CASE Validate
  <2>1. PICK m \in Nat :
           /\ measured' = Append(measured, [epoch |-> epoch, metric |-> m])
           /\ [epoch |-> epoch, metric |-> m] \in Measure
           /\ best_val' = (IF m > best_val THEN m ELSE best_val)
           /\ phase' = (IF m > best_val THEN "saving" ELSE "log")
    BY <1>0, <1>4, ValidateFacts
  <2>2. measured' \in Seq(Measure)
    BY <1>0, <2>1 DEF TrainType
  <2>3. best_val' \in Int /\ phase' \in Phases
    BY <1>0, <2>1 DEF TrainType, Phases, Loop
  <2>4. UNCHANGED <<options, split, epoch, weights, disk>>
    BY <1>4 DEF Validate
  <2> QED BY <1>0, <1>o, <2>2, <2>3, <2>4 DEF TrainType, options, split
<1>5. CASE NotValidated
  BY <1>0, <1>o, <1>5 DEF TrainType, NotValidated, options, split, Phases, Loop
<1>6. CASE SaveBest
  <2>1. disk' = [disk EXCEPT ![exp].best = Checkpoint(best_val)] /\ exp' = exp /\ best_val \in Int
    BY <1>0, <1>6 DEF SaveBest, options, TrainType
  <2>2. disk' \in [ExpDirs -> Folders]
    BY <1>0, <2>1, CheckpointFacts, BestWritten
  <2> QED BY <1>0, <1>o, <1>6, <2>2 DEF TrainType, SaveBest, options, split, Phases, Loop
<1>7. CASE LogRow
  <2>1. disk' \in [ExpDirs -> Folders]
    BY <1>7, LogRowDisk
  <2>2. UNCHANGED <<options, split, weights, best_val, measured>> /\ epoch' = epoch + 1 /\ phase' = "epoch"
    BY <1>7 DEF LogRow
  <2> QED BY <1>0, <1>o, <2>1, <2>2 DEF TrainType, options, split, Phases, Loop
<1>8. CASE SaveFinal
  <2>1. disk' = [disk EXCEPT ![exp].final = Checkpoint(-1)] /\ exp' = exp
    BY <1>8 DEF SaveFinal, options
  <2>2. Checkpoint(-1) \in Files
    <3>1. -1 \in Int OBVIOUS
    <3> QED BY <1>0, <3>1, CheckpointFacts
  <2>3. disk' \in [ExpDirs -> Folders]
    BY <1>0, <2>1, <2>2, FinalWritten
  <2> QED BY <1>0, <1>o, <1>8, <2>3 DEF TrainType, SaveFinal, options, split, Phases
<1>9. CASE Killed
  <2>1. disk' \in [ExpDirs -> Folders]
    BY <1>0, <1>9, KilledDisk
  <2>2. UNCHANGED <<options, split, epoch, weights, best_val, measured>> /\ phase' = "dead"
    BY <1>9 DEF Killed
  <2> QED BY <1>0, <1>o, <2>1, <2>2 DEF TrainType, options, split, Phases
<1>10. CASE Rerun
  <2>1. run' \in Nat /\ opt' \in Options /\ exp' \in ExpDirs /\ epochs' \in Nat /\ val_every' \in Nat \ {0}
    BY <1>0, <1>10, TrainAssumption DEF TrainType, Rerun
  <2>2. (init \in Inits(opt))'
    BY <1>10 DEF Rerun, Inits
  <2>3. UNCHANGED <<split, epoch, weights, best_val, measured, disk>> /\ phase' = "start"
    BY <1>10 DEF Rerun
  <2> QED BY <1>0, <2>1, <2>2, <2>3 DEF TrainType, split, Phases
<1>11. CASE UNCHANGED tvars
  BY <1>0, <1>o, <1>11 DEF TrainType, tvars, options, split
<1> QED
  BY <1>1, <1>2, <1>3, <1>4, <1>5, <1>6, <1>7, <1>8, <1>9, <1>10, <1>11 DEF TrainNext
-----------------------------------------------------------------------------
(* Every step keeps the split: the weights saw training parts only.        *)
LEMMA StepSplit == TrainInv /\ [TrainNext]_tvars => SplitInv'
<1> SUFFICES ASSUME TrainInv, [TrainNext]_tvars PROVE SplitInv' OBVIOUS
<1>0. TrainType /\ SplitInv BY DEF TrainInv
<1>a. ASSUME \A d \in ExpDirs : disk'[d].best \in {disk[d].best, Torn} /\ disk'[d].final \in {disk[d].final, Torn},
             Underway' => train' = TrainSet(opt') /\ judged' = Judged(opt') /\ SeenBy(weights')
      PROVE  SplitInv'
  <2>1. \A d \in ExpDirs : SeenFile(disk'[d].best) /\ SeenFile(disk'[d].final)
    BY <1>0, <1>a DEF SplitInv, SeenFile, Whole
  <2>2. \A d \in ExpDirs : Whole(disk'[d].best) => disk'[d].best.judged = Judged(disk'[d].best.config)
    BY <1>0, <1>a DEF SplitInv, Whole
  <2> QED BY <1>a, <2>1, <2>2 DEF SplitInv
<1>b. ASSUME UNCHANGED <<opt, split, weights>>, Underway' => Underway
      PROVE  Underway' => train' = TrainSet(opt') /\ judged' = Judged(opt') /\ SeenBy(weights')
  BY <1>0, <1>b DEF SplitInv, split, SeenBy
<1>c. ASSUME UNCHANGED <<opt, split, weights, disk>>, Underway' => Underway
      PROVE  SplitInv'
  BY <1>a, <1>b, <1>c
<1>1. CASE Start
  <2>1. opt' = opt /\ train' = TrainSet(opt) /\ judged' = Judged(opt)
    BY <1>1 DEF Start, options
  <2>2. SeenBy(weights')
    <3>1. CASE weights'.seen = {}
      BY <3>1 DEF SeenBy
    <3>2. CASE \E d \in ExpDirs : \E c \in {disk[d].best, disk[d].final} :
                 Whole(c) /\ weights'.seen = c.weights.seen /\ weights'.behind = c.weights.behind
      <4>0. PICK d \in ExpDirs : \E c \in {disk[d].best, disk[d].final} :
                 Whole(c) /\ weights'.seen = c.weights.seen /\ weights'.behind = c.weights.behind
        BY <3>2
      <4>1. PICK c \in {disk[d].best, disk[d].final} :
                 Whole(c) /\ weights'.seen = c.weights.seen /\ weights'.behind = c.weights.behind
        BY <4>0
      <4>2. SeenBy(c.weights)
        BY <1>0, <4>1 DEF SplitInv, SeenFile
      <4> QED BY <4>1, <4>2 DEF SeenBy
    <3> QED BY <1>0, <1>1, <3>1, <3>2, StartWeights
  <2>3. \A d \in ExpDirs : disk'[d].best = disk[d].best /\ disk'[d].final = disk[d].final
    BY <1>0, <1>1, StartDisk
  <2> QED BY <1>a, <2>1, <2>2, <2>3
<1>2. CASE StartFails
  BY <1>c, <1>2 DEF StartFails, Underway, options
<1>3. CASE TrainEpoch
  <2>1. UNCHANGED <<opt, train, judged, disk>> /\ phase = "epoch"
    BY <1>3 DEF TrainEpoch, options, split
  <2>2. SeenBy(weights) /\ train = TrainSet(opt) /\ judged = Judged(opt)
    BY <1>0, <2>1 DEF SplitInv, Underway
  <2>3. SeenBy(weights')
    BY <1>0, <1>3, <2>2, EpochWeights DEF SeenBy
  <2> QED BY <1>a, <2>1, <2>2, <2>3
<1>4. CASE Validate
  <2>1. UNCHANGED <<opt, split, weights, disk>> /\ phase = "validate"
    BY <1>4 DEF Validate, options
  <2> QED BY <1>c, <2>1 DEF Underway
<1>5. CASE NotValidated
  BY <1>c, <1>5 DEF NotValidated, Underway, options
<1>6. CASE SaveBest
  <2>1. /\ UNCHANGED <<opt, exp, split, weights>> /\ phase = "saving" /\ Underway
        /\ disk' = [disk EXCEPT ![exp].best = Checkpoint(best_val)]
    BY <1>6 DEF SaveBest, options, Underway
  <2>2. best_val \in Int /\ opt \in Options
    BY <1>0 DEF TrainType
  <2>3. SeenBy(weights) /\ train = TrainSet(opt) /\ judged = Judged(opt)
    BY <1>0, <2>1 DEF SplitInv
  <2> DEFINE c == Checkpoint(best_val)
  <2>4. SeenFile(c) /\ c.judged = Judged(c.config)
    BY <1>0, <2>2, <2>3, CheckpointFacts DEF SeenFile
  <2> HIDE DEF c
  <2>5. \A d \in ExpDirs : /\ disk'[d].final = disk[d].final
                          /\ disk'[d].best = IF d = exp THEN c ELSE disk[d].best
    BY <1>0, <2>1, BestWritten DEF c
  <2>6. \A d \in ExpDirs : SeenFile(disk'[d].best) /\ SeenFile(disk'[d].final)
    BY <1>0, <2>4, <2>5 DEF SplitInv
  <2>7. \A d \in ExpDirs : Whole(disk'[d].best) => disk'[d].best.judged = Judged(disk'[d].best.config)
    BY <1>0, <2>4, <2>5 DEF SplitInv
  <2>8. Underway' => train' = TrainSet(opt') /\ judged' = Judged(opt') /\ SeenBy(weights')
    BY <1>b, <2>1
  <2> QED BY <2>6, <2>7, <2>8 DEF SplitInv
<1>7. CASE LogRow
  <2>1. \A d \in ExpDirs : disk'[d].best = disk[d].best /\ disk'[d].final = disk[d].final
    BY <1>7, LogRowDisk
  <2>2. UNCHANGED <<opt, split, weights>> /\ phase = "log"
    BY <1>7 DEF LogRow, options
  <2> QED BY <1>a, <1>b, <2>1, <2>2 DEF Underway
<1>8. CASE SaveFinal
  <2>1. /\ UNCHANGED <<opt, exp, split, weights>> /\ Underway
        /\ disk' = [disk EXCEPT ![exp].final = Checkpoint(-1)]
    BY <1>8 DEF SaveFinal, options, Underway
  <2>2. opt \in Options /\ -1 \in Int
    BY <1>0 DEF TrainType
  <2>3. SeenBy(weights)
    BY <1>0, <2>1 DEF SplitInv
  <2> DEFINE c == Checkpoint(-1)
  <2>4. SeenFile(c)
    BY <1>0, <2>2, <2>3, CheckpointFacts DEF SeenFile
  <2> HIDE DEF c
  <2>5. \A d \in ExpDirs : /\ disk'[d].best = disk[d].best
                          /\ disk'[d].final = IF d = exp THEN c ELSE disk[d].final
    BY <1>0, <2>1, FinalWritten DEF c
  <2>6. \A d \in ExpDirs : SeenFile(disk'[d].best) /\ SeenFile(disk'[d].final)
    BY <1>0, <2>4, <2>5 DEF SplitInv
  <2>7. \A d \in ExpDirs : Whole(disk'[d].best) => disk'[d].best.judged = Judged(disk'[d].best.config)
    BY <1>0, <2>5 DEF SplitInv
  <2>8. Underway' => train' = TrainSet(opt') /\ judged' = Judged(opt') /\ SeenBy(weights')
    BY <1>b, <2>1
  <2> QED BY <2>6, <2>7, <2>8 DEF SplitInv
<1>9. CASE Killed
  <2>1. UNCHANGED <<opt, split, weights>> /\ Underway
    BY <1>9 DEF Killed, options, Underway
  <2>2. \A d \in ExpDirs : disk'[d].best \in {disk[d].best, Torn} /\ disk'[d].final \in {disk[d].final, Torn}
    BY <1>0, <1>9, KilledDisk
  <2> QED BY <1>a, <1>b, <2>1, <2>2
<1>10. CASE Rerun
  <2>1. disk' = disk /\ ~Underway'
    BY <1>10 DEF Rerun, Underway
  <2> QED BY <1>a, <2>1
<1>11. CASE UNCHANGED tvars
  BY <1>c, <1>11 DEF tvars, Underway, options
<1> QED
  BY <1>1, <1>2, <1>3, <1>4, <1>5, <1>6, <1>7, <1>8, <1>9, <1>10, <1>11 DEF TrainNext

(* Every step keeps what the weights and the checkpoints say of run and    *)
(* epoch.                                                                  *)
LEMMA StepWeights == TrainInv /\ [TrainNext]_tvars => WeightsInv'
<1> SUFFICES ASSUME TrainInv, [TrainNext]_tvars PROVE WeightsInv' OBVIOUS
<1>0. TrainType /\ WeightsInv BY DEF TrainInv
<1>e. epoch \in Nat /\ epochs \in Nat /\ run \in Nat BY <1>0 DEF TrainType
<1>r. \A d \in ExpDirs : Whole(disk[d].best) => disk[d].best.weights.run \in Nat
  BY <1>0, FolderFacts, WholeFacts DEF Checkpoints, Weights
<1> DEFINE AtMost == \A d \in ExpDirs : Whole(disk[d].best) => disk[d].best.weights.run <= run
           Less == \A d \in ExpDirs : Whole(disk[d].best) => disk[d].best.weights.run < run
<1>a. AtMost /\ (phase \in {"start", "raised"} => Less)
  BY <1>0 DEF WeightsInv
<1>b. ASSUME run' = run, \A d \in ExpDirs : disk'[d].best \in {disk[d].best, Torn}
      PROVE  AtMost' /\ (Less => Less')
  BY <1>a, <1>b DEF Whole
<1>c. ASSUME UNCHANGED <<run, disk>>
      PROVE  AtMost' /\ (Less => Less')
  BY <1>a, <1>c DEF Whole
<1> HIDE DEF AtMost, Less
<1>1. CASE Start
  <2>1. UNCHANGED <<run, epochs>> /\ phase = "start" /\ phase' = "epoch" /\ epoch' = 0
    BY <1>1 DEF Start, options
  <2>2. weights'.run = run
    BY <1>0, <1>1, StartWeights
  <2>3. AtMost'
    BY <1>0, <1>1, <1>b, <2>1, StartDisk
  <2> QED BY <1>e, <2>1, <2>2, <2>3 DEF WeightsInv, Underway, AtMost
<1>2. CASE StartFails
  <2>1. UNCHANGED <<run, disk>> /\ phase = "start" /\ phase' = "raised"
    BY <1>2 DEF StartFails, options
  <2>2. AtMost' /\ Less'
    BY <1>a, <1>c, <2>1
  <2> QED BY <2>1, <2>2 DEF WeightsInv, Underway, AtMost, Less
<1>3. CASE TrainEpoch
  <2>1. UNCHANGED <<run, epochs, epoch, disk>> /\ phase = "epoch" /\ phase' = "validate" /\ epoch < epochs
    BY <1>3 DEF TrainEpoch, options
  <2>2. weights'.run = run /\ weights'.epoch = epoch
    BY <1>0, <1>3, EpochWeights
  <2>3. AtMost'
    BY <1>c, <2>1
  <2> QED BY <2>1, <2>2, <2>3 DEF WeightsInv, Underway, AtMost
<1>4. CASE Validate
  <2>1. UNCHANGED <<run, epochs, epoch, weights, disk>> /\ phase = "validate"
    BY <1>4 DEF Validate, options
  <2>2. phase' \in {"saving", "log"}
    BY <1>4 DEF Validate
  <2>3. AtMost'
    BY <1>c, <2>1
  <2> QED BY <1>0, <2>1, <2>2, <2>3 DEF WeightsInv, Underway, AtMost
<1>5. CASE NotValidated
  <2>1. UNCHANGED <<run, epochs, epoch, weights, disk>> /\ phase = "validate" /\ phase' = "log"
    BY <1>5 DEF NotValidated, options
  <2>2. AtMost'
    BY <1>c, <2>1
  <2> QED BY <1>0, <2>1, <2>2 DEF WeightsInv, Underway, AtMost
<1>6. CASE SaveBest
  <2>1. /\ UNCHANGED <<run, exp, epochs, epoch, weights>> /\ phase = "saving" /\ phase' = "log"
        /\ disk' = [disk EXCEPT ![exp].best = Checkpoint(best_val)]
    BY <1>6 DEF SaveBest, options
  <2>2. weights.run = run /\ epoch < epochs /\ weights.epoch = epoch /\ best_val \in Int
    BY <1>0, <2>1 DEF WeightsInv, Underway, TrainType
  <2> DEFINE c == Checkpoint(best_val)
  <2>3. c.weights = weights
    BY <1>0, <2>2, CheckpointFacts
  <2> HIDE DEF c
  <2>4. \A d \in ExpDirs : disk'[d].best = IF d = exp THEN c ELSE disk[d].best
    BY <1>0, <2>1, BestWritten DEF c
  <2>5. run <= run
    BY <1>e
  <2>6. AtMost'
    BY <1>a, <2>1, <2>2, <2>3, <2>4, <2>5 DEF AtMost
  <2> QED BY <2>1, <2>2, <2>6 DEF WeightsInv, Underway, AtMost
<1>7. CASE LogRow
  <2>1. UNCHANGED <<run, epochs, weights>> /\ phase = "log" /\ phase' = "epoch" /\ epoch' = epoch + 1
    BY <1>7 DEF LogRow, options
  <2>2. AtMost'
    BY <1>7, <1>b, <2>1, LogRowDisk
  <2>3. weights.run = run /\ epoch < epochs /\ weights.epoch = epoch
    BY <1>0, <2>1 DEF WeightsInv, Underway
  <2>4. epoch + 1 <= epochs /\ epoch = (epoch + 1) - 1
    BY <1>e, <2>3
  <2> QED BY <2>1, <2>2, <2>3, <2>4 DEF WeightsInv, Underway, AtMost
<1>8. CASE SaveFinal
  <2>1. /\ UNCHANGED <<run, exp, weights>> /\ phase = "epoch" /\ phase' = "done"
        /\ disk' = [disk EXCEPT ![exp].final = Checkpoint(-1)]
    BY <1>8 DEF SaveFinal, options
  <2>2. AtMost'
    BY <1>0, <1>b, <2>1, FinalWritten
  <2> QED BY <1>0, <2>1, <2>2 DEF WeightsInv, Underway, AtMost
<1>9. CASE Killed
  <2>1. UNCHANGED <<run, weights>> /\ phase \in Loop /\ phase' = "dead"
    BY <1>9 DEF Killed, options, Loop
  <2>2. AtMost'
    BY <1>0, <1>9, <1>b, <2>1, KilledDisk
  <2> QED BY <1>0, <2>1, <2>2 DEF WeightsInv, Underway, AtMost, Loop
<1>10. CASE Rerun
  <2>1. disk' = disk /\ run' = run + 1 /\ phase' = "start"
    BY <1>10 DEF Rerun
  <2>2. \A d \in ExpDirs : Whole(disk'[d].best) => disk'[d].best.weights.run < run + 1 /\ disk'[d].best.weights.run <= run + 1
    BY <1>a, <1>e, <1>r, <2>1 DEF AtMost
  <2> QED BY <2>1, <2>2 DEF WeightsInv, Underway
<1>11. CASE UNCHANGED tvars
  <2>1. AtMost' /\ (Less => Less') /\ UNCHANGED <<run, phase, epochs, epoch, weights>>
    BY <1>c, <1>11 DEF tvars, options
  <2> QED BY <1>0, <1>a, <2>1 DEF WeightsInv, Underway, AtMost, Less
<1> QED
  BY <1>1, <1>2, <1>3, <1>4, <1>5, <1>6, <1>7, <1>8, <1>9, <1>10, <1>11 DEF TrainNext

(* What appending one element to a sequence leaves and adds.               *)
LEMMA AppendFacts ==
  ASSUME NEW S, NEW q \in Seq(S), NEW e \in S
  PROVE  /\ Len(Append(q, e)) = Len(q) + 1 /\ Append(q, e)[Len(q) + 1] = e
         /\ \A i \in 1..Len(q) : Append(q, e)[i] = q[i]
         /\ Len(q) \in Nat /\ Append(q, e) # <<>>
OBVIOUS

(* Every step keeps the measures in the order of the epochs, each one that *)
(* is due among them.                                                      *)
LEMMA StepMeasured == TrainInv /\ [TrainNext]_tvars => MeasuredInv'
<1> SUFFICES ASSUME TrainInv, [TrainNext]_tvars PROVE MeasuredInv' OBVIOUS
<1>0. TrainType /\ MeasuredInv /\ WeightsInv BY DEF TrainInv
<1>n. Len(measured) \in Nat /\ \A i \in 1..Len(measured) : measured[i] \in Measure
  BY <1>0 DEF TrainType
<1>m. \A i \in 1..Len(measured) : measured[i].epoch \in Nat /\ measured[i].metric \in Nat
  BY <1>n DEF Measure
<1>e. epoch \in Nat BY <1>0 DEF TrainType
<1>1. CASE Start
  BY <1>0, <1>1 DEF Start, MeasuredInv
<1>2. CASE StartFails
  BY <1>0, <1>2 DEF StartFails, MeasuredInv, Underway, Due, options
<1>3. CASE TrainEpoch
  BY <1>0, <1>3 DEF TrainEpoch, MeasuredInv, Underway, Due, options
<1>4. CASE Validate
  <2>1. PICK m \in Nat :
           /\ measured' = Append(measured, [epoch |-> epoch, metric |-> m])
           /\ [epoch |-> epoch, metric |-> m] \in Measure
           /\ best_val' = (IF m > best_val THEN m ELSE best_val)
           /\ phase' = (IF m > best_val THEN "saving" ELSE "log")
    BY <1>0, <1>4, ValidateFacts
  <2>2. UNCHANGED <<epoch, epochs, val_every>> /\ Due /\ phase = "validate"
    BY <1>4 DEF Validate, options
  <2>3. /\ Len(measured') = Len(measured) + 1 /\ measured' # <<>>
        /\ measured'[Len(measured) + 1] = [epoch |-> epoch, metric |-> m]
        /\ \A i \in 1..Len(measured) : measured'[i] = measured[i]
    BY <1>0, <2>1, AppendFacts DEF TrainType
  <2>4. measured'[Len(measured')].epoch = epoch
    BY <2>3
  <2>5. \A i \in 1..Len(measured) : measured'[i].epoch < epoch
    BY <1>0, <2>2, <2>3 DEF MeasuredInv
  <2>6. \A i, j \in 1..Len(measured') : i < j => measured'[i].epoch < measured'[j].epoch
    <3> SUFFICES ASSUME NEW i \in 1..Len(measured'), NEW j \in 1..Len(measured'), i < j
                 PROVE  measured'[i].epoch < measured'[j].epoch
      OBVIOUS
    <3>1. i \in 1..Len(measured) BY <1>n, <2>3
    <3>2. CASE j \in 1..Len(measured)
      <4>1. measured[i].epoch < measured[j].epoch BY <1>0, <3>1, <3>2 DEF MeasuredInv
      <4> QED BY <2>3, <3>1, <3>2, <4>1
    <3>3. CASE j = Len(measured) + 1
      <4>1. measured'[j].epoch = epoch BY <2>3, <3>3
      <4> QED BY <2>5, <3>1, <4>1
    <3> QED BY <1>n, <2>3, <3>2, <3>3
  <2>7. \A i \in 1..Len(measured') : measured'[i].epoch <= epoch
    <3> SUFFICES ASSUME NEW i \in 1..Len(measured') PROVE measured'[i].epoch <= epoch OBVIOUS
    <3>1. CASE i \in 1..Len(measured)
      <4>1. measured'[i] = measured[i] /\ measured'[i].epoch < epoch BY <2>3, <2>5, <3>1
      <4>2. measured'[i].epoch \in Nat BY <1>m, <3>1, <4>1
      <4> QED BY <1>e, <4>1, <4>2
    <3>2. CASE i = Len(measured) + 1
      <4>1. measured'[i].epoch = epoch BY <2>3, <3>2
      <4> QED BY <1>e, <4>1
    <3> QED BY <1>n, <2>3, <3>1, <3>2
  <2>8. phase' \in {"saving", "log"} /\ Due'
    BY <2>1, <2>2 DEF Due
  <2>9. epoch' = epoch /\ phase' # "epoch" /\ phase' # "validate"
    BY <2>2, <2>8
  <2> QED BY <2>3, <2>4, <2>6, <2>7, <2>8, <2>9 DEF MeasuredInv
<1>5. CASE NotValidated
  BY <1>0, <1>5 DEF NotValidated, MeasuredInv, Underway, Due, options
<1>6. CASE SaveBest
  BY <1>0, <1>6 DEF SaveBest, MeasuredInv, Underway, Due, options
<1>7. CASE LogRow
  <2>1. UNCHANGED <<measured, epochs, val_every>> /\ epoch' = epoch + 1 /\ phase = "log" /\ phase' = "epoch"
    BY <1>7 DEF LogRow, options
  <2>2. \A i \in 1..Len(measured) : measured[i].epoch <= epoch
    BY <1>0, <2>1 DEF MeasuredInv, Underway
  <2>3. \A i \in 1..Len(measured) : measured[i].epoch < epoch + 1
    BY <1>e, <1>m, <2>2
  <2>4. ASSUME epoch' = epochs PROVE measured # <<>> /\ measured[Len(measured)].epoch = epoch
    <3>1. Due BY <1>0, <2>1, <2>4 DEF Due, TrainType
    <3> QED BY <1>0, <2>1, <3>1 DEF MeasuredInv
  <2>5. \A i \in 1..Len(measured) : measured[i].epoch <= epoch + 1
    BY <1>e, <1>m, <2>3
  <2>6. epoch' - 1 = epoch
    BY <1>0, <2>1 DEF TrainType
  <2> QED BY <1>0, <2>1, <2>3, <2>4, <2>5, <2>6 DEF MeasuredInv
<1>8. CASE SaveFinal
  BY <1>0, <1>8 DEF SaveFinal, MeasuredInv, Underway, options
<1>9. CASE Killed
  BY <1>0, <1>9 DEF Killed, MeasuredInv, Underway, options
<1>10. CASE Rerun
  BY <1>0, <1>10 DEF Rerun, MeasuredInv, Underway
<1>11. CASE UNCHANGED tvars
  BY <1>0, <1>11 DEF tvars, MeasuredInv, Underway, Due, options
<1> QED
  BY <1>1, <1>2, <1>3, <1>4, <1>5, <1>6, <1>7, <1>8, <1>9, <1>10, <1>11 DEF TrainNext
(* A run that ends leaves its last weights, of an epoch it validated.      *)
LEMMA StepFinal == TrainInv /\ [TrainNext]_tvars => FinalInv'
<1> SUFFICES ASSUME TrainInv, [TrainNext]_tvars PROVE FinalInv' OBVIOUS
<1>0. TrainType /\ MeasuredInv /\ WeightsInv /\ FinalInv BY DEF TrainInv
<1>1. CASE SaveFinal
  <2>1. /\ UNCHANGED <<run, exp, epochs, weights, epoch, measured>> /\ phase = "epoch" /\ epoch = epochs
        /\ disk' = [disk EXCEPT ![exp].final = Checkpoint(-1)]
    BY <1>1 DEF SaveFinal, options
  <2>c. final' = Checkpoint(-1)
    BY <1>0, <2>1, FinalWritten
  <2>2. Whole(final') /\ final'.weights = weights
    BY <1>0, <2>c, CheckpointFacts
  <2>3. weights.run = run
    BY <1>0, <2>1 DEF WeightsInv, Underway
  <2>4. epochs > 0 => weights.epoch = epochs - 1 /\ measured # <<>> /\ measured[Len(measured)].epoch = epochs - 1
    BY <1>0, <2>1 DEF WeightsInv, MeasuredInv
  <2>5. OfThisRun(final)'
    BY <2>1, <2>2, <2>3 DEF OfThisRun, Whole
  <2> QED BY <2>1, <2>2, <2>4, <2>5 DEF FinalInv
<1>2. CASE UNCHANGED tvars
  BY <1>0, <1>2, SameDisk DEF tvars, FinalInv, OfThisRun, Whole, options
<1>3. CASE TrainNext /\ ~SaveFinal
  <2>1. phase' # "done"
    BY <1>3 DEF TrainNext, Start, StartFails, TrainEpoch, Validate, NotValidated, SaveBest, LogRow, Killed, Rerun
  <2> QED BY <2>1 DEF FinalInv
<1> QED BY <1>1, <1>2, <1>3

(* What best.pt is depends on its run, the first n measures and itself.    *)
LEMMA BestOfSame ==
  ASSUME NEW n \in Nat, run' = run, best' = best, \A i \in 1..n : measured'[i] = measured[i]
  PROVE  BestOf(n)' <=> BestOf(n)
<1>1. OfThisRun(best)' <=> OfThisRun(best)
  BY DEF OfThisRun, Whole
<1>2. CASE n = 0 BY <1>1, <1>2 DEF BestOf
<1>3. CASE n # 0
  <2>1. \A i \in 1..n : 1..i-1 \subseteq 1..n
    OBVIOUS
  <2>2. (\E i \in 1..n :
            /\ best'.weights.epoch = measured'[i].epoch /\ best'.metric = measured'[i].metric
            /\ \A j \in 1..n : measured'[j].metric <= best'.metric
            /\ \A j \in 1..i-1 : measured'[j].metric < best'.metric)
        <=> (\E i \in 1..n :
            /\ best.weights.epoch = measured[i].epoch /\ best.metric = measured[i].metric
            /\ \A j \in 1..n : measured[j].metric <= best.metric
            /\ \A j \in 1..i-1 : measured[j].metric < best.metric)
    BY <2>1
  <2> QED BY <1>1, <1>3, <2>2 DEF BestOf
<1> QED BY <1>2, <1>3

(* The files of an earlier run are not of this one.                        *)
LEMMA NewRunBest ==
  ASSUME TrainInv, phase = "start"
  PROVE  ~OfThisRun(best)
<1>0. TrainType /\ WeightsInv BY DEF TrainInv
<1>1. exp \in ExpDirs /\ run \in Nat
  BY <1>0 DEF TrainType
<1>2. best = disk[exp].best /\ best \in Files
  BY <1>0, FolderFacts
<1>3. Whole(best) => best.weights.run < run /\ best.weights.run \in Nat
  BY <1>0, <1>1, <1>2, WholeFacts DEF WeightsInv, Checkpoints, Weights
<1> QED BY <1>1, <1>3 DEF OfThisRun

(* Every step keeps best.pt the earliest of the best, and best_val its     *)
(* metric unless it is about to be saved.                                  *)
LEMMA StepBest == TrainInv /\ [TrainNext]_tvars => BestInv'
<1> SUFFICES ASSUME TrainInv, [TrainNext]_tvars PROVE BestInv' OBVIOUS
<1>0. TrainType /\ MeasuredInv /\ WeightsInv /\ BestInv BY DEF TrainInv
<1>n. Len(measured) \in Nat /\ \A i \in 1..Len(measured) : measured[i] \in Measure
  BY <1>0 DEF TrainType
<1>m. \A i \in 1..Len(measured) : measured[i].epoch \in Nat /\ measured[i].metric \in Nat
  BY <1>n DEF Measure
<1>v. best_val \in Int BY <1>0 DEF TrainType
<1>k. measured = <<>> <=> Len(measured) = 0
  BY <1>0 DEF TrainType
<1>a. ASSUME UNCHANGED <<run, measured, best, best_val>>
      PROVE  /\ BestOf(Len(measured))' <=> BestOf(Len(measured))
             /\ Len(measured) > 0 => (BestOf(Len(measured) - 1)' <=> BestOf(Len(measured) - 1))
  <2>1. Len(measured') = Len(measured)
    BY <1>a
  <2>2. BestOf(Len(measured))' <=> BestOf(Len(measured))
    BY <1>n, <1>a, <2>1, BestOfSame
  <2>3. Len(measured) > 0 => Len(measured) - 1 \in Nat
    BY <1>n
  <2>4. Len(measured) > 0 => (BestOf(Len(measured) - 1)' <=> BestOf(Len(measured) - 1))
    BY <1>a, <2>1, <2>3, BestOfSame
  <2> QED BY <2>2, <2>4
<1>b. ASSUME UNCHANGED <<run, measured, best, best_val>>,
             phase \in {"epoch", "validate", "log", "done"}, phase' \in {"epoch", "validate", "log", "done"}
      PROVE  BestInv'
  BY <1>0, <1>a, <1>b DEF BestInv, Underway
<1>1. CASE Start
  <2>1. UNCHANGED run /\ phase = "start" /\ phase' = "epoch" /\ measured' = <<>> /\ best_val' = -1
    BY <1>1 DEF Start, options
  <2>2. best' = best
    BY <1>0, <1>1, StartDisk
  <2>3. ~OfThisRun(best)'
    BY <2>1, <2>2, NewRunBest DEF OfThisRun, Whole
  <2>4. Len(measured') = 0
    BY <2>1
  <2>5. BestOf(Len(measured))'
    BY <2>3, <2>4 DEF BestOf
  <2> QED BY <2>1, <2>4, <2>5 DEF BestInv
<1>2. CASE StartFails
  BY <1>2 DEF StartFails, BestInv, Underway
<1>3. CASE TrainEpoch
  <2>1. UNCHANGED <<run, exp, disk, measured, best_val>> /\ phase = "epoch" /\ phase' = "validate"
    BY <1>3 DEF TrainEpoch, options
  <2> QED BY <1>b, <2>1, SameDisk
<1>4. CASE Validate
  <2>1. PICK m \in Nat :
           /\ measured' = Append(measured, [epoch |-> epoch, metric |-> m])
           /\ [epoch |-> epoch, metric |-> m] \in Measure
           /\ best_val' = (IF m > best_val THEN m ELSE best_val)
           /\ phase' = (IF m > best_val THEN "saving" ELSE "log")
    BY <1>0, <1>4, ValidateFacts
  <2>u. UNCHANGED <<run, exp, disk>> /\ phase = "validate"
    BY <1>4 DEF Validate, options
  <2>2. UNCHANGED <<run, best>> /\ phase = "validate"
    BY <2>u, SameDisk
  <2>3. /\ Len(measured') = Len(measured) + 1 /\ measured' # <<>>
        /\ measured'[Len(measured) + 1] = [epoch |-> epoch, metric |-> m]
        /\ \A i \in 1..Len(measured) : measured'[i] = measured[i]
    BY <1>0, <2>1, AppendFacts DEF TrainType
  <2>4. measured'[Len(measured) + 1].metric = m
    BY <2>3
  <2>5. /\ \A j \in 1..Len(measured) : measured[j].metric <= best_val
        /\ measured = <<>> => best_val = -1
        /\ BestOf(Len(measured)) /\ (measured # <<>> => best.metric = best_val)
    BY <1>0, <2>2 DEF BestInv, Underway
  <2>6. \A j \in 1..Len(measured) : measured'[j].metric <= best_val /\ measured'[j].metric \in Nat
    BY <1>m, <2>3, <2>5
  <2>7. CASE m > best_val
    <3>1. phase' = "saving" /\ best_val' = m
      BY <2>1, <2>7
    <3>2. \A j \in 1..Len(measured) : measured'[j].metric < m
      BY <1>v, <2>6, <2>7
    <3>3. \A j \in 1..Len(measured') : measured'[j].metric <= m
      <4> SUFFICES ASSUME NEW j \in 1..Len(measured') PROVE measured'[j].metric <= m OBVIOUS
      <4>1. j \in 1..Len(measured) \/ j = Len(measured) + 1 BY <1>n, <2>3
      <4>2. CASE j \in 1..Len(measured) BY <2>6, <3>2, <4>2
      <4>3. CASE j = Len(measured) + 1 BY <2>4, <4>3
      <4> QED BY <4>1, <4>2, <4>3
    <3>4. Len(measured') - 1 = Len(measured)
      BY <1>n, <2>3
    <3>5. BestOf(Len(measured))
      BY <2>5
    <3>6. BestOf(Len(measured) - 1)'
      <4> DEFINE n == Len(measured)
      <4>1. n \in Nat /\ BestOf(n) /\ run' = run /\ best' = best /\ \A i \in 1..n : measured'[i] = measured[i]
        BY <1>n, <2>2, <2>3, <3>5
      <4>2. Len(measured') - 1 = n
        BY <3>4
      <4> HIDE DEF n
      <4>3. (OfThisRun(best)' <=> OfThisRun(best)) /\ \A i \in 1..n : 1..i-1 \subseteq 1..n
        BY <4>1 DEF OfThisRun, Whole
      <4> QED BY <4>1, <4>2, <4>3 DEF BestOf
    <3> QED BY <2>3, <2>4, <3>1, <3>2, <3>3, <3>4, <3>6 DEF BestInv
  <2>8. CASE ~(m > best_val)
    <3>1. phase' = "log" /\ best_val' = best_val
      BY <2>1, <2>8
    <3>2. measured # <<>> /\ Len(measured) # 0
      BY <1>k, <2>5, <2>8
    <3>3. OfThisRun(best) /\ best.metric = best_val
      BY <2>5, <3>2 DEF BestOf
    <3>4. PICK i \in 1..Len(measured) :
            /\ best.weights.epoch = measured[i].epoch /\ best.metric = measured[i].metric
            /\ \A j \in 1..i-1 : measured[j].metric < best.metric
      BY <2>5, <3>2 DEF BestOf
    <3>5. i \in 1..Len(measured') /\ 1..i-1 \subseteq 1..Len(measured) /\ Len(measured') # 0
      BY <1>n, <2>3
    <3>6. /\ best.weights.epoch = measured'[i].epoch /\ best.metric = measured'[i].metric
          /\ \A j \in 1..i-1 : measured'[j].metric < best.metric
      BY <2>3, <3>4, <3>5
    <3>7. \A j \in 1..Len(measured') : measured'[j].metric <= best_val
      <4> SUFFICES ASSUME NEW j \in 1..Len(measured') PROVE measured'[j].metric <= best_val OBVIOUS
      <4>1. j \in 1..Len(measured) \/ j = Len(measured) + 1 BY <1>n, <2>3
      <4>2. CASE j \in 1..Len(measured) BY <2>6, <4>2
      <4>3. CASE j = Len(measured) + 1 BY <1>v, <2>4, <2>8, <4>3
      <4> QED BY <4>1, <4>2, <4>3
    <3>8. OfThisRun(best)'
      BY <2>2, <3>3 DEF OfThisRun, Whole
    <3>9. BestOf(Len(measured))'
      BY <2>2, <3>3, <3>5, <3>6, <3>7, <3>8 DEF BestOf
    <3> QED BY <2>2, <2>3, <3>1, <3>3, <3>7, <3>9 DEF BestInv
  <2> QED BY <2>7, <2>8
<1>5. CASE NotValidated
  <2>1. UNCHANGED <<run, exp, disk, measured, best_val>> /\ phase = "validate" /\ phase' = "log"
    BY <1>5 DEF NotValidated, options
  <2> QED BY <1>b, <2>1, SameDisk
<1>6. CASE SaveBest
  <2>1. /\ UNCHANGED <<run, exp, weights, epoch, measured, best_val>> /\ phase = "saving" /\ phase' = "log"
        /\ disk' = [disk EXCEPT ![exp].best = Checkpoint(best_val)]
    BY <1>6 DEF SaveBest, options
  <2>c. best' = Checkpoint(best_val)
    BY <1>0, <2>1, BestWritten
  <2>2. Whole(best') /\ best'.weights = weights /\ best'.metric = best_val
    BY <1>0, <1>v, <2>c, CheckpointFacts
  <2>3. weights.run = run /\ weights.epoch = epoch
    BY <1>0, <2>1 DEF WeightsInv, Underway
  <2>4. measured # <<>> /\ measured[Len(measured)].epoch = epoch /\ measured[Len(measured)].metric = best_val
    BY <1>0, <2>1 DEF MeasuredInv, BestInv, Underway
  <2>5. /\ \A j \in 1..Len(measured)-1 : measured[j].metric < best_val
        /\ \A j \in 1..Len(measured) : measured[j].metric <= best_val
    BY <1>0, <2>1 DEF BestInv, Underway
  <2>6. OfThisRun(best)'
    BY <2>1, <2>2, <2>3 DEF OfThisRun, Whole
  <2>7. Len(measured) \in 1..Len(measured) /\ Len(measured) # 0
    BY <1>k, <1>n, <2>4
  <2>8. \E i \in 1..Len(measured) :
            /\ best'.weights.epoch = measured[i].epoch /\ best'.metric = measured[i].metric
            /\ \A j \in 1..Len(measured) : measured[j].metric <= best'.metric
            /\ \A j \in 1..i-1 : measured[j].metric < best'.metric
    BY <2>2, <2>3, <2>4, <2>5, <2>7
  <2>9. BestOf(Len(measured))'
    BY <2>1, <2>6, <2>7, <2>8 DEF BestOf
  <2> QED BY <2>1, <2>2, <2>4, <2>5, <2>9 DEF BestInv
<1>7. CASE LogRow
  <2>1. UNCHANGED <<run, measured, best_val>> /\ phase = "log" /\ phase' = "epoch"
    BY <1>7 DEF LogRow, options
  <2> QED BY <1>b, <1>7, <2>1, LogRowDisk
<1>8. CASE SaveFinal
  <2>1. /\ UNCHANGED <<run, exp, measured, best_val>> /\ phase = "epoch" /\ phase' = "done"
        /\ disk' = [disk EXCEPT ![exp].final = Checkpoint(-1)]
    BY <1>8 DEF SaveFinal, options
  <2> QED BY <1>0, <1>b, <2>1, FinalWritten
<1>9. CASE Killed
  <2>1. UNCHANGED <<run, measured, best_val>> /\ phase \in Loop /\ phase' = "dead"
    BY <1>9 DEF Killed, options, Loop
  <2>2. best' = best \/ best' = Torn
    BY <1>0, <1>9, KilledDisk
  <2>3. phase = "saving" => Len(measured) > 0
    BY <1>0, <1>k, <1>n DEF MeasuredInv
  <2>4. best' = best => BestOf(Len(measured))' \/ (Len(measured) > 0 /\ BestOf(Len(measured) - 1)')
    BY <1>0, <1>a, <2>1, <2>3 DEF BestInv, Underway, Loop
  <2>5. /\ measured = <<>> => best_val = -1
        /\ \A j \in 1..Len(measured) : measured[j].metric <= best_val
    BY <1>0, <2>1 DEF BestInv, Underway, Loop
  <2> QED BY <2>1, <2>2, <2>4, <2>5 DEF BestInv
<1>10. CASE Rerun
  BY <1>10 DEF Rerun, BestInv, Underway
<1>11. CASE UNCHANGED tvars
  <2>1. UNCHANGED <<run, exp, disk, phase, measured, best_val>>
    BY <1>11 DEF tvars, options
  <2>2. best' = best
    BY <2>1, SameDisk
  <2>3. phase \in {"saving", "dead"} \/ ~Underway \/ phase \in {"epoch", "validate", "log", "done"}
    BY <1>0 DEF TrainType, Phases, Loop, Underway
  <2>4. phase = "saving" => Len(measured) > 0
    BY <1>0, <1>k, <1>n DEF MeasuredInv
  <2> QED BY <1>0, <1>a, <2>1, <2>2, <2>4 DEF BestInv, Underway
<1> QED
  BY <1>1, <1>2, <1>3, <1>4, <1>5, <1>6, <1>7, <1>8, <1>9, <1>10, <1>11 DEF TrainNext

(* The measures of a run, one by one.                                      *)
LEMMA MeasureFacts ==
  ASSUME TrainType
  PROVE  /\ Len(measured) \in Nat /\ (measured # <<>> => Len(measured) \in 1..Len(measured))
         /\ \A i \in 1..Len(measured) : measured[i].epoch \in Nat /\ measured[i].metric \in Nat
<1>1. Len(measured) \in Nat /\ (measured # <<>> => Len(measured) \in 1..Len(measured))
  BY DEF TrainType
<1>2. \A i \in 1..Len(measured) : measured[i] \in Measure
  BY DEF TrainType
<1>3. \A x \in Measure : x.epoch \in Nat /\ x.metric \in Nat
  BY DEF Measure
<1> QED BY <1>1, <1>2, <1>3

(* Of the validated epochs of a run the one just trained is the last.      *)
LEMMA CurrentIsLast ==
  ASSUME TrainInv, phase = "log", NEW j \in 1..Len(measured), measured[j].epoch = epoch
  PROVE  Due /\ Last(measured) = measured[j]
<1>1. /\ Len(measured) \in Nat /\ epoch \in Nat
      /\ \A i \in 1..Len(measured) : measured[i].epoch \in Nat
  <2>1. TrainType BY DEF TrainInv
  <2> QED BY <2>1, MeasureFacts DEF TrainType
<1>2. Due
  <2>1. ~Due => measured[j].epoch < epoch BY DEF TrainInv, MeasuredInv
  <2>2. ~(measured[j].epoch < epoch) BY <1>1
  <2> QED BY <2>1, <2>2
<1>3. measured[Len(measured)].epoch = epoch /\ Len(measured) \in 1..Len(measured)
  BY <1>1, <1>2 DEF TrainInv, MeasuredInv
<1>4. j < Len(measured) => measured[j].epoch < measured[Len(measured)].epoch
  BY <1>3 DEF TrainInv, MeasuredInv
<1>5. j = Len(measured)
  BY <1>1, <1>3, <1>4
<1> QED BY <1>2, <1>5 DEF Last

(* Every step keeps the log a true account of the measures and best.pt.    *)
LEMMA StepLog == TrainInv /\ [TrainNext]_tvars => LogInv'
<1> SUFFICES ASSUME TrainInv, [TrainNext]_tvars PROVE LogInv' OBVIOUS
<1>0. TrainType /\ MeasuredInv /\ WeightsInv /\ BestInv /\ LogInv BY DEF TrainInv
<1>n. Len(measured) \in Nat /\ \A i \in 1..Len(measured) : measured[i] \in Measure
  BY <1>0 DEF TrainType
<1>m. \A i \in 1..Len(measured) : measured[i].epoch \in Nat /\ measured[i].metric \in Nat
  BY <1>n DEF Measure
<1>e. epoch \in Nat /\ log \in Seq(Int) BY <1>0, FolderFacts DEF TrainType
<1>1. CASE Start
  <2>1. UNCHANGED run /\ phase = "start" /\ measured' = <<>> /\ epoch' = 0 /\ log' = <<>> /\ best' = best
    BY <1>0, <1>1, StartDisk DEF Start, options
  <2>3. ~OfThisRun(best)'
    BY <2>1, NewRunBest DEF OfThisRun, Whole
  <2> QED BY <2>1, <2>3 DEF LogInv
<1>2. CASE StartFails
  BY <1>2 DEF StartFails, LogInv, Underway
<1>3. CASE TrainEpoch
  <2>1. UNCHANGED <<run, exp, disk, measured, epoch>> /\ phase = "epoch"
    BY <1>3 DEF TrainEpoch, options
  <2> QED BY <1>0, <2>1, SameDisk DEF LogInv, Underway, OfThisRun, Whole
<1>4. CASE Validate
  <2>1. PICK m \in Nat :
           /\ measured' = Append(measured, [epoch |-> epoch, metric |-> m])
           /\ [epoch |-> epoch, metric |-> m] \in Measure
           /\ best_val' = (IF m > best_val THEN m ELSE best_val)
           /\ phase' = (IF m > best_val THEN "saving" ELSE "log")
    BY <1>0, <1>4, ValidateFacts
  <2>u. UNCHANGED <<run, exp, disk, epoch>> /\ phase = "validate"
    BY <1>4 DEF Validate, options
  <2>2. UNCHANGED <<run, best, log, epoch>> /\ phase = "validate"
    BY <2>u, SameDisk
  <2>3. /\ Len(measured') = Len(measured) + 1
        /\ measured'[Len(measured) + 1] = [epoch |-> epoch, metric |-> m]
        /\ \A i \in 1..Len(measured) : measured'[i] = measured[i]
    BY <1>0, <2>1, AppendFacts DEF TrainType
  <2>4. /\ Len(log) = epoch
        /\ \A i \in 1..Len(log) : log[i] # -1 =>
             \E j \in 1..Len(measured) : measured[j].epoch = i - 1 /\ measured[j].metric = log[i]
        /\ \A j \in 1..Len(measured) :
             measured[j].epoch < Len(log) => log[measured[j].epoch + 1] = measured[j].metric
    BY <1>0, <2>2 DEF LogInv, Underway
  <2>5. OfThisRun(best) => \/ best.weights.epoch = Len(log)
                           \/ best.weights.epoch \in 0..Len(log)-1 /\ log[best.weights.epoch + 1] = best.metric
    BY <1>0, <2>2 DEF LogInv, Underway
  <2>6. 1..Len(measured) \subseteq 1..Len(measured')
    BY <1>n, <2>3
  <2>7. \A i \in 1..Len(log) : log[i] # -1 =>
          \E j \in 1..Len(measured') : measured'[j].epoch = i - 1 /\ measured'[j].metric = log[i]
    BY <2>3, <2>4, <2>6
  <2>8. \A j \in 1..Len(measured') :
          measured'[j].epoch < Len(log) => log[measured'[j].epoch + 1] = measured'[j].metric
    <3> SUFFICES ASSUME NEW j \in 1..Len(measured'), measured'[j].epoch < Len(log)
                 PROVE  log[measured'[j].epoch + 1] = measured'[j].metric
      OBVIOUS
    <3>1. j \in 1..Len(measured) \/ j = Len(measured) + 1 BY <1>n, <2>3
    <3>2. CASE j \in 1..Len(measured) BY <2>3, <2>4, <3>2
    <3>3. CASE j = Len(measured) + 1
      <4>1. measured'[j].epoch = epoch BY <2>3, <3>3
      <4> QED BY <1>e, <2>4, <4>1
    <3> QED BY <3>1, <3>2, <3>3
  <2>9. OfThisRun(best)' => OfThisRun(best)
    BY <2>2 DEF OfThisRun, Whole
  <2> QED BY <2>2, <2>4, <2>5, <2>7, <2>8, <2>9 DEF LogInv
<1>5. CASE NotValidated
  <2>1. UNCHANGED <<run, exp, disk, measured, epoch>> /\ phase = "validate"
    BY <1>5 DEF NotValidated, options
  <2> QED BY <1>0, <2>1, SameDisk DEF LogInv, Underway, OfThisRun, Whole
<1>6. CASE SaveBest
  <2>u. /\ UNCHANGED <<exp, epoch, measured>> /\ phase = "saving" /\ best_val \in Int
        /\ disk' = [disk EXCEPT ![exp].best = Checkpoint(best_val)]
    BY <1>0, <1>6 DEF SaveBest, options, TrainType
  <2>1. UNCHANGED <<epoch, measured, log>> /\ phase = "saving" /\ best' = Checkpoint(best_val)
    BY <1>0, <2>u, BestWritten
  <2>2. best'.weights.epoch = epoch
    BY <1>0, <2>u, <2>1, CheckpointFacts DEF WeightsInv
  <2> QED BY <1>0, <2>1, <2>2 DEF LogInv, Underway
<1>7. CASE LogRow
  <2> DEFINE v == IF Due THEN Last(measured).metric ELSE -1
  <2>1. UNCHANGED <<run, measured, best>> /\ phase = "log" /\ epoch' = epoch + 1 /\ log' = Append(log, v)
    <3>1. UNCHANGED <<run, measured>> /\ phase = "log" /\ epoch' = epoch + 1
      BY <1>7 DEF LogRow, options
    <3>2. v = Row BY DEF Row
    <3> HIDE DEF v
    <3> QED BY <1>7, <3>1, <3>2, LogRowDisk
  <2>2. /\ Len(log) = epoch
        /\ \A i \in 1..Len(log) : log[i] # -1 =>
             \E j \in 1..Len(measured) : measured[j].epoch = i - 1 /\ measured[j].metric = log[i]
        /\ \A j \in 1..Len(measured) :
             measured[j].epoch < Len(log) => log[measured[j].epoch + 1] = measured[j].metric
    BY <1>0, <2>1 DEF LogInv, Underway
  <2>3. OfThisRun(best) => \/ best.weights.epoch = Len(log)
                           \/ best.weights.epoch \in 0..Len(log)-1 /\ log[best.weights.epoch + 1] = best.metric
    BY <1>0, <2>1 DEF LogInv, Underway
  <2>4. \A j \in 1..Len(measured) : measured[j].epoch = epoch => v = measured[j].metric
    BY <2>1, CurrentIsLast
  <2>5. v # -1 => \E j \in 1..Len(measured) : measured[j].epoch = epoch /\ measured[j].metric = v
    <3> SUFFICES ASSUME v # -1 PROVE \E j \in 1..Len(measured) : measured[j].epoch = epoch /\ measured[j].metric = v
      OBVIOUS
    <3>1. Due OBVIOUS
    <3>2. measured # <<>> /\ measured[Len(measured)].epoch = epoch
      BY <1>0, <2>1, <3>1 DEF MeasuredInv
    <3>3. Len(measured) \in 1..Len(measured)
      BY <1>0, <1>n, <3>2 DEF TrainType
    <3> QED BY <2>4, <3>2, <3>3
  <2>6. v \in Int
    <3>1. CASE Due
      <4>1. measured # <<>> BY <1>0, <2>1, <3>1 DEF MeasuredInv
      <4>2. Len(measured) \in 1..Len(measured) BY <1>0, <1>n, <4>1 DEF TrainType
      <4> QED BY <1>m, <3>1, <4>2 DEF Last
    <3>2. CASE ~Due BY <3>2
    <3> QED BY <3>1, <3>2
  <2> HIDE DEF v
  <2>7. /\ Len(log') = epoch + 1 /\ log'[epoch + 1] = v
        /\ \A i \in 1..Len(log) : log'[i] = log[i]
    BY <1>e, <2>1, <2>2, <2>6, AppendFacts
  <2>8. \A i \in 1..Len(log') : log'[i] # -1 =>
          \E j \in 1..Len(measured) : measured[j].epoch = i - 1 /\ measured[j].metric = log'[i]
    <3> SUFFICES ASSUME NEW i \in 1..Len(log'), log'[i] # -1
                 PROVE  \E j \in 1..Len(measured) : measured[j].epoch = i - 1 /\ measured[j].metric = log'[i]
      OBVIOUS
    <3>1. i \in 1..Len(log) \/ i = epoch + 1 BY <1>e, <2>2, <2>7
    <3>2. CASE i \in 1..Len(log) BY <2>2, <2>7, <3>2
    <3>3. CASE i = epoch + 1
      <4>1. i - 1 = epoch BY <1>e, <3>3
      <4> QED BY <2>5, <2>7, <3>3, <4>1
    <3> QED BY <3>1, <3>2, <3>3
  <2>9. \A j \in 1..Len(measured) :
          measured[j].epoch < Len(log') => log'[measured[j].epoch + 1] = measured[j].metric
    <3> SUFFICES ASSUME NEW j \in 1..Len(measured), measured[j].epoch < epoch + 1
                 PROVE  log'[measured[j].epoch + 1] = measured[j].metric
      BY <2>7
    <3>1. measured[j].epoch \in Nat BY <1>m
    <3>2. CASE measured[j].epoch = epoch BY <2>4, <2>7, <3>2
    <3>3. CASE measured[j].epoch < epoch
      <4>1. log[measured[j].epoch + 1] = measured[j].metric BY <2>2, <3>3
      <4>2. measured[j].epoch + 1 \in 1..Len(log) BY <1>e, <2>2, <3>1, <3>3
      <4> QED BY <2>7, <4>1, <4>2
    <3> QED BY <1>e, <3>1, <3>2, <3>3
  <2>10. OfThisRun(best) => best.weights.epoch \in 0..Len(log')-1 /\ log'[best.weights.epoch + 1] = best.metric
    <3> SUFFICES ASSUME OfThisRun(best)
                 PROVE  best.weights.epoch \in 0..Len(log')-1 /\ log'[best.weights.epoch + 1] = best.metric
      OBVIOUS
    <3>1. CASE best.weights.epoch = Len(log)
      <4>1. PICK i \in 1..Len(measured) : best.weights.epoch = measured[i].epoch /\ best.metric = measured[i].metric
        BY <1>0, <2>1 DEF BestInv, BestOf, Underway
      <4>2. v = best.metric BY <2>2, <2>4, <3>1, <4>1
      <4> QED BY <1>e, <2>2, <2>7, <3>1, <4>2
    <3>2. CASE best.weights.epoch \in 0..Len(log)-1 /\ log[best.weights.epoch + 1] = best.metric
      <4>1. best.weights.epoch + 1 \in 1..Len(log) /\ best.weights.epoch \in 0..Len(log')-1
        BY <1>e, <2>2, <2>7, <3>2
      <4> QED BY <2>7, <3>2, <4>1
    <3> QED BY <2>3, <3>1, <3>2
  <2>11. OfThisRun(best)' => OfThisRun(best)
    BY <2>1 DEF OfThisRun, Whole
  <2> QED BY <2>1, <2>7, <2>8, <2>9, <2>10, <2>11 DEF LogInv
<1>8. CASE SaveFinal
  <2>1. /\ UNCHANGED <<run, exp, epoch, measured>> /\ phase = "epoch"
        /\ disk' = [disk EXCEPT ![exp].final = Checkpoint(-1)]
    BY <1>8 DEF SaveFinal, options
  <2>2. best' = best /\ log' = log
    BY <1>0, <2>1, FinalWritten
  <2> QED BY <1>0, <2>1, <2>2 DEF LogInv, Underway, OfThisRun, Whole
<1>9. CASE Killed
  <2>1. UNCHANGED <<run, epoch, measured, log>> /\ phase \in Loop
    BY <1>0, <1>9, KilledDisk DEF Killed, options, Loop
  <2>2. OfThisRun(best)' => OfThisRun(best) /\ best' = best
    BY <1>0, <1>9, <2>1, KilledDisk DEF OfThisRun, Whole
  <2> QED BY <1>0, <2>1, <2>2 DEF LogInv, Underway, Loop
<1>10. CASE Rerun
  BY <1>10 DEF Rerun, LogInv, Underway
<1>11. CASE UNCHANGED tvars
  <2>1. UNCHANGED <<run, exp, disk, measured, epoch, phase>>
    BY <1>11 DEF tvars, options
  <2> QED BY <1>0, <2>1, SameDisk DEF LogInv, Underway, OfThisRun, Whole
<1> QED
  BY <1>1, <1>2, <1>3, <1>4, <1>5, <1>6, <1>7, <1>8, <1>9, <1>10, <1>11 DEF TrainNext

-----------------------------------------------------------------------------
(* The invariant holds in every state of the two scripts.                  *)
LEMMA TrainInvariant == TrainSpec => []TrainInv
<1>1. TrainInv /\ [TrainNext]_tvars => TrainInv'
  BY StepType, StepSplit, StepWeights, StepMeasured, StepBest, StepLog, StepFinal DEF TrainInv
<1> QED BY InitInv, <1>1, PTL DEF TrainSpec

(* No sample is lost by a split; and in every directory best.pt was chosen *)
(* on samples its weights never saw, if every run behind the weights was   *)
(* trained on another directory than the one judged by, or split it as the *)
(* run that saved best.pt did.                                             *)
THEOREM SplitHoldsOut == TrainSpec => []HeldOut
<1>1. TrainInv => HeldOut
  <2> SUFFICES ASSUME TrainInv PROVE HeldOut OBVIOUS
  <2>0. TrainType /\ SplitInv BY DEF TrainInv
  <2>1. Underway /\ ~TwoCorpora(opt) => train \cup ValPart(Corpus(opt), opt) = Corpus(opt)
    BY <2>0, SplitFacts DEF SplitInv, TrainType
  <2>2. ASSUME NEW d \in ExpDirs, Whole(disk[d].best),
               \A p \in disk[d].best.weights.behind : Apart(p, disk[d].best.config)
        PROVE  disk[d].best.weights.seen \cap disk[d].best.judged = {}
    <3> DEFINE c == disk[d].best
    <3>1. c \in Checkpoints
      BY <2>0, <2>2, FolderFacts, WholeFacts
    <3>2. c.config \in Options /\ c.weights.behind \in SUBSET Options
      BY <3>1 DEF Checkpoints, Weights
    <3>3. SeenBy(c.weights) /\ c.judged = Judged(c.config) /\ \A p \in c.weights.behind : Apart(p, c.config)
      BY <2>0, <2>2 DEF SplitInv, SeenFile
    <3> HIDE DEF c
    <3>4. SUFFICES ASSUME NEW x \in c.weights.seen, x \in c.judged PROVE FALSE
      BY DEF c
    <3>5. PICK p \in c.weights.behind : x \in TrainSet(p)
      BY <3>3, <3>4 DEF SeenBy
    <3>6. p \in Options /\ Apart(p, c.config)
      BY <3>2, <3>3, <3>5
    <3>7. CASE p.data # JudgedDir(c.config)
      BY <3>2, <3>3, <3>4, <3>5, <3>6, <3>7, SplitFacts
    <3>8. CASE SameSplit(p, c.config)
      <4>1. ~TwoCorpora(p) /\ ~TwoCorpora(c.config)
        BY <3>8 DEF SameSplit
      <4>2. x \notin ValPart(Corpus(p), p)
        BY <3>5, <3>6, <4>1, SplitFacts
      <4>3. x \in ValPart(Corpus(c.config), c.config)
        BY <3>2, <3>3, <3>4, <4>1, SplitFacts
      <4> QED BY <3>8, <4>2, <4>3, SameSplitFacts
    <3> QED BY <3>6, <3>7, <3>8 DEF Apart
  <2> QED BY <2>1, <2>2 DEF HeldOut
<1> QED BY <1>1, TrainInvariant, PTL

(* best.pt is the earliest of the best epochs the run validated, and a     *)
(* kill leaves that, the one before it, or a torn file.                    *)
THEOREM BestIsEarliest == TrainSpec => []BestIsEarliestBest
<1>1. TrainInv => BestIsEarliestBest
  <2>1. TrainInv => BestInv
    BY DEF TrainInv
  <2> QED BY <2>1 DEF BestInv, BestIsEarliestBest
<1> QED BY <1>1, TrainInvariant, PTL

(* A finished run leaves the weights of its last epoch, and a best.pt that *)
(* was measured no worse than they were.                                   *)
THEOREM FinalIsNotBetter == TrainSpec => []FinalNotBetter
<1>1. TrainInv => FinalNotBetter
  <2> SUFFICES ASSUME TrainInv, phase = "done"
               PROVE  /\ OfThisRun(final) /\ final.weights.epoch = IF epochs = 0 THEN weights.epoch ELSE epochs - 1
                      /\ epochs > 0 => Last(measured).epoch = epochs - 1 /\ best.metric >= Last(measured).metric
    BY DEF FinalNotBetter
  <2>0. TrainType /\ FinalInv /\ BestInv /\ Underway BY DEF TrainInv, Underway
  <2>1. OfThisRun(final) /\ final.weights = weights
    BY <2>0 DEF FinalInv
  <2>2. CASE epochs = 0
    BY <2>1, <2>2
  <2>3. CASE epochs # 0
    <3>1. epochs > 0 BY <2>0, <2>3 DEF TrainType
    <3>2. weights.epoch = epochs - 1 /\ measured # <<>> /\ measured[Len(measured)].epoch = epochs - 1
      BY <2>0, <3>1 DEF FinalInv
    <3>3. Len(measured) \in 1..Len(measured) /\ measured[Len(measured)].metric \in Nat
      BY <2>0, <3>2, MeasureFacts
    <3>4. measured[Len(measured)].metric <= best_val /\ best.metric = best_val
      BY <2>0, <3>2, <3>3 DEF BestInv
    <3>5. Last(measured) = measured[Len(measured)] /\ best_val \in Int
      BY <2>0 DEF Last, TrainType
    <3>6. best.metric >= Last(measured).metric
      BY <3>3, <3>4, <3>5
    <3> QED BY <2>1, <2>3, <3>2, <3>5, <3>6
  <2> QED BY <2>2, <2>3
<1> QED BY <1>1, TrainInvariant, PTL

(* The log has a row per finished epoch, a metric in exactly the validated *)
(* ones, and that of best.pt in its row.                                   *)
THEOREM LogTellsTheBest == TrainSpec => []LogTellsBest
<1>1. TrainInv => LogTellsBest
  <2> SUFFICES ASSUME TrainInv, Underway
               PROVE  /\ Len(log) = epoch
                      /\ \A i \in DOMAIN log :
                           log[i] # -1 <=> \E j \in DOMAIN measured : measured[j] = [epoch |-> i - 1, metric |-> log[i]]
                      /\ OfThisRun(best) => \/ best.weights.epoch = Len(log)
                                            \/ best.weights.epoch < Len(log) /\ log[best.weights.epoch + 1] = best.metric
    BY DEF LogTellsBest
  <2>0. TrainType /\ LogInv BY DEF TrainInv
  <2>1. DOMAIN measured = 1..Len(measured) /\ DOMAIN log = 1..Len(log)
    BY <2>0, LenProperties, FolderFacts DEF TrainType
  <2>2. \A j \in 1..Len(measured) : measured[j] \in Measure
    BY <2>0 DEF TrainType
  <2>3. Len(log) = epoch /\ epoch \in Nat
    BY <2>0 DEF LogInv, TrainType
  <2>4. ASSUME NEW i \in 1..Len(log), log[i] # -1
        PROVE  \E j \in 1..Len(measured) : measured[j] = [epoch |-> i - 1, metric |-> log[i]]
    <3>1. PICK j \in 1..Len(measured) : measured[j].epoch = i - 1 /\ measured[j].metric = log[i]
      BY <2>0, <2>4 DEF LogInv
    <3>2. measured[j] = [epoch |-> i - 1, metric |-> log[i]]
      BY <2>2, <3>1 DEF Measure
    <3> QED BY <3>2
  <2>5. ASSUME NEW i \in 1..Len(log), NEW j \in 1..Len(measured), measured[j] = [epoch |-> i - 1, metric |-> log[i]]
        PROVE  log[i] # -1
    <3>1. measured[j].metric = log[i] /\ measured[j].metric \in Nat
      BY <2>2, <2>5 DEF Measure
    <3> QED BY <3>1
  <2>6. OfThisRun(best) => \/ best.weights.epoch = Len(log)
                           \/ best.weights.epoch < Len(log) /\ log[best.weights.epoch + 1] = best.metric
    BY <2>0, <2>3 DEF LogInv
  <2> QED BY <2>1, <2>3, <2>4, <2>5, <2>6
<1> QED BY <1>1, TrainInvariant, PTL
=============================================================================
