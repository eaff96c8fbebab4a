------------------------------ MODULE SpecDataset ------------------------------
(***************************************************************************)
(* The life of a spec dataset: scripts/build_dataset.py writes one         *)
(* directory per spec, SpecDataset.from_directory (src/model/data.py)      *)
(* reads them back, and scripts/eval_checkpoint.py sets each sample        *)
(* against the gcc baseline of a directory.  A build may be killed, and    *)
(* run again over the same directory with other arguments.                 *)
(***************************************************************************)
EXTENDS Naturals, Sequences, FiniteSets

CONSTANTS NSeeds,   \* bound: seeds tried
          Profiles, \* what sample_spec makes of each seed: functions from seeds to kinds
          Sizes,    \* values of --n
          MaxSize,  \* bound: the largest of them
          Limits,   \* values of --n-eval
          MaxRuns,  \* bound: builds over one directory
          Kill,     \* whether a build may be killed
          None, Torn \* no such file; a file cut short

Seeds == 1..NSeeds
Kinds == {"poor",    \* no informative spec, or no input without undefined behaviour
          "plain",   \* within the vocabulary of the model
          "conv"}    \* its body converts between widths

ASSUME DatasetAssumption ==
  /\ NSeeds \in Nat /\ Profiles \subseteq [Seeds -> Kinds]
  /\ MaxSize \in Nat /\ Sizes \subseteq 1..MaxSize /\ Limits \subseteq Nat \ {0} /\ MaxRuns \in Nat \ {0}
  /\ Kill \in BOOLEAN /\ None \notin Seeds /\ Torn \notin Seeds /\ None # Torn

VARIABLES profile, limit,  \* fixed
          n, gcc_ok, run,  \* --n, whether gcc was found; number of the build
          phase,           \* "sample", "write", "built", "dead", "load", "eval", "raised", "over"
          seed_iter,       \* the seed to try next; in "write", that of the spec
          written,         \* directories complete in this build
          part,            \* files of the current directory written
          disk,            \* directory number -> file -> the seed it was made from
          manifest,        \* n_specs of manifest.json, or None
          next_dir,        \* from_directory: directories looked at
          samples,         \* the samples loaded: the spec's seed and its directory
          compared         \* the loop of eval_checkpoint: baseline set against each sample

conf   == <<profile, limit, n, gcc_ok, run>>
build  == <<seed_iter, written, part>>
stored == <<disk, manifest>>
reader == <<next_dir, samples, compared>>
dvars  == <<conf, phase, build, stored, reader>>

DirIds == 0..MaxSize-1
Files  == {"spec", "io", "gcc"}

-----------------------------------------------------------------------------
DatasetInit ==
  /\ profile \in Profiles /\ limit \in Limits
  /\ n \in Sizes /\ gcc_ok \in BOOLEAN /\ run = 1
  /\ phase = "sample" /\ seed_iter = 1 /\ written = 0 /\ part = 0
  /\ disk = [d \in DirIds |-> [f \in Files |-> None]] /\ manifest = None
  /\ next_dir = 0 /\ samples = <<>> /\ compared = <<>>

(* sample_spec fails, or no input of the spec has a value: next seed.      *)
SkipSeed ==
  /\ phase = "sample" /\ written < n /\ seed_iter \in Seeds
  /\ profile[seed_iter] = "poor"
  /\ seed_iter' = seed_iter + 1
  /\ UNCHANGED <<conf, phase, written, part, stored, reader>>

TakeSeed ==
  /\ phase = "sample" /\ written < n /\ seed_iter \in Seeds
  /\ profile[seed_iter] # "poor"
  /\ phase' = "write"
  /\ UNCHANGED <<conf, build, stored, reader>>

WriteSpec ==
  /\ phase = "write" /\ part = 0
  /\ disk' = [disk EXCEPT ![written]["spec"] = seed_iter]
  /\ part' = 1
  /\ UNCHANGED <<conf, phase, seed_iter, written, manifest, reader>>

WriteIo ==
  /\ phase = "write" /\ part = 1
  /\ disk' = [disk EXCEPT ![written]["io"] = seed_iter]
  /\ part' = 2
  /\ UNCHANGED <<conf, phase, seed_iter, written, manifest, reader>>

(* The baseline: not made without gcc; when gcc_o2 raises, only            *)
(* ref_gcc_o2.error is written.                                            *)
WriteBaseline ==
  /\ phase = "write" /\ part = 2
  /\ \/ gcc_ok /\ disk' = [disk EXCEPT ![written]["gcc"] = seed_iter]
     \/ UNCHANGED disk
  /\ part' = 3
  /\ UNCHANGED <<conf, phase, seed_iter, written, manifest, reader>>

(* Slip: the directory is counted before the seed is known to be good.     *)
CountSeed ==
  /\ phase = "write" /\ part = 3
  /\ written' = seed_iter /\ seed_iter' = seed_iter + 1 /\ part' = 0
  /\ phase' = "sample"
  /\ UNCHANGED <<conf, stored, reader>>

NextSpec ==
  /\ phase = "write" /\ part = 3
  /\ written' = written + 1 /\ seed_iter' = seed_iter + 1 /\ part' = 0
  /\ phase' = "sample"
  /\ UNCHANGED <<conf, stored, reader>>

WriteManifest ==
  /\ phase = "sample" /\ written >= n
  /\ manifest' = written
  /\ phase' = "built"
  /\ UNCHANGED <<conf, build, disk, reader>>

(* Killed, perhaps in the middle of writing a file.                        *)
Killed ==
  /\ Kill /\ phase \in {"sample", "write"}
  /\ phase' = "dead"
  /\ \/ UNCHANGED disk
     \/ \E f \in Files :
          /\ phase = "write" /\ <<part, f>> \in {<<0, "spec">>, <<1, "io">>, <<2, "gcc">>}
          /\ f = "gcc" => gcc_ok
          /\ disk' = [disk EXCEPT ![written][f] = Torn]
  /\ UNCHANGED <<conf, build, manifest, reader>>

(* Another build over the same directory, with a seed, a size and a        *)
(* toolchain of its own.                                                   *)
Rebuild ==
  /\ phase \in {"built", "dead"} /\ run < MaxRuns
  /\ run' = run + 1 /\ n' \in Sizes /\ gcc_ok' \in BOOLEAN /\ seed_iter' \in Seeds
  /\ written' = 0 /\ part' = 0 /\ phase' = "sample"
  /\ UNCHANGED <<profile, limit, stored, reader>>

-----------------------------------------------------------------------------
(* from_directory, over the directories in sorted order.                   *)
Load ==
  /\ phase \in {"built", "dead"}
  /\ phase' = "load"
  /\ UNCHANGED <<conf, build, stored, reader>>

(* Slip: the limit counts directories.                                     *)
MoreDirs == next_dir \in DirIds /\ next_dir < limit
More == next_dir \in DirIds /\ Len(samples) < limit

SpecFile == disk[next_dir]["spec"]

(* No spec.json, or a body outside the vocabulary: passed over.            *)
PassOver ==
  /\ phase = "load" /\ More
  /\ SpecFile = None \/ (SpecFile \in Seeds /\ profile[SpecFile] = "conv")
  /\ next_dir' = next_dir + 1
  /\ UNCHANGED <<conf, phase, build, stored, samples, compared>>

(* A short spec.json: JSONDecodeError, outside the try.                    *)
LoadRaises ==
  /\ phase = "load" /\ More
  /\ SpecFile = Torn
  /\ phase' = "raised"
  /\ UNCHANGED <<conf, build, stored, reader>>

LoadSample ==
  /\ phase = "load" /\ More
  /\ SpecFile \in Seeds /\ profile[SpecFile] = "plain"
  /\ samples' = Append(samples, [seed |-> SpecFile, dir |-> next_dir])
  /\ next_dir' = next_dir + 1
  /\ UNCHANGED <<conf, phase, build, stored, compared>>

LoadDone ==
  /\ phase = "load" /\ ~More
  /\ phase' = "eval"
  /\ UNCHANGED <<conf, build, stored, reader>>

(* One sample whose code was verified: it is set against the baseline of   *)
(* the directory with the sample's number, if that has one.  Slip: of the  *)
(* directory after it.                                                     *)
DirAfter(i) == i + 1
BaselineDir(i) == i

EvalSample ==
  /\ phase = "eval" /\ Len(compared) < Len(samples)
  /\ \/ compared' = Append(compared, None)    \* not generated, lowered or verified
     \/ LET d == BaselineDir(Len(compared)) IN
        compared' = Append(compared, IF d \in DirIds THEN disk[d]["gcc"] ELSE None)
  /\ UNCHANGED <<conf, phase, build, stored, next_dir, samples>>

EvalDone ==
  /\ phase = "eval" /\ Len(compared) = Len(samples)
  /\ phase' = "over"
  /\ UNCHANGED <<conf, build, stored, reader>>

DatasetNext ==
  \/ SkipSeed \/ TakeSeed \/ WriteSpec \/ WriteIo \/ WriteBaseline \/ NextSpec
  \/ WriteManifest \/ Killed \/ Rebuild
  \/ Load \/ PassOver \/ LoadRaises \/ LoadSample \/ LoadDone \/ EvalSample \/ EvalDone

DatasetSpec == DatasetInit /\ [][DatasetNext]_dvars

-----------------------------------------------------------------------------
(* The specs on disk that the model can handle, in directory order.        *)
PlainDirs == {d \in DirIds : disk[d]["spec"] \in Seeds /\ profile[disk[d]["spec"]] = "plain"}

(* Loading loses no spec and repeats none: the samples are the first specs *)
(* of the dataset within the vocabulary, whatever lies between them.       *)
LoadsSupported ==
  phase = "eval" =>
    /\ Len(samples) = IF Cardinality(PlainDirs) < limit THEN Cardinality(PlainDirs) ELSE limit
    /\ \A i \in 1..Len(samples) :
         /\ samples[i].dir \in PlainDirs /\ disk[samples[i].dir]["spec"] = samples[i].seed
         /\ Cardinality({d \in PlainDirs : d < samples[i].dir}) = i - 1

(* "manifest.json records counts ... so a model trainer can audit what     *)
(* it's consuming without rescanning subdirectories": after a build into   *)
(* an empty directory n_specs is the number of specs there are to load.    *)
ManifestAudits ==
  phase = "built" /\ run = 1 => manifest = Cardinality({d \in DirIds : disk[d]["spec"] # None})

(* The cost comparison is between two programs for one spec: the baseline  *)
(* a sample is set against was compiled from that sample's spec.           *)
OwnBaseline ==
  \A i \in 1..Len(compared) : compared[i] \in Seeds => compared[i] = samples[i].seed

(* It is so as long as the directory was built once and the loader passed  *)
(* over nothing.                                                           *)
OwnBaselinePlain ==
  run = 1 /\ (\A s \in Seeds : profile[s] # "conv") => OwnBaseline
=============================================================================
