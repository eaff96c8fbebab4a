------------------------------ MODULE AnghaIngest ------------------------------
(***************************************************************************)
(* src/scripts/ingest_anghabench.py: the main process feeds C files to a   *)
(* process pool, keeps a window of futures in flight, and commits accepted *)
(* results to the corpus directory, one file after another.  The process   *)
(* may be killed at any moment and run again over the same directory,      *)
(* which load_corpus (src/model/train_leetcode.py) then reads.             *)
(***************************************************************************)
EXTENDS Naturals, Sequences, FiniteSets, Functions, Orders

CONSTANTS NFiles,    \* .c files found, numbered in shuffled order
          Verdicts,  \* possible outcomes: functions from files to a function name or Rejected
          Rejected,  \* _process_one returns None
          Stem,      \* file name without directory, per file
          Targets,   \* values of --target
          Chunk,     \* futures kept in flight (256)
          Workers,   \* --workers
          MaxRuns,   \* bound: runs of the script over one directory
          Kill, Break, \* whether the process may be killed, and a worker die
          None, Torn   \* no such file; a file cut short

Files == 1..NFiles

ASSUME IngestAssumption ==
  /\ NFiles \in Nat /\ Targets \subseteq Nat
  /\ Chunk \in Nat \ {0} /\ Workers \in Nat \ {0} /\ MaxRuns \in Nat \ {0}
  /\ Kill \in BOOLEAN /\ Break \in BOOLEAN
  /\ None \notin Files /\ Torn \notin Files /\ None # Torn

VARIABLES verdict, target,  \* fixed for the behaviour
          run,              \* number of the current run
          phase,            \* where main() is
          idx,              \* files submitted
          in_flight,        \* futures not yet looked at, oldest first
          finished, lost,   \* futures that are done; those without a result
          batch,            \* the list "done" being drained
          decided,          \* files whose result was looked at
          seen_fn_names, accepted,
          written,          \* files of the current directory written so far
          disk              \* the corpus directory

fixed == <<verdict, target, run>>
queue == <<idx, in_flight, batch, decided>>
pool  == <<finished, lost>>
saved == <<seen_fn_names, accepted, written, disk>>
ivars == <<fixed, phase, queue, pool, saved>>

(* The files of one directory, in the order _commit writes them.  Slip:    *)
(* the signature first.                                                    *)
SignatureFirst == <<"signature", "source", "asm", "meta">>
Parts == <<"source", "asm", "signature", "meta">>

(* A directory is named by next_seq, which is accepted, and the stem.      *)
DirName(f) == <<accepted, Stem[f]>>
Dir(d) == IF d \in DOMAIN disk THEN disk[d] ELSE [p \in Range(Parts) |-> None]
Put(d, p, content) ==
  [e \in DOMAIN disk \cup {d} |-> IF e = d THEN [Dir(d) EXCEPT ![p] = content] ELSE disk[e]]

(* Unfinished futures; the pool runs them in order, Workers at a time.     *)
Unfinished == 1..idx \ finished
Running(f) == f \in Unfinished /\ Cardinality({g \in Unfinished : g < f}) < Workers

-----------------------------------------------------------------------------
IngestInit ==
  /\ verdict \in Verdicts /\ target \in Targets
  /\ run = 1 /\ disk = <<>> /\ phase = "head"
  /\ idx = 0 /\ in_flight = <<>> /\ batch = <<>> /\ decided = {}
  /\ finished = {} /\ lost = {}
  /\ seen_fn_names = {} /\ accepted = 0 /\ written = 0

(* The outer while: both conditions are tested here and nowhere else.      *)
LoopHead ==
  /\ phase = "head"
  /\ phase' = IF accepted < target /\ idx < NFiles THEN "refill" ELSE "closing"
  /\ UNCHANGED <<fixed, queue, pool, saved>>

(* The inner while.  Slips: no look at the length of files; the index is   *)
(* not advanced.                                                           *)
CanSubmitPastEnd == phase = "refill" /\ Len(in_flight) < Chunk
CanSubmit == phase = "refill" /\ Len(in_flight) < Chunk /\ idx < NFiles

SubmitSame ==
  /\ CanSubmit /\ lost = {}
  /\ in_flight' = Append(in_flight, idx + 1)
  /\ UNCHANGED <<fixed, phase, idx, batch, decided, pool, saved>>

Submit ==
  /\ CanSubmit
  /\ lost = {}
  /\ idx' = idx + 1
  /\ in_flight' = Append(in_flight, idx + 1)
  /\ UNCHANGED <<fixed, phase, batch, decided, pool, saved>>

(* submit() on a broken pool raises, and nothing catches it.               *)
SubmitRaises ==
  /\ CanSubmit
  /\ lost # {}
  /\ phase' = "dead"
  /\ UNCHANGED <<fixed, queue, pool, saved>>

(* Split in_flight into done and still; with nothing done, take the oldest *)
(* future, whose result() then blocks.  The done() calls are taken as one  *)
(* look at the pool.  Slip: those still running are forgotten.             *)
Ready == Among(in_flight, finished)
NoneStill == <<>>
Still == IF Ready # <<>> THEN Among(in_flight, Files \ finished) ELSE Tail(in_flight)

Poll ==
  /\ phase = "refill"
  /\ Len(in_flight) = Chunk \/ idx = NFiles
  /\ batch' = IF Ready # <<>> THEN Ready ELSE <<Head(in_flight)>>
  /\ in_flight' = Still
  /\ phase' = "drain"
  /\ UNCHANGED <<fixed, idx, decided, pool, saved>>

(* A result is dropped when the worker rejected the file or died with it,  *)
(* or the corpus already has the function.  Slip: no look at the names.    *)
DroppedByWorker(f) == f \in lost \/ verdict[f] = Rejected
Dropped(f) == f \in lost \/ verdict[f] = Rejected \/ verdict[f] \in seen_fn_names

NextOfBatch == phase = "drain" /\ batch # <<>> /\ Head(batch) \in finished

Drop ==
  /\ NextOfBatch
  /\ Dropped(Head(batch))
  /\ batch' = Tail(batch)
  /\ decided' = decided \cup {Head(batch)}
  /\ UNCHANGED <<fixed, phase, idx, in_flight, pool, saved>>

Accept ==
  /\ NextOfBatch
  /\ ~Dropped(Head(batch))
  /\ seen_fn_names' = seen_fn_names \cup {verdict[Head(batch)]}
  /\ phase' = "commit"
  /\ UNCHANGED <<fixed, queue, pool, accepted, written, disk>>

(* _commit, one write_text at a time.                                      *)
WritePart ==
  /\ phase = "commit" /\ written < Len(Parts)
  /\ disk' = Put(DirName(Head(batch)), Parts[written + 1], Head(batch))
  /\ written' = written + 1
  /\ UNCHANGED <<fixed, phase, queue, pool, seen_fn_names, accepted>>

(* Count it; on reaching the target the rest of the batch is abandoned.    *)
(* Slip: no break.                                                         *)
CommittedOnwards ==
  /\ phase = "commit" /\ written = Len(Parts)
  /\ accepted' = accepted + 1 /\ written' = 0
  /\ decided' = decided \cup {Head(batch)}
  /\ batch' = Tail(batch) /\ phase' = "drain"
  /\ UNCHANGED <<fixed, idx, in_flight, pool, seen_fn_names, disk>>

Committed ==
  /\ phase = "commit" /\ written = Len(Parts)
  /\ accepted' = accepted + 1
  /\ written' = 0
  /\ decided' = decided \cup {Head(batch)}
  /\ IF accepted + 1 >= target THEN batch' = <<>> /\ phase' = "head"
                               ELSE batch' = Tail(batch) /\ phase' = "drain"
  /\ UNCHANGED <<fixed, idx, in_flight, pool, seen_fn_names, disk>>

BatchDone ==
  /\ phase = "drain" /\ batch = <<>>
  /\ phase' = "head"
  /\ UNCHANGED <<fixed, queue, pool, saved>>

(* Leaving the with block waits for every future; then the manifest.       *)
Close ==
  /\ phase = "closing" /\ Unfinished = {}
  /\ phase' = "done"
  /\ UNCHANGED <<fixed, queue, pool, saved>>

-----------------------------------------------------------------------------
(* The pool and the operator.                                              *)
Up == phase \notin {"done", "dead"}

WorkerEnds(f) ==
  /\ Up /\ Running(f)
  /\ finished' = finished \cup {f}
  /\ UNCHANGED <<fixed, phase, queue, lost, saved>>

(* A worker dies: every unfinished future gets BrokenProcessPool.          *)
PoolBreaks ==
  /\ Break /\ Up /\ Unfinished # {}
  /\ finished' = 1..idx
  /\ lost' = lost \cup Unfinished
  /\ UNCHANGED <<fixed, phase, queue, saved>>

(* The script is killed; a write in progress leaves a short file behind.   *)
Killed ==
  /\ Kill /\ Up
  /\ phase' = "dead"
  /\ \/ UNCHANGED disk
     \/ /\ phase = "commit" /\ written < Len(Parts)
        /\ disk' = Put(DirName(Head(batch)), Parts[written + 1], Torn)
  /\ UNCHANGED <<fixed, queue, pool, seen_fn_names, accepted, written>>

(* It is run again with the same arguments over the same directory.        *)
Rerun ==
  /\ phase \in {"done", "dead"} /\ run < MaxRuns
  /\ run' = run + 1 /\ phase' = "head"
  /\ idx' = 0 /\ in_flight' = <<>> /\ batch' = <<>> /\ decided' = {}
  /\ finished' = {} /\ lost' = {}
  /\ seen_fn_names' = {} /\ accepted' = 0 /\ written' = 0
  /\ UNCHANGED <<verdict, target, disk>>

Main == \/ LoopHead \/ Submit \/ SubmitRaises \/ Poll \/ Drop \/ Accept
        \/ WritePart \/ Committed \/ BatchDone \/ Close

IngestNext == Main \/ (\E f \in Files : WorkerEnds(f)) \/ PoolBreaks \/ Killed \/ Rerun

(* main() runs whenever it can, and every file ends: gcc has a timeout of  *)
(* 15 s.  Nothing forces a kill, a broken pool or another run.             *)
IngestSpec ==
  /\ IngestInit /\ [][IngestNext]_ivars
  /\ WF_ivars(Main) /\ \A f \in Files : WF_ivars(WorkerEnds(f))

-----------------------------------------------------------------------------
IngestTypeOK ==
  /\ phase \in {"head", "refill", "drain", "commit", "closing", "done", "dead"}
  /\ idx \in 0..NFiles /\ finished \subseteq 1..idx /\ lost \subseteq finished
  /\ Range(in_flight) \subseteq 1..idx /\ Range(batch) \subseteq 1..idx /\ decided \subseteq 1..idx
  /\ accepted \in 0..NFiles /\ written \in 0..Len(Parts)
  /\ \A d \in DOMAIN disk : disk[d] \in [Range(Parts) -> Files \cup {None, Torn}]

(* The window: no future is looked at twice or forgotten while the loop    *)
(* runs, and no more than Chunk are held (a batch abandoned at the target  *)
(* excepted).                                                              *)
WindowAccounts ==
  accepted < target =>
    /\ Range(in_flight) \cup Range(batch) \cup decided = 1..idx
    /\ Len(in_flight) + Len(batch) + Cardinality(decided) = idx
    /\ Len(in_flight) + Len(batch) <= Chunk

(* What load_corpus takes from the directory: the three files it reads     *)
(* exist.  A short signature.json is not parseable, which it does not      *)
(* catch.                                                                  *)
Loaded ==
  {d \in DOMAIN disk : \A p \in {"source", "asm", "signature"} : disk[d][p] # None}

Loadable == \A d \in Loaded : disk[d]["signature"] # Torn

(* The next three are about a run into an empty directory; what an earlier *)
(* run left there is neither read nor cleared.                             *)
FirstRun == run = 1

(* After a run, killed or not, load_corpus sees whole samples only: the    *)
(* signature is written after the files it describes, so a directory it    *)
(* can parse has source and assembly of the same file.                     *)
LoadedWhole ==
  FirstRun /\ ~Up /\ Loadable =>
    \A d \in Loaded : \E f \in Files : \A p \in {"source", "asm", "signature"} : disk[d][p] = f

(* The corpus has one sample per function name (seen_fn_names), so the     *)
(* same function cannot be both in the training and the held-out split.    *)
OnePerFunction ==
  FirstRun =>
    \A d, e \in Loaded :
      disk[d]["signature"] \in Files /\ disk[e]["signature"] \in Files
        /\ verdict[disk[d]["signature"]] = verdict[disk[e]["signature"]] => d = e

(* The manifest's n_accepted is what is in the directory.                  *)
ManifestCounts ==
  FirstRun /\ phase = "done" => accepted = Cardinality(Loaded) /\ accepted <= target

(* Every run comes to an end: no future is waited for that nobody will     *)
(* finish, and the while loop makes progress on every pass.                *)
Terminates == []<>~Up
=============================================================================
