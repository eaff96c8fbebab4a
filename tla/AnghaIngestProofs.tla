--------------------------- MODULE AnghaIngestProofs ---------------------------
(***************************************************************************)
(* Theorems about the AnghaBench ingest, for any number of files, outcome  *)
(* of the workers, order in which they finish, target, window, number of   *)
(* workers, and wherever the script is killed or the pool breaks.          *)
(***************************************************************************)
EXTENDS AnghaIngest, OrderProofs

Part == {"source", "asm", "signature", "meta"}
Phases == {"head", "refill", "drain", "commit", "closing", "done", "dead"}

IngestShape ==
  /\ phase \in Phases /\ run \in Nat \ {0} /\ target \in Nat
  /\ idx \in 0..NFiles /\ finished \subseteq 1..idx /\ lost \subseteq finished
  /\ accepted \in Nat /\ written \in 0..4
  /\ \A d \in DOMAIN disk : disk[d] \in [Part -> Files \cup {None, Torn}]

(* Files whose results main() holds but has not looked at.                 *)
Held == Range(in_flight) \cup Range(batch)

(* Every file submitted is in one place; in all of them until the target   *)
(* is reached, when the rest of a batch is abandoned.                      *)
QueueInv ==
  /\ in_flight \in Seq(Files) /\ IsInjective(in_flight)
  /\ batch \in Seq(Files) /\ IsInjective(batch)
  /\ decided \subseteq Files
  /\ Range(in_flight) \cap Range(batch) = {} /\ Held \cap decided = {}
  /\ Held \cup decided \subseteq 1..idx
  /\ accepted < target => 1..idx \subseteq Held \cup decided /\ Cardinality(Held) <= Chunk

(* Where main() is.                                                        *)
PlaceInv ==
  /\ phase \in {"refill", "drain", "commit"} => accepted < target
  /\ phase \in {"head", "refill", "closing", "done"} => batch = <<>>
  /\ phase = "commit" => batch # <<>>
  /\ phase = "refill" /\ in_flight = <<>> => idx < NFiles
  /\ phase \notin {"commit", "dead"} => written = 0
  /\ accepted <= target /\ accepted <= Cardinality(decided)

(* The directories that are finished, in a first run; the others are the   *)
(* one being written.                                                      *)
Kept == {d \in DOMAIN disk : d[1] # accepted}

(* A directory that _commit is writing, or was when the script was killed. *)
Begun(d) ==
  /\ phase \in {"commit", "dead"} /\ batch # <<>> /\ d = DirName(Head(batch))
  /\ \A k \in 1..4 :
       /\ k <= written => disk[d][Parts[k]] = Head(batch)
       /\ k > written => disk[d][Parts[k]] \in {None, Torn}
       /\ k > written /\ phase = "commit" => disk[d][Parts[k]] = None
  /\ \A e \in Kept : verdict[disk[e]["signature"]] # verdict[Head(batch)]

KeptInv ==
  /\ \A d \in DOMAIN disk : d[1] \in 0..accepted
  /\ IsFiniteSet(Kept) /\ Cardinality(Kept) = accepted
  /\ \A d \in Kept : \E f \in Files : disk[d] = [p \in Part |-> f] /\ verdict[f] \in seen_fn_names
  /\ \A d, e \in Kept : verdict[disk[d]["signature"]] = verdict[disk[e]["signature"]] => d = e

BegunInv ==
  /\ \A d \in DOMAIN disk \ Kept : Begun(d)
  /\ phase = "commit" =>
       /\ verdict[Head(batch)] \in seen_fn_names
       /\ \A e \in Kept : verdict[disk[e]["signature"]] # verdict[Head(batch)]
       /\ written > 0 => DirName(Head(batch)) \in DOMAIN disk

DiskInv == FirstRun => KeptInv /\ BegunInv

IngestInv == IngestShape /\ QueueInv /\ PlaceInv /\ DiskInv

-----------------------------------------------------------------------------
(* The four files of a directory (ingest_anghabench.py, _commit).          *)
LEMMA PartsFacts ==
  /\ Len(Parts) = 4 /\ Range(Parts) = Part
  /\ \A k \in 1..4 : Parts[k] \in Part
  /\ \A p \in Part : \E k \in 1..4 : Parts[k] = p
  /\ \A k, l \in 1..4 : Parts[k] = Parts[l] => k = l
<1>1. Len(Parts) = 4 /\ DOMAIN Parts = 1..4
  BY DEF Parts
<1>2. Parts[1] = "source" /\ Parts[2] = "asm" /\ Parts[3] = "signature" /\ Parts[4] = "meta"
  BY DEF Parts
<1>3. \A k \in 1..4 : k = 1 \/ k = 2 \/ k = 3 \/ k = 4
  OBVIOUS
<1>4. 1 \in 1..4 /\ 2 \in 1..4 /\ 3 \in 1..4 /\ 4 \in 1..4
  OBVIOUS
<1>5. \A k \in 1..4 : Parts[k] \in Part
  BY <1>2, <1>3 DEF Part
<1>6. \A p \in Part : \E k \in 1..4 : Parts[k] = p
  BY <1>2, <1>4 DEF Part
<1>7. \A k, l \in 1..4 : Parts[k] = Parts[l] => k = l
  BY <1>2, <1>3
<1>8. Range(Parts) = Part
  BY <1>1, <1>5, <1>6 DEF Range
<1> QED BY <1>1, <1>5, <1>6, <1>7, <1>8

(* Writing one file of one directory changes that one only.                *)
PutChanges(d, p, c) ==
  /\ DOMAIN Put(d, p, c) = DOMAIN disk \cup {d}
  /\ \A e \in DOMAIN disk : e # d => Put(d, p, c)[e] = disk[e]
  /\ Put(d, p, c)[d] \in [Part -> Files \cup {None, Torn}]
  /\ Put(d, p, c)[d][p] = c
  /\ \A q \in Part : q # p => Put(d, p, c)[d][q] = IF d \in DOMAIN disk THEN disk[d][q] ELSE None

LEMMA PutFacts ==
  ASSUME NEW d, NEW p \in Part, NEW c \in Files \cup {None, Torn}, IngestShape
  PROVE  PutChanges(d, p, c)
<1>1. Dir(d) = IF d \in DOMAIN disk THEN disk[d] ELSE [q \in Part |-> None]
  BY PartsFacts DEF Dir
<1>2. Dir(d) \in [Part -> Files \cup {None, Torn}]
  BY <1>1 DEF IngestShape
<1>3. /\ DOMAIN Put(d, p, c) = DOMAIN disk \cup {d}
      /\ \A e \in DOMAIN disk : e # d => Put(d, p, c)[e] = disk[e]
      /\ Put(d, p, c)[d] = [Dir(d) EXCEPT ![p] = c]
  BY DEF Put
<1>4. [Dir(d) EXCEPT ![p] = c] \in [Part -> Files \cup {None, Torn}]
  BY <1>2
<1>5. \A q \in Part : [Dir(d) EXCEPT ![p] = c][q] = IF q = p THEN c ELSE Dir(d)[q]
  BY <1>2
<1> QED BY <1>1, <1>3, <1>4, <1>5 DEF PutChanges

(* So the directory stays one of files of the corpus, short files and      *)
(* missing ones.                                                           *)
PutTyped(d, p, c) ==
  \A e \in DOMAIN Put(d, p, c) : Put(d, p, c)[e] \in [Part -> Files \cup {None, Torn}]

LEMMA PutKeepsType ==
  ASSUME NEW d, NEW p \in Part, NEW c \in Files \cup {None, Torn}, IngestShape
  PROVE  PutTyped(d, p, c)
<1>1. PutChanges(d, p, c)
  BY PutFacts
<1>2. \A e \in DOMAIN disk : disk[e] \in [Part -> Files \cup {None, Torn}]
  BY DEF IngestShape
<1> QED BY <1>1, <1>2 DEF PutTyped, PutChanges

(* What main() holds is a finite set of submitted files.                   *)
LEMMA HeldFinite ==
  ASSUME IngestShape, QueueInv
  PROVE  /\ IsFiniteSet(Held) /\ IsFiniteSet(decided)
         /\ Cardinality(Held) = Len(in_flight) + Len(batch)
         /\ Cardinality(Held) \in Nat /\ Cardinality(decided) \in Nat
         /\ Len(in_flight) \in Nat /\ Len(batch) \in Nat
         /\ Cardinality(Held \cup decided) = Cardinality(Held) + Cardinality(decided)
         /\ IsFiniteSet(1..idx) /\ Cardinality(1..idx) = idx
         /\ Cardinality(decided) <= idx
<1>1. IsFiniteSet(1..idx) /\ Cardinality(1..idx) = idx
  <2>1. idx \in Nat
    BY IngestAssumption DEF IngestShape
  <2> QED BY <2>1, FS_Interval
<1>2. IsFiniteSet(decided) /\ Cardinality(decided) <= Cardinality(1..idx)
  <2>1. decided \subseteq 1..idx
    BY DEF QueueInv
  <2> HIDE DEF QueueInv
  <2> QED BY <1>1, <2>1, FS_Subset
<1>3. /\ IsFiniteSet(Range(in_flight)) /\ Cardinality(Range(in_flight)) = Len(in_flight)
      /\ IsFiniteSet(Range(batch)) /\ Cardinality(Range(batch)) = Len(batch)
  BY InjectiveLength DEF QueueInv
<1>4. Len(in_flight) \in Nat /\ Len(batch) \in Nat /\ Cardinality(decided) \in Nat
  BY <1>2, FS_CardinalityType, LenProperties DEF QueueInv
<1>6. IsFiniteSet(Held) /\ Cardinality(Held) = Len(in_flight) + Len(batch)
  <2>1. Range(in_flight) \cap Range(batch) = {}
    BY DEF QueueInv
  <2> DEFINE A == Range(in_flight)
             B == Range(batch)
  <2>2. /\ IsFiniteSet(A) /\ IsFiniteSet(B) /\ A \cap B = {} /\ Held = A \cup B
        /\ Cardinality(A) = Len(in_flight) /\ Cardinality(B) = Len(batch)
    BY <2>1, <1>3 DEF Held
  <2> HIDE DEF A, B, QueueInv, Held
  <2>3. IsFiniteSet(A \cup B) /\ Cardinality(A \cup B) = Cardinality(A) + Cardinality(B)
    BY <2>2, DisjointUnion
  <2> QED BY <2>2, <2>3
<1>7. Cardinality(Held \cup decided) = Cardinality(Held) + Cardinality(decided)
  <2>1. Held \cap decided = {}
    BY DEF QueueInv
  <2> QED BY <2>1, <1>2, <1>6, DisjointUnion
<1> QED BY <1>1, <1>2, <1>4, <1>6, <1>7

-----------------------------------------------------------------------------
LEMMA IngestInitInv == IngestInit => IngestInv
<1> SUFFICES ASSUME IngestInit PROVE IngestInv
  OBVIOUS
<1>1. DOMAIN disk = {} /\ Range(in_flight) = {} /\ Range(batch) = {}
  BY DEF IngestInit, Range
<1>2. IngestShape
  BY <1>1, IngestAssumption DEF IngestInit, IngestShape, Phases
<1>3. QueueInv
  <2>1. <<>> \in Seq(Files) /\ IsInjective(<<>>)
    BY EmptySeq DEF IsInjective
  <2>2. Held = {} /\ Cardinality(Held) = 0
    BY <1>1, FS_EmptySet DEF Held
  <2>3. 1..idx = {}
    BY DEF IngestInit
  <2> QED BY <1>1, <2>1, <2>2, <2>3, IngestAssumption DEF IngestInit, QueueInv
<1>4. PlaceInv
  BY FS_EmptySet, IngestAssumption DEF IngestInit, PlaceInv
<1>5. Kept = {}
  BY <1>1 DEF Kept
<1>6. KeptInv
  BY <1>1, <1>5, FS_EmptySet DEF IngestInit, KeptInv
<1>7. BegunInv
  BY <1>1 DEF IngestInit, BegunInv
<1> QED BY <1>2, <1>3, <1>4, <1>6, <1>7 DEF IngestInv, DiskInv

LEMMA ShapeStep == IngestInv /\ [IngestNext]_ivars => IngestShape'
<1> SUFFICES ASSUME IngestInv, [IngestNext]_ivars PROVE IngestShape'
  OBVIOUS
<1>0. /\ IngestShape /\ NFiles \in Nat /\ 1..idx \subseteq 1..idx+1
      /\ \A i \in 0..NFiles : i < NFiles => i + 1 \in 0..NFiles
  BY IngestAssumption DEF IngestInv, IngestShape
<1>1. CASE LoopHead
  BY <1>0, <1>1 DEF LoopHead, fixed, queue, pool, saved, IngestShape, Phases
<1>2. CASE Submit
  <2>1. idx' \in 0..NFiles /\ 1..idx \subseteq 1..idx'
    BY <1>0, <1>2 DEF Submit, CanSubmit, IngestShape
  <2> QED BY <1>0, <1>2, <2>1 DEF Submit, fixed, pool, saved, IngestShape
<1>3. CASE SubmitRaises
  BY <1>0, <1>3 DEF SubmitRaises, fixed, queue, pool, saved, IngestShape, Phases
<1>4. CASE Poll
  <2>1. UNCHANGED <<run, target, idx, finished, lost, accepted, written, disk>> /\ phase' = "drain"
    BY <1>4 DEF Poll, fixed, pool, saved
  <2> QED BY <1>0, <2>1 DEF IngestShape, Phases
<1>5. CASE Drop
  BY <1>0, <1>5 DEF Drop, fixed, pool, saved, IngestShape
<1>6. CASE Accept
  BY <1>0, <1>6 DEF Accept, fixed, queue, pool, IngestShape, Phases
<1>7. CASE WritePart
  <2>1. /\ phase = "commit" /\ written \in 0..3 /\ batch # <<>> /\ batch \in Seq(Files)
        /\ written + 1 \in 1..4 /\ written + 1 \in 0..4
    BY <1>0, <1>7, PartsFacts DEF WritePart, IngestInv, IngestShape, PlaceInv, QueueInv
  <2>2. Head(batch) \in Files \cup {None, Torn}
    BY <2>1, HeadTailProperties
  <2>3. /\ disk' = Put(DirName(Head(batch)), Parts[written + 1], Head(batch))
        /\ Parts[written + 1] \in Part
    BY <1>7, <2>1, PartsFacts DEF WritePart
  <2>4. PutTyped(DirName(Head(batch)), Parts[written + 1], Head(batch))
    BY <1>0, <2>2, <2>3, PutKeepsType
  <2>5. \A d \in DOMAIN disk' : disk'[d] \in [Part -> Files \cup {None, Torn}]
    BY <2>3, <2>4 DEF PutTyped
  <2>6. UNCHANGED <<phase, run, target, idx, finished, lost, accepted>> /\ written' \in 0..4
    BY <1>7, <2>1 DEF WritePart, fixed, queue, pool
  <2> QED BY <1>0, <2>5, <2>6 DEF IngestShape
<1>8. CASE Committed
  <2>1. accepted' \in Nat /\ written' = 0 /\ phase' \in Phases
    BY <1>0, <1>8 DEF Committed, IngestShape, Phases
  <2>2. UNCHANGED <<run, target, idx, finished, lost, disk>>
    BY <1>8 DEF Committed, fixed, pool
  <2> QED BY <1>0, <2>1, <2>2 DEF IngestShape
<1>9. CASE BatchDone
  BY <1>0, <1>9 DEF BatchDone, fixed, queue, pool, saved, IngestShape, Phases
<1>10. CASE Close
  BY <1>0, <1>10 DEF Close, fixed, queue, pool, saved, IngestShape, Phases
<1>11. CASE \E f \in Files : WorkerEnds(f)
  <2>1. PICK f \in Files : WorkerEnds(f)
    BY <1>11
  <2>2. f \in 1..idx /\ finished' = finished \cup {f}
    BY <2>1 DEF WorkerEnds, Running, Unfinished
  <2>3. UNCHANGED <<phase, run, target, idx, lost, accepted, written, disk>>
    BY <2>1 DEF WorkerEnds, fixed, queue, saved
  <2> QED BY <1>0, <2>2, <2>3 DEF IngestShape
<1>12. CASE PoolBreaks
  <2>1. finished' = 1..idx /\ lost' \subseteq 1..idx
    BY <1>0, <1>12 DEF PoolBreaks, Unfinished, IngestShape
  <2>2. UNCHANGED <<phase, run, target, idx, accepted, written, disk>>
    BY <1>12 DEF PoolBreaks, fixed, queue, saved
  <2> QED BY <1>0, <2>1, <2>2 DEF IngestShape
<1>13. CASE Killed
  <2>1. UNCHANGED <<run, target, idx, finished, lost, accepted, written>> /\ phase' = "dead"
    BY <1>13 DEF Killed, fixed, queue, pool
  <2>2. \A d \in DOMAIN disk' : disk'[d] \in [Part -> Files \cup {None, Torn}]
    <3>1. CASE UNCHANGED disk
      BY <1>0, <3>1 DEF IngestShape
    <3>2. CASE /\ phase = "commit" /\ written < Len(Parts)
               /\ disk' = Put(DirName(Head(batch)), Parts[written + 1], Torn)
      <4>1. written + 1 \in 1..4
        BY <1>0, <3>2, PartsFacts DEF IngestShape
      <4>2. Torn \in Files \cup {None, Torn} /\ Parts[written + 1] \in Part
        BY <4>1, PartsFacts
      <4>3. PutTyped(DirName(Head(batch)), Parts[written + 1], Torn)
        BY <1>0, <4>2, PutKeepsType
      <4> QED BY <3>2, <4>3 DEF PutTyped
    <3> QED BY <1>13, <3>1, <3>2 DEF Killed
  <2> QED BY <1>0, <2>1, <2>2 DEF IngestShape, Phases
<1>14. CASE Rerun
  <2>1. /\ run' = run + 1 /\ phase' = "head" /\ idx' = 0 /\ finished' = {} /\ lost' = {}
        /\ accepted' = 0 /\ written' = 0 /\ UNCHANGED <<target, disk>>
    BY <1>14 DEF Rerun
  <2> QED BY <1>0, <2>1 DEF IngestShape, Phases
<1>15. CASE UNCHANGED ivars
  BY <1>0, <1>15 DEF ivars, fixed, queue, pool, saved, IngestShape
<1> QED BY <1>1, <1>2, <1>3, <1>4, <1>5, <1>6, <1>7, <1>8, <1>9, <1>10, <1>11, <1>12,
           <1>13, <1>14, <1>15 DEF IngestNext, Main

-----------------------------------------------------------------------------
LEMMA QueueSame ==
  QueueInv /\ UNCHANGED <<in_flight, batch, decided, idx, accepted, target>> => QueueInv'
  BY DEF QueueInv, Held

(* Taking the oldest result off the batch: in both ways it is decided.     *)
LEMMA QueueDecide ==
  ASSUME IngestShape, QueueInv, batch # <<>>, batch' = Tail(batch),
         decided' = decided \cup {Head(batch)}, UNCHANGED <<in_flight, idx, target>>,
         accepted' < target => accepted < target
  PROVE  QueueInv'
<1>1. /\ Head(batch) \in Range(batch) /\ Head(batch) \in Files
      /\ Tail(batch) \in Seq(Files) /\ IsInjective(Tail(batch))
      /\ Range(Tail(batch)) = Range(batch) \ {Head(batch)}
  BY TailFacts DEF QueueInv
<1>2. Head(batch) \notin Range(in_flight) /\ Head(batch) \notin decided /\ Head(batch) \in 1..idx
  BY <1>1 DEF QueueInv, Held
<1>3. Held' = Held \ {Head(batch)} /\ Held' \cup decided' = Held \cup decided
  BY <1>1, <1>2 DEF Held
<1>4. Held' \cap decided' = {} /\ Range(in_flight') \cap Range(batch') = {}
  BY <1>1, <1>2, <1>3 DEF QueueInv
<1>5. Cardinality(Held) <= Chunk => Cardinality(Held') <= Chunk
  <2>1. IsFiniteSet(Held) /\ Cardinality(Held) \in Nat
    BY HeldFinite
  <2>2. Held' \subseteq Held
    BY <1>3
  <2>3. Cardinality(Held') <= Cardinality(Held) /\ Cardinality(Held') \in Nat
    BY <2>1, <2>2, FS_Subset, FS_CardinalityType
  <2> QED BY <2>1, <2>3, IngestAssumption
<1>6. in_flight' \in Seq(Files) /\ IsInjective(in_flight') /\ batch' \in Seq(Files) /\ IsInjective(batch')
  BY <1>1 DEF QueueInv
<1>7. decided' \subseteq Files /\ Held' \cup decided' \subseteq 1..idx'
  BY <1>1, <1>3 DEF QueueInv
<1>8. accepted' < target' => 1..idx' \subseteq Held' \cup decided' /\ Cardinality(Held') <= Chunk
  BY <1>3, <1>5 DEF QueueInv
<1> QED BY <1>4, <1>6, <1>7, <1>8 DEF QueueInv

(* Splitting the window (ingest_anghabench.py, "done" and "still").        *)
LEMMA PollSplits ==
  ASSUME IngestShape, QueueInv, PlaceInv, Poll
  PROVE  /\ in_flight' \in Seq(Files) /\ IsInjective(in_flight')
         /\ batch' \in Seq(Files) /\ IsInjective(batch')
         /\ Range(in_flight') \cap Range(batch') = {} /\ Held' = Range(in_flight)
<1>1. in_flight \in Seq(Files) /\ IsInjective(in_flight)
  BY DEF QueueInv
<1>2. Range(in_flight) \subseteq Files
  BY <1>1, LenProperties, ElementOfSeq DEF Range
<1>3. /\ Ready \in Seq(Files) /\ IsInjective(Ready) /\ Range(Ready) = Range(in_flight) \cap finished
  BY <1>1, AmongFacts DEF Ready
<1>4. CASE Ready # <<>>
  <2>1. batch' = Ready /\ in_flight' = Among(in_flight, Files \ finished)
    BY <1>4 DEF Poll, Still
  <2>2. /\ in_flight' \in Seq(Files) /\ IsInjective(in_flight')
        /\ Range(in_flight') = Range(in_flight) \cap (Files \ finished)
    BY <1>1, <2>1, AmongFacts
  <2> QED BY <1>2, <1>3, <2>1, <2>2 DEF Held
<1>5. CASE Ready = <<>>
  <2>1. in_flight # <<>>
    <3>1. phase = "refill" /\ (Len(in_flight) = Chunk \/ idx = NFiles)
      BY DEF Poll
    <3>2. CASE Len(in_flight) = Chunk
      BY <3>2, IngestAssumption, EmptySeq
    <3>3. CASE idx = NFiles
      BY <3>1, <3>3, IngestAssumption DEF PlaceInv
    <3> QED BY <3>1, <3>2, <3>3
  <2>2. batch' = <<Head(in_flight)>> /\ in_flight' = Tail(in_flight)
    BY <1>5 DEF Poll, Still
  <2>3. /\ Head(in_flight) \in Range(in_flight) /\ Head(in_flight) \in Files
        /\ Tail(in_flight) \in Seq(Files) /\ IsInjective(Tail(in_flight))
        /\ Range(Tail(in_flight)) = Range(in_flight) \ {Head(in_flight)}
    BY <1>1, <2>1, TailFacts
  <2>4. /\ <<Head(in_flight)>> \in Seq(Files) /\ IsInjective(<<Head(in_flight)>>)
        /\ Range(<<Head(in_flight)>>) = {Head(in_flight)}
    BY <2>3 DEF IsInjective, Range
  <2> QED BY <2>2, <2>3, <2>4 DEF Held
<1> QED BY <1>4, <1>5

LEMMA QueueStep == IngestInv /\ [IngestNext]_ivars => QueueInv'
<1> SUFFICES ASSUME IngestInv, [IngestNext]_ivars PROVE QueueInv'
  OBVIOUS
<1>0. IngestShape /\ QueueInv /\ PlaceInv
  BY DEF IngestInv
<1>1. CASE LoopHead
  BY <1>0, <1>1, QueueSame DEF LoopHead, fixed, queue, saved
<1>2. CASE Submit
  <2>1. /\ phase = "refill" /\ idx < NFiles /\ idx' = idx + 1 /\ in_flight' = Append(in_flight, idx + 1)
        /\ Len(in_flight) < Chunk /\ UNCHANGED <<batch, decided, accepted, target>>
    BY <1>2 DEF Submit, CanSubmit, fixed, saved
  <2>2. batch = <<>> /\ Range(batch) = {}
    BY <1>0, <2>1 DEF PlaceInv, Range
  <2>3. /\ idx \in Nat /\ idx + 1 \in Files /\ idx + 1 \notin 1..idx
        /\ 1..idx+1 = (1..idx) \cup {idx + 1}
    BY <1>0, <2>1, IngestAssumption DEF IngestShape, Files
  <2>4. idx + 1 \notin Held /\ idx + 1 \notin decided /\ idx + 1 \notin Range(in_flight)
    BY <1>0, <2>3 DEF QueueInv, Held
  <2>5. /\ in_flight' \in Seq(Files) /\ IsInjective(in_flight')
        /\ Range(in_flight') = Range(in_flight) \cup {idx + 1}
    <3>1. in_flight \in Seq(Files) /\ IsInjective(in_flight)
      BY <1>0 DEF QueueInv
    <3> QED BY <2>1, <2>3, <2>4, <3>1, AppendFacts
  <2>6. Held' = Held \cup {idx + 1} /\ Held' = Range(in_flight')
    BY <2>1, <2>2, <2>5 DEF Held
  <2>7. Cardinality(Held') <= Chunk
    <3>1. Cardinality(Range(in_flight')) = Len(in_flight')
      BY <2>5, InjectiveLength
    <3>2. Len(in_flight') = Len(in_flight) + 1 /\ Len(in_flight) \in Nat
      BY <1>0, <2>1, <2>3, AppendProperties, LenProperties DEF QueueInv
    <3>3. Held' = Range(in_flight')
      BY <2>6
    <3>4. Cardinality(Held') = Len(in_flight) + 1
      BY <3>1, <3>2, <3>3, Zenon
    <3>5. Len(in_flight) < Chunk
      BY <2>1
    <3> HIDE DEF Held
    <3> QED BY <3>2, <3>4, <3>5, IngestAssumption
  <2>8. Held' \cap decided' = {} /\ Held' \cup decided' \subseteq 1..idx'
    BY <1>0, <2>1, <2>3, <2>4, <2>6 DEF QueueInv
  <2>9. accepted' < target' => 1..idx' \subseteq Held' \cup decided'
    BY <1>0, <2>1, <2>3, <2>6 DEF QueueInv
  <2>10. /\ batch' \in Seq(Files) /\ IsInjective(batch') /\ decided' \subseteq Files
         /\ Range(in_flight') \cap Range(batch') = {}
    BY <1>0, <2>1, <2>2 DEF QueueInv
  <2> QED BY <2>5, <2>7, <2>8, <2>9, <2>10 DEF QueueInv
<1>3. CASE SubmitRaises
  BY <1>0, <1>3, QueueSame DEF SubmitRaises, fixed, queue, saved
<1>4. CASE Poll
  <2>1. /\ in_flight' \in Seq(Files) /\ IsInjective(in_flight')
        /\ batch' \in Seq(Files) /\ IsInjective(batch')
        /\ Range(in_flight') \cap Range(batch') = {} /\ Held' = Range(in_flight)
    BY <1>0, <1>4, PollSplits
  <2>2. phase = "refill" /\ UNCHANGED <<idx, decided, accepted, target>>
    BY <1>4 DEF Poll, fixed, saved
  <2>3. Held = Range(in_flight)
    BY <1>0, <2>2 DEF PlaceInv, Held, Range
  <2> QED BY <1>0, <2>1, <2>2, <2>3 DEF QueueInv
<1>5. CASE Drop
  <2>1. /\ batch # <<>> /\ batch' = Tail(batch) /\ decided' = decided \cup {Head(batch)}
        /\ UNCHANGED <<in_flight, idx, target, accepted>>
    BY <1>5 DEF Drop, NextOfBatch, fixed, saved
  <2> QED BY <1>0, <2>1, QueueDecide
<1>6. CASE Accept
  BY <1>0, <1>6, QueueSame DEF Accept, fixed, queue
<1>7. CASE WritePart
  BY <1>0, <1>7, QueueSame DEF WritePart, fixed, queue
<1>8. CASE Committed
  <2>1. /\ phase = "commit" /\ accepted' = accepted + 1 /\ decided' = decided \cup {Head(batch)}
        /\ UNCHANGED <<in_flight, idx, target>> /\ accepted \in Nat /\ target \in Nat
    BY <1>0, <1>8 DEF Committed, fixed, IngestShape
  <2>2. batch # <<>>
    BY <1>0, <2>1 DEF PlaceInv
  <2>3. CASE accepted + 1 >= target
    <3>1. batch' = <<>> /\ ~(accepted' < target') /\ Range(batch') = {}
      BY <1>8, <2>1, <2>3 DEF Committed, Range
    <3>2. Head(batch) \in Range(batch) /\ Head(batch) \in Files
      BY <1>0, <2>2, TailFacts DEF QueueInv
    <3>3. Held' \subseteq Held \ {Head(batch)} /\ Head(batch) \in 1..idx
      BY <1>0, <2>1, <3>1, <3>2 DEF QueueInv, Held
    <3>4. batch' \in Seq(Files) /\ IsInjective(batch')
      BY <3>1, EmptySeq DEF IsInjective
    <3>5. Held' \cap decided' = {} /\ Held' \cup decided' \subseteq 1..idx' /\ decided' \subseteq Files
      BY <1>0, <2>1, <3>2, <3>3 DEF QueueInv
    <3>6. in_flight' \in Seq(Files) /\ IsInjective(in_flight') /\ Range(in_flight') \cap Range(batch') = {}
      BY <1>0, <2>1, <3>1 DEF QueueInv
    <3> QED BY <3>1, <3>4, <3>5, <3>6 DEF QueueInv
  <2>4. CASE ~(accepted + 1 >= target)
    <3>1. batch' = Tail(batch) /\ (accepted' < target => accepted < target)
      BY <1>8, <2>1, <2>4 DEF Committed
    <3> QED BY <1>0, <2>1, <2>2, <3>1, QueueDecide
  <2> QED BY <2>3, <2>4
<1>9. CASE BatchDone
  BY <1>0, <1>9, QueueSame DEF BatchDone, fixed, queue, saved
<1>10. CASE Close
  BY <1>0, <1>10, QueueSame DEF Close, fixed, queue, saved
<1>11. CASE \E f \in Files : WorkerEnds(f)
  BY <1>0, <1>11, QueueSame DEF WorkerEnds, fixed, queue, saved
<1>12. CASE PoolBreaks
  BY <1>0, <1>12, QueueSame DEF PoolBreaks, fixed, queue, saved
<1>13. CASE Killed
  BY <1>0, <1>13, QueueSame DEF Killed, fixed, queue
<1>14. CASE Rerun
  <2>1. in_flight' = <<>> /\ batch' = <<>> /\ decided' = {} /\ idx' = 0
    BY <1>14 DEF Rerun
  <2>2. <<>> \in Seq(Files) /\ IsInjective(<<>>) /\ Range(<<>>) = {}
    BY EmptySeq DEF IsInjective, Range
  <2>3. Held' = {} /\ Cardinality(Held') = 0 /\ 1..idx' = {}
    BY <2>1, <2>2, FS_EmptySet DEF Held
  <2> QED BY <2>1, <2>2, <2>3, IngestAssumption DEF QueueInv
<1>15. CASE UNCHANGED ivars
  BY <1>0, <1>15, QueueSame DEF ivars, fixed, queue, saved
<1> QED BY <1>1, <1>2, <1>3, <1>4, <1>5, <1>6, <1>7, <1>8, <1>9, <1>10, <1>11, <1>12,
           <1>13, <1>14, <1>15 DEF IngestNext, Main

-----------------------------------------------------------------------------
LEMMA PlaceStep == IngestInv /\ [IngestNext]_ivars => PlaceInv'
<1> SUFFICES ASSUME IngestInv, [IngestNext]_ivars PROVE PlaceInv'
  OBVIOUS
<1>0. IngestShape /\ QueueInv /\ PlaceInv
  BY DEF IngestInv
<1>00. accepted \in Nat /\ target \in Nat /\ idx \in Nat
  BY <1>0, IngestAssumption DEF IngestShape
<1>d. ASSUME batch # <<>>, decided' = decided \cup {Head(batch)}
      PROVE  Cardinality(decided') = Cardinality(decided) + 1 /\ Cardinality(decided) \in Nat
  <2>1. Head(batch) \in Range(batch)
    BY <1>0, <1>d, TailFacts DEF QueueInv
  <2>2. Head(batch) \notin decided
    BY <1>0, <2>1 DEF QueueInv, Held
  <2>3. IsFiniteSet(decided) /\ Cardinality(decided) \in Nat
    BY <1>0, HeldFinite
  <2> QED BY <1>d, <2>2, <2>3, FS_AddElement
<1>1. CASE LoopHead
  BY <1>0, <1>1 DEF LoopHead, fixed, queue, saved, PlaceInv
<1>2. CASE Submit
  <2>1. /\ phase = "refill" /\ in_flight' = Append(in_flight, idx + 1) /\ idx < NFiles
        /\ UNCHANGED <<phase, batch, decided, accepted, target, written>>
    BY <1>2 DEF Submit, CanSubmit, fixed, saved
  <2>2. in_flight' # <<>>
    <3>1. idx + 1 \in Files
      BY <1>00, <2>1, IngestAssumption DEF Files
    <3> QED BY <1>0, <2>1, <3>1, AppendProperties DEF QueueInv
  <2> QED BY <1>0, <2>1, <2>2 DEF PlaceInv
<1>3. CASE SubmitRaises
  BY <1>0, <1>3 DEF SubmitRaises, fixed, queue, saved, PlaceInv
<1>4. CASE Poll
  <2>1. phase = "refill" /\ phase' = "drain" /\ UNCHANGED <<decided, accepted, target, written>>
    BY <1>4 DEF Poll, fixed, saved
  <2> QED BY <1>0, <2>1 DEF PlaceInv
<1>5. CASE Drop
  <2>1. /\ phase = "drain" /\ batch # <<>> /\ decided' = decided \cup {Head(batch)}
        /\ UNCHANGED <<phase, accepted, target, written>>
    BY <1>5 DEF Drop, NextOfBatch, fixed, saved
  <2>2. accepted <= Cardinality(decided')
    BY <1>0, <1>00, <1>d, <2>1 DEF PlaceInv
  <2> QED BY <1>0, <2>1, <2>2 DEF PlaceInv
<1>6. CASE Accept
  BY <1>0, <1>6 DEF Accept, NextOfBatch, fixed, queue, PlaceInv
<1>7. CASE WritePart
  BY <1>0, <1>7 DEF WritePart, fixed, queue, PlaceInv
<1>8. CASE Committed
  <2>1. /\ phase = "commit" /\ accepted' = accepted + 1 /\ decided' = decided \cup {Head(batch)}
        /\ written' = 0 /\ target' = target
        /\ IF accepted + 1 >= target THEN batch' = <<>> /\ phase' = "head"
                                     ELSE batch' = Tail(batch) /\ phase' = "drain"
    BY <1>8 DEF Committed, fixed
  <2>2. batch # <<>> /\ accepted < target /\ accepted <= Cardinality(decided)
    BY <1>0, <2>1 DEF PlaceInv
  <2>3. accepted' <= Cardinality(decided') /\ accepted' <= target'
    BY <1>00, <1>d, <2>1, <2>2
  <2>4. phase' = "drain" => accepted' < target'
    BY <1>00, <2>1
  <2> QED BY <2>1, <2>3, <2>4 DEF PlaceInv
<1>9. CASE BatchDone
  BY <1>0, <1>9 DEF BatchDone, fixed, queue, saved, PlaceInv
<1>10. CASE Close
  BY <1>0, <1>10 DEF Close, fixed, queue, saved, PlaceInv
<1>11. CASE \E f \in Files : WorkerEnds(f)
  BY <1>0, <1>11 DEF WorkerEnds, fixed, queue, saved, PlaceInv
<1>12. CASE PoolBreaks
  BY <1>0, <1>12 DEF PoolBreaks, fixed, queue, saved, PlaceInv
<1>13. CASE Killed
  <2>1. phase' = "dead" /\ UNCHANGED <<in_flight, batch, idx, decided, accepted, target>>
    BY <1>13 DEF Killed, fixed, queue
  <2> QED BY <1>0, <2>1 DEF PlaceInv
<1>14. CASE Rerun
  <2>1. /\ phase' = "head" /\ batch' = <<>> /\ decided' = {} /\ accepted' = 0 /\ written' = 0
        /\ target' = target
    BY <1>14 DEF Rerun
  <2> QED BY <1>00, <2>1, FS_EmptySet DEF PlaceInv
<1>15. CASE UNCHANGED ivars
  BY <1>0, <1>15 DEF ivars, fixed, queue, saved, PlaceInv
<1> QED BY <1>1, <1>2, <1>3, <1>4, <1>5, <1>6, <1>7, <1>8, <1>9, <1>10, <1>11, <1>12,
           <1>13, <1>14, <1>15 DEF IngestNext, Main

-----------------------------------------------------------------------------
LEMMA DiskSame ==
  DiskInv /\ UNCHANGED <<verdict, run, phase, batch, seen_fn_names, accepted, written, disk>> => DiskInv'
  BY DEF DiskInv, FirstRun, KeptInv, BegunInv, Kept, Begun, DirName

(* Outside _commit every directory is finished, and stays so.              *)
LEMMA DiskQuiet ==
  ASSUME DiskInv, phase \notin {"commit", "dead"}, phase' # "commit",
         UNCHANGED <<verdict, run, seen_fn_names, accepted, disk>>
  PROVE  DiskInv'
<1> SUFFICES ASSUME FirstRun PROVE KeptInv' /\ BegunInv'
  BY DEF DiskInv, FirstRun
<1>1. KeptInv /\ BegunInv
  BY DEF DiskInv
<1>2. Kept' = Kept
  BY DEF Kept
<1>3. DOMAIN disk \ Kept = {}
  BY <1>1 DEF BegunInv, Begun
<1>4. KeptInv'
  BY <1>1, <1>2 DEF KeptInv
<1>5. BegunInv'
  BY <1>2, <1>3 DEF BegunInv
<1> QED BY <1>4, <1>5

(* Writing the next file, or a short one, of the directory in hand.        *)
LEMMA DiskWrite ==
  ASSUME IngestShape, DiskInv, FirstRun, phase = "commit", batch # <<>>, written \in 0..3,
         Head(batch) \in Files,
         NEW c \in Files \cup {None, Torn},
         disk' = Put(DirName(Head(batch)), Parts[written + 1], c),
         UNCHANGED <<verdict, batch, seen_fn_names, accepted>>,
         \/ phase' = "commit" /\ c = Head(batch) /\ written' = written + 1
         \/ phase' = "dead" /\ c = Torn /\ written' = written
  PROVE  KeptInv' /\ BegunInv'
<1> DEFINE cur == DirName(Head(batch))
           p == Parts[written + 1]
<1>1. KeptInv /\ BegunInv
  BY DEF DiskInv
<1>2. cur = <<accepted, Stem[Head(batch)]>> /\ cur[1] = accepted /\ cur \notin Kept /\ accepted \in Nat
  BY DEF DirName, Kept, IngestShape
<1>3. written + 1 \in 1..4 /\ p \in Part
  BY PartsFacts
<1>c. disk' = Put(cur, p, c) /\ PutChanges(cur, p, c)
  BY <1>3, PutFacts
<1>4. DOMAIN disk' = DOMAIN disk \cup {cur}
  BY <1>c DEF PutChanges
<1>5. \A e \in DOMAIN disk : e # cur => disk'[e] = disk[e]
  BY <1>c DEF PutChanges
<1>6. disk'[cur][p] = c
  BY <1>c DEF PutChanges
<1>7. \A q \in Part : q # p => disk'[cur][q] = IF cur \in DOMAIN disk THEN disk[cur][q] ELSE None
  BY <1>c DEF PutChanges
<1>8. cur' = cur
  BY DEF DirName
<1> HIDE DEF cur, p
<1>9. Kept' = Kept /\ \A e \in Kept : e \in DOMAIN disk /\ disk'[e] = disk[e]
  BY <1>2, <1>4, <1>5 DEF Kept
<1>10. KeptInv'
  <2>1. \A d \in DOMAIN disk' : d[1] \in 0..accepted
    BY <1>1, <1>2, <1>4 DEF KeptInv
  <2>2. \A d \in Kept' : \E f \in Files : disk'[d] = [q \in Part |-> f] /\ verdict[f] \in seen_fn_names
    BY <1>1, <1>9 DEF KeptInv
  <2>3. \A d, e \in Kept' : verdict[disk'[d]["signature"]] = verdict[disk'[e]["signature"]] => d = e
    BY <1>1, <1>9 DEF KeptInv
  <2>4. IsFiniteSet(Kept') /\ Cardinality(Kept') = accepted
    BY <1>1, <1>9 DEF KeptInv
  <2> QED BY <2>1, <2>2, <2>3, <2>4 DEF KeptInv
<1>11. \A e \in Kept : verdict[disk[e]["signature"]] # verdict[Head(batch)]
  BY <1>1 DEF BegunInv
<1>12. \A d \in DOMAIN disk \ Kept : Begun(d)
  BY <1>1 DEF BegunInv
<1>13. \A e \in Kept' : verdict'[disk'[e]["signature"]] # verdict'[Head(batch')]
  BY <1>9, <1>11
<1>14. \A k \in 1..4 : k # written + 1 =>
         disk'[cur][Parts[k]] = IF cur \in DOMAIN disk THEN disk[cur][Parts[k]] ELSE None
  BY <1>3, <1>7, PartsFacts DEF p
<1>15. ASSUME NEW d \in DOMAIN disk' \ Kept' PROVE Begun(d)'
  <2>1. d = cur
    <3>1. CASE d \in DOMAIN disk
      BY <1>9, <1>12, <3>1 DEF Begun, cur
    <3>2. CASE d \notin DOMAIN disk
      BY <1>4, <3>2
    <3> QED BY <3>1, <3>2
  <2>2. ASSUME cur \in DOMAIN disk, NEW k \in 1..4
        PROVE  /\ k <= written => disk[cur][Parts[k]] = Head(batch)
               /\ k > written => disk[cur][Parts[k]] = None
    BY <1>2, <1>12, <2>2 DEF Begun
  <2>3. cur \notin DOMAIN disk => written = 0
    BY <1>1 DEF BegunInv, cur
  <2>4. ASSUME NEW k \in 1..4
        PROVE  /\ k <= written' => disk'[d][Parts[k]] = Head(batch)
               /\ k > written' => disk'[d][Parts[k]] \in {None, Torn}
               /\ k > written' /\ phase' = "commit" => disk'[d][Parts[k]] = None
    <3>1. CASE k = written + 1
      BY <1>6, <2>1, <3>1 DEF p
    <3>2. CASE k # written + 1 /\ cur \in DOMAIN disk
      BY <1>14, <2>1, <2>2, <3>2
    <3>3. CASE k # written + 1 /\ cur \notin DOMAIN disk
      BY <1>14, <2>1, <2>3, <3>3
    <3> QED BY <3>1, <3>2, <3>3
  <2>5. phase' \in {"commit", "dead"} /\ batch' # <<>> /\ d = DirName(Head(batch))'
    BY <1>8, <2>1 DEF cur
  <2> QED BY <1>13, <2>4, <2>5 DEF Begun
<1>16. phase' = "commit" => /\ verdict'[Head(batch')] \in seen_fn_names'
                            /\ DirName(Head(batch))' \in DOMAIN disk'
  BY <1>1, <1>4, <1>8 DEF BegunInv, cur
<1>17. BegunInv'
  BY <1>13, <1>15, <1>16 DEF BegunInv
<1> QED BY <1>10, <1>17

(* The directory in hand is complete when it is counted.                   *)
LEMMA DiskCommitted ==
  ASSUME IngestInv, FirstRun, Committed
  PROVE  KeptInv' /\ BegunInv'
<1> DEFINE f == Head(batch)
           cur == DirName(f)
<1>0. IngestShape /\ QueueInv /\ PlaceInv /\ KeptInv /\ BegunInv
  BY DEF IngestInv, DiskInv
<1>1. /\ phase = "commit" /\ written = 4 /\ accepted' = accepted + 1 /\ phase' # "commit"
      /\ UNCHANGED <<verdict, seen_fn_names, disk>> /\ accepted \in Nat
  BY <1>0, PartsFacts DEF Committed, fixed, IngestShape
<1>2. batch # <<>> /\ f \in Files
  BY <1>0, <1>1, HeadTailProperties DEF PlaceInv, QueueInv
<1>3. cur \in DOMAIN disk /\ cur[1] = accepted /\ cur \notin Kept
  BY <1>0, <1>1 DEF BegunInv, DirName, Kept
<1>4. \A d \in DOMAIN disk \ Kept : d = cur
  BY <1>0 DEF BegunInv, Begun
<1>5. disk[cur] = [p \in Part |-> f]
  <2>1. \A k \in 1..4 : disk[cur][Parts[k]] = f
    BY <1>0, <1>1, <1>3 DEF BegunInv, Begun
  <2>2. \A p \in Part : disk[cur][p] = f
    BY <2>1, PartsFacts
  <2>3. disk[cur] \in [Part -> Files \cup {None, Torn}]
    BY <1>0, <1>3 DEF IngestShape
  <2> HIDE DEF f, cur
  <2> QED BY <2>2, <2>3
<1>6. \A e \in Kept : verdict[disk[e]["signature"]] # verdict[f]
  BY <1>0, <1>1 DEF BegunInv
<1>7. verdict[f] \in seen_fn_names /\ disk[cur]["signature"] = f
  BY <1>0, <1>1, <1>5 DEF BegunInv, Part
<1> HIDE DEF f, cur
<1>8. Kept' = DOMAIN disk
  <2>1. \A d \in DOMAIN disk : d[1] # accepted + 1
    BY <1>0, <1>1 DEF KeptInv
  <2> QED BY <1>1, <2>1 DEF Kept
<1>9. Kept' = Kept \cup {cur}
  BY <1>3, <1>4, <1>8 DEF Kept
<1>10. IsFiniteSet(Kept') /\ Cardinality(Kept') = accepted'
  <2>1. IsFiniteSet(Kept) /\ Cardinality(Kept) = accepted
    BY <1>0 DEF KeptInv
  <2> QED BY <1>1, <1>3, <1>9, <2>1, FS_AddElement
<1>11. \A d \in DOMAIN disk' : d[1] \in 0..accepted'
  BY <1>0, <1>1 DEF KeptInv
<1>12. \A d \in Kept' : \E g \in Files : disk'[d] = [p \in Part |-> g] /\ verdict'[g] \in seen_fn_names'
  BY <1>0, <1>1, <1>2, <1>5, <1>7, <1>9 DEF KeptInv
<1>13. \A d, e \in Kept' : verdict'[disk'[d]["signature"]] = verdict'[disk'[e]["signature"]] => d = e
  BY <1>0, <1>1, <1>6, <1>7, <1>9 DEF KeptInv
<1>14. KeptInv'
  BY <1>10, <1>11, <1>12, <1>13 DEF KeptInv
<1>15. BegunInv'
  BY <1>1, <1>8 DEF BegunInv
<1> QED BY <1>14, <1>15

LEMMA DiskStep == IngestInv /\ [IngestNext]_ivars => DiskInv'
<1> SUFFICES ASSUME IngestInv, [IngestNext]_ivars PROVE DiskInv'
  OBVIOUS
<1>0. IngestShape /\ QueueInv /\ PlaceInv /\ DiskInv
  BY DEF IngestInv
<1>1. CASE LoopHead
  BY <1>0, <1>1, DiskQuiet DEF LoopHead, fixed, queue, saved
<1>2. CASE Submit
  BY <1>0, <1>2, DiskQuiet DEF Submit, CanSubmit, fixed, saved
<1>3. CASE SubmitRaises
  BY <1>0, <1>3, DiskQuiet DEF SubmitRaises, CanSubmit, fixed, saved
<1>4. CASE Poll
  BY <1>0, <1>4, DiskQuiet DEF Poll, fixed, saved
<1>5. CASE Drop
  BY <1>0, <1>5, DiskQuiet DEF Drop, NextOfBatch, fixed, saved
<1>6. CASE Accept
  <2>1. /\ phase = "drain" /\ phase' = "commit" /\ ~Dropped(Head(batch))
        /\ seen_fn_names' = seen_fn_names \cup {verdict[Head(batch)]}
        /\ UNCHANGED <<verdict, run, batch, accepted, disk, written>>
    BY <1>6 DEF Accept, NextOfBatch, fixed, queue
  <2> SUFFICES ASSUME FirstRun PROVE KeptInv' /\ BegunInv'
    BY <2>1 DEF DiskInv, FirstRun
  <2>2. KeptInv /\ BegunInv /\ Kept' = Kept /\ written = 0
    BY <1>0, <2>1 DEF DiskInv, Kept, PlaceInv
  <2>3. DOMAIN disk \ Kept = {}
    BY <2>1, <2>2 DEF BegunInv, Begun
  <2>4. \A e \in Kept : verdict[disk[e]["signature"]] \in seen_fn_names
    <3> SUFFICES ASSUME NEW e \in Kept PROVE verdict[disk[e]["signature"]] \in seen_fn_names
      OBVIOUS
    <3>1. PICK f \in Files : disk[e] = [p \in Part |-> f] /\ verdict[f] \in seen_fn_names
      BY <2>2 DEF KeptInv
    <3>2. disk[e]["signature"] = f
      BY <3>1 DEF Part
    <3> QED BY <3>1, <3>2
  <2>5. verdict[Head(batch)] \notin seen_fn_names
    BY <2>1 DEF Dropped
  <2>6. KeptInv'
    <3>1. \A d \in Kept : \E f \in Files : disk[d] = [p \in Part |-> f] /\ verdict[f] \in seen_fn_names'
      BY <2>1, <2>2 DEF KeptInv
    <3> QED BY <2>1, <2>2, <3>1 DEF KeptInv
  <2>7. BegunInv'
    BY <2>1, <2>2, <2>3, <2>4, <2>5 DEF BegunInv
  <2> QED BY <2>6, <2>7
<1>7. CASE WritePart
  <2>1. /\ phase = "commit" /\ phase' = "commit" /\ written \in 0..3 /\ written' = written + 1
        /\ disk' = Put(DirName(Head(batch)), Parts[written + 1], Head(batch))
        /\ UNCHANGED <<verdict, run, batch, seen_fn_names, accepted>>
    BY <1>0, <1>7, PartsFacts DEF WritePart, fixed, queue, IngestShape
  <2>2. batch # <<>> /\ Head(batch) \in Files
    BY <1>0, <2>1, HeadTailProperties DEF PlaceInv, QueueInv
  <2>3. FirstRun => KeptInv' /\ BegunInv'
    BY <1>0, <2>1, <2>2, DiskWrite
  <2> QED BY <2>1, <2>3 DEF DiskInv, FirstRun
<1>8. CASE Committed
  <2>1. run' = run
    BY <1>8 DEF Committed, fixed
  <2> QED BY <1>8, <2>1, DiskCommitted DEF DiskInv, FirstRun
<1>9. CASE BatchDone
  BY <1>0, <1>9, DiskQuiet DEF BatchDone, fixed, saved
<1>10. CASE Close
  BY <1>0, <1>10, DiskQuiet DEF Close, fixed, saved
<1>11. CASE \E f \in Files : WorkerEnds(f)
  BY <1>0, <1>11, DiskSame DEF WorkerEnds, fixed, queue, saved
<1>12. CASE PoolBreaks
  BY <1>0, <1>12, DiskSame DEF PoolBreaks, fixed, queue, saved
<1>13. CASE Killed
  <2>1. /\ phase' = "dead" /\ phase # "dead"
        /\ UNCHANGED <<verdict, run, batch, seen_fn_names, accepted, written>>
    BY <1>13 DEF Killed, Up, fixed, queue
  <2> SUFFICES ASSUME FirstRun PROVE KeptInv' /\ BegunInv'
    BY <2>1 DEF DiskInv, FirstRun
  <2>2. CASE UNCHANGED disk
    <3>1. KeptInv /\ BegunInv /\ Kept' = Kept
      BY <1>0, <2>1, <2>2 DEF DiskInv, Kept
    <3>2. KeptInv'
      BY <2>1, <2>2, <3>1 DEF KeptInv
    <3>3. \A d \in DOMAIN disk \ Kept : Begun(d)'
      BY <2>1, <2>2, <3>1 DEF BegunInv, Begun, DirName
    <3>4. BegunInv'
      BY <2>1, <2>2, <3>1, <3>3 DEF BegunInv
    <3> QED BY <3>2, <3>4
  <2>3. CASE /\ phase = "commit" /\ written < Len(Parts)
             /\ disk' = Put(DirName(Head(batch)), Parts[written + 1], Torn)
    <3>1. batch # <<>> /\ Head(batch) \in Files /\ written \in 0..3
      BY <1>0, <2>3, PartsFacts, HeadTailProperties DEF PlaceInv, QueueInv, IngestShape
    <3> QED BY <1>0, <2>1, <2>3, <3>1, DiskWrite
  <2> QED BY <1>13, <2>2, <2>3 DEF Killed
<1>14. CASE Rerun
  BY <1>0, <1>14 DEF Rerun, DiskInv, FirstRun, IngestShape
<1>15. CASE UNCHANGED ivars
  BY <1>0, <1>15, DiskSame DEF ivars, fixed, queue, saved
<1> QED BY <1>1, <1>2, <1>3, <1>4, <1>5, <1>6, <1>7, <1>8, <1>9, <1>10, <1>11, <1>12,
           <1>13, <1>14, <1>15 DEF IngestNext, Main

-----------------------------------------------------------------------------
(* The inductive invariant holds in every state of the ingest.             *)
THEOREM IngestInvariance == IngestSpec => []IngestInv
<1>1. IngestInv /\ [IngestNext]_ivars => IngestInv'
  BY ShapeStep, QueueStep, PlaceStep, DiskStep DEF IngestInv
<1> QED BY IngestInitInv, <1>1, PTL DEF IngestSpec

(* Types: the variables of main(), the files on the disk, and that no more *)
(* is accepted than there are files.                                       *)
THEOREM IngestTypeCorrect == IngestSpec => []IngestTypeOK
<1>1. IngestInv => IngestTypeOK
  <2> SUFFICES ASSUME IngestInv PROVE IngestTypeOK
    OBVIOUS
  <2>0. IngestShape /\ QueueInv /\ PlaceInv
    BY DEF IngestInv
  <2>1. /\ Range(in_flight) \subseteq 1..idx /\ Range(batch) \subseteq 1..idx
        /\ decided \subseteq 1..idx
    BY <2>0 DEF QueueInv, Held
  <2>2. accepted \in 0..NFiles
    <3>1. accepted \in Nat /\ idx \in Nat /\ idx <= NFiles /\ accepted <= Cardinality(decided)
      BY <2>0, IngestAssumption DEF IngestShape, PlaceInv
    <3>2. Cardinality(decided) \in Nat /\ Cardinality(decided) <= idx
      BY <2>0, HeldFinite
    <3> QED BY <3>1, <3>2, IngestAssumption
  <2>3. written \in 0..Len(Parts)
    BY <2>0, PartsFacts DEF IngestShape
  <2>4. \A d \in DOMAIN disk : disk[d] \in [Range(Parts) -> Files \cup {None, Torn}]
    BY <2>0, PartsFacts DEF IngestShape
  <2>5. /\ phase \in {"head", "refill", "drain", "commit", "closing", "done", "dead"}
        /\ idx \in 0..NFiles /\ finished \subseteq 1..idx /\ lost \subseteq finished
    BY <2>0 DEF IngestShape, Phases
  <2> QED BY <2>1, <2>2, <2>3, <2>4, <2>5 DEF IngestTypeOK
<1> QED BY IngestInvariance, <1>1, PTL

(* The window: while the loop runs every submitted file is in exactly one  *)
(* place, and no more than Chunk are held (ingest_anghabench.py, the inner *)
(* while and the split into done and still).                               *)
THEOREM NothingForgotten == IngestSpec => []WindowAccounts
<1>1. IngestInv => WindowAccounts
  <2> SUFFICES ASSUME IngestInv, accepted < target
               PROVE  /\ Range(in_flight) \cup Range(batch) \cup decided = 1..idx
                      /\ Len(in_flight) + Len(batch) + Cardinality(decided) = idx
                      /\ Len(in_flight) + Len(batch) <= Chunk
    BY DEF WindowAccounts
  <2>0. IngestShape /\ QueueInv
    BY DEF IngestInv
  <2>1. Held \cup decided = 1..idx /\ Cardinality(Held) <= Chunk
    BY <2>0 DEF QueueInv
  <2>2. /\ Cardinality(Held) = Len(in_flight) + Len(batch) /\ Cardinality(1..idx) = idx
        /\ Cardinality(Held \cup decided) = Cardinality(Held) + Cardinality(decided)
    BY <2>0, HeldFinite
  <2>3. Len(in_flight) + Len(batch) + Cardinality(decided) = idx
    <3>1. Cardinality(Held \cup decided) = idx
      BY <2>1, <2>2, Zenon
    <3> QED BY <2>2, <3>1
  <2>4. Range(in_flight) \cup Range(batch) \cup decided = 1..idx
    BY <2>1 DEF Held
  <2> QED BY <2>1, <2>2, <2>3, <2>4
<1> QED BY IngestInvariance, <1>1, PTL

(* A finished directory has the files of one accepted result in it.        *)
LEMMA KeptWhole ==
  ASSUME KeptInv, NEW d \in Kept
  PROVE  \E f \in Files : \A p \in Part : disk[d][p] = f
<1>1. PICK f \in Files : disk[d] = [p \in Part |-> f]
  BY DEF KeptInv
<1> QED BY <1>1

(* A directory cut short that has a whole signature has what was written   *)
(* before it, of the file in hand.                                         *)
LEMMA BegunWhole ==
  ASSUME IngestShape, NEW d \in DOMAIN disk, Begun(d), disk[d]["signature"] \notin {None, Torn}
  PROVE  \A p \in {"source", "asm", "signature"} : disk[d][p] = Head(batch)
<1>1. /\ Parts[1] = "source" /\ Parts[2] = "asm" /\ Parts[3] = "signature"
      /\ 1 \in 1..4 /\ 2 \in 1..4 /\ 3 \in 1..4 /\ written \in 0..4
  BY DEF Parts, IngestShape
<1>2. 3 <= written
  BY <1>1 DEF Begun
<1>3. 1 <= written /\ 2 <= written
  BY <1>1, <1>2
<1> QED BY <1>1, <1>2, <1>3 DEF Begun

(* After a first run, killed or not, the loader sees whole samples only.   *)
THEOREM SamplesAreWhole == IngestSpec => []LoadedWhole
<1>1. IngestInv => LoadedWhole
  <2> SUFFICES ASSUME IngestInv, FirstRun, Loadable, NEW d \in Loaded
               PROVE  \E f \in Files : \A p \in {"source", "asm", "signature"} : disk[d][p] = f
    BY DEF LoadedWhole
  <2>0. IngestShape /\ QueueInv /\ KeptInv /\ BegunInv
    BY DEF IngestInv, DiskInv
  <2>1. d \in DOMAIN disk /\ disk[d]["signature"] \notin {None, Torn}
    BY DEF Loaded, Loadable
  <2>2. CASE d \in Kept
    BY <2>0, <2>2, KeptWhole DEF Part
  <2>3. CASE d \notin Kept
    <3>1. Begun(d)
      BY <2>0, <2>1, <2>3 DEF BegunInv
    <3>2. Head(batch) \in Files
      BY <2>0, <3>1, HeadTailProperties DEF QueueInv, Begun
    <3> QED BY <2>0, <2>1, <3>1, <3>2, BegunWhole
  <2> QED BY <2>2, <2>3
<1> QED BY IngestInvariance, <1>1, PTL

(* A first run puts one sample per function name in the corpus, whatever   *)
(* the order in which the workers finish.                                  *)
THEOREM OneSamplePerFunction == IngestSpec => []OnePerFunction
<1>1. IngestInv => OnePerFunction
  <2> SUFFICES ASSUME IngestInv, FirstRun, NEW d \in Loaded, NEW e \in Loaded,
                      disk[d]["signature"] \in Files, disk[e]["signature"] \in Files,
                      verdict[disk[d]["signature"]] = verdict[disk[e]["signature"]]
               PROVE  d = e
    BY DEF OnePerFunction
  <2>0. IngestShape /\ KeptInv /\ BegunInv
    BY DEF IngestInv, DiskInv
  <2>1. /\ d \in DOMAIN disk /\ disk[d]["signature"] \notin {None, Torn}
        /\ e \in DOMAIN disk /\ disk[e]["signature"] \notin {None, Torn}
    BY IngestAssumption DEF Loaded
  <2>2. d \notin Kept => Begun(d) /\ disk[d]["signature"] = Head(batch)
    BY <2>0, <2>1, BegunWhole DEF BegunInv
  <2>3. e \notin Kept => Begun(e) /\ disk[e]["signature"] = Head(batch)
    BY <2>0, <2>1, BegunWhole DEF BegunInv
  <2>4. CASE d \in Kept /\ e \in Kept
    BY <2>0, <2>4 DEF KeptInv
  <2>5. CASE d \notin Kept /\ e \notin Kept
    BY <2>2, <2>3, <2>5 DEF Begun
  <2>6. CASE d \notin Kept /\ e \in Kept
    BY <2>2, <2>6 DEF Begun
  <2>7. CASE d \in Kept /\ e \notin Kept
    BY <2>3, <2>7 DEF Begun
  <2> QED BY <2>4, <2>5, <2>6, <2>7
<1> QED BY IngestInvariance, <1>1, PTL

(* The manifest of a first run counts what is in the directory, and no     *)
(* more than the target.                                                   *)
THEOREM ManifestIsRight == IngestSpec => []ManifestCounts
<1>1. IngestInv => ManifestCounts
  <2> SUFFICES ASSUME IngestInv, FirstRun, phase = "done"
               PROVE  accepted = Cardinality(Loaded) /\ accepted <= target
    BY DEF ManifestCounts
  <2>0. KeptInv /\ BegunInv /\ PlaceInv
    BY DEF IngestInv, DiskInv
  <2>1. \A d \in DOMAIN disk : d \in Kept
    BY <2>0 DEF BegunInv, Begun
  <2>2. ASSUME NEW d \in Kept PROVE d \in Loaded
    <3>1. PICK f \in Files : \A p \in Part : disk[d][p] = f
      BY <2>0, KeptWhole
    <3>2. \A p \in {"source", "asm", "signature"} : disk[d][p] # None
      BY <3>1, IngestAssumption DEF Part
    <3> QED BY <3>2 DEF Loaded, Kept
  <2>3. Loaded = Kept
    BY <2>1, <2>2 DEF Loaded
  <2> QED BY <2>0, <2>3 DEF KeptInv, PlaceInv
<1> QED BY IngestInvariance, <1>1, PTL
=============================================================================
